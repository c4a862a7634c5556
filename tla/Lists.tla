------------------------------- MODULE Lists --------------------------------
(***************************************************************************)
(* What a comprehension, sorted() and a slice of the program, or WHERE,    *)
(* ORDER BY and LIMIT of its queries, do to a list.  A choice of entries   *)
(* is a set of positions and an order a set of pairs of positions.         *)
(***************************************************************************)
EXTENDS Integers, Sequences, FiniteSets, Functions

IsSeq(s) == s \in Seq(Range(s))

(* A set of numbers, the least first. *)
Ascending(S) ==
    [k \in 1..Cardinality(S) |-> CHOOSE i \in S : Cardinality({j \in S : j <= i}) = k]

(* The entries of s at the positions S, in their order. *)
Picked(s, S) == [k \in 1..Cardinality(S) |-> s[Ascending(S)[k]]]

Pairs(s) == (DOMAIN s) \X (DOMAIN s)

(* j comes before i: R says so or, where R leaves the two open, it stands  *)
(* before i already.                                                       *)
Ahead(R, j, i) == <<j, i>> \in R \/ (<<i, j>> \notin R /\ j < i)

Sorted(s, R) ==
    [k \in DOMAIN s |-> s[CHOOSE i \in DOMAIN s :
                              Cardinality({j \in DOMAIN s : Ahead(R, j, i)}) = k - 1]]

(* The first n entries, or all of them. *)
Prefix(s, n) == SubSeq(s, 1, IF n < Len(s) THEN n ELSE Len(s))
=============================================================================
