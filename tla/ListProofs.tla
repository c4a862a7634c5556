----------------------------- MODULE ListProofs -----------------------------
(***************************************************************************)
(* What the operators of Lists return, for every list, choice and order.   *)
(***************************************************************************)
EXTENDS Lists, SequenceTheorems, FiniteSetTheorems, WellFoundedInduction, TLAPS

(* A set of numbers that is not empty has a least one. *)
LEMMA LeastNumber ==
    ASSUME NEW T \in SUBSET Nat, T # {}
    PROVE  \E m \in T : \A k \in T : m <= k
<1> DEFINE R == {ss \in Nat \X Nat : ss[1] < ss[2]}
<1>1. OpToRel(<, Nat) = R
  BY DEF OpToRel
<1>2. IsWellFoundedOn(R, Nat)
  BY <1>1, NatLessThanWellFounded
<1>3. \A x, y \in Nat : y < x => <<y, x>> \in R
  OBVIOUS
<1> HIDE DEF R
<1>4. PICK x \in T : \A y \in T : ~ (<<y, x>> \in R)
  BY <1>2, WFMin
<1>5. \A y \in T : ~ (y < x)
  BY <1>3, <1>4
<1> QED
  BY <1>5

(* The domain of a sequence. *)
LEMMA SeqDomain ==
    ASSUME NEW s, IsSeq(s)
    PROVE  Len(s) \in Nat /\ DOMAIN s = 1..Len(s)
BY DEF IsSeq

(* A function on 1..n is a sequence. *)
LEMMA SeqOfFunction ==
    ASSUME NEW s, NEW len \in Nat, DOMAIN s = 1..len, s = [k \in 1..len |-> s[k]]
    PROVE  IsSeq(s) /\ Len(s) = len
<1>1. s \in [1..len -> Range(s)]
  BY DEF Range
<1>2. s \in Seq(Range(s))
  BY <1>1
<1> QED
  BY <1>2 DEF IsSeq

(* An empty domain tells the empty sequence. *)
LEMMA EmptyOrNot ==
    ASSUME NEW s, IsSeq(s)
    PROVE  s = <<>> <=> DOMAIN s = {}
<1>1. Len(s) \in Nat /\ DOMAIN s = 1..Len(s) /\ s \in Seq(Range(s))
  BY SeqDomain DEF IsSeq
<1>2. s = <<>> <=> Len(s) = 0
  BY <1>1, EmptySeq
<1>3. ASSUME NEW n \in Nat PROVE n = 0 <=> 1..n = {}
  <2>1. CASE n = 0
    BY <2>1
  <2>2. CASE n # 0
    <3>1. 1 \in 1..n
      BY <2>2
    <3> QED
      BY <2>2, <3>1
  <2> QED
    BY <2>1, <2>2
<1>4. Len(s) = 0 <=> 1..Len(s) = {}
  BY <1>1, <1>3
<1> QED
  BY <1>1, <1>2, <1>4

(* A sequence over any set is one. *)
LEMMA SeqOverSet ==
    ASSUME NEW T, NEW s \in Seq(T)
    PROVE  IsSeq(s)
<1>1. Len(s) \in Nat /\ s \in [1..Len(s) -> T]
  BY LenProperties
<1>2. s \in [1..Len(s) -> Range(s)]
  BY <1>1 DEF Range
<1> QED
  BY <1>1, <1>2 DEF IsSeq

(* Appending keeps what is there. *)
LEMMA Appended ==
    ASSUME NEW s, IsSeq(s), NEW x
    PROVE  /\ IsSeq(Append(s, x))
           /\ Len(Append(s, x)) = Len(s) + 1
           /\ DOMAIN Append(s, x) = 1..(Len(s) + 1)
           /\ \A k \in 1..Len(s) : Append(s, x)[k] = s[k]
           /\ Append(s, x)[Len(s) + 1] = x
<1> DEFINE T == Range(s) \cup {x}
<1>1. s \in Seq(T)
  BY DEF IsSeq
<1>2. x \in T
  OBVIOUS
<1> HIDE DEF T
<1>3. /\ Append(s, x) \in Seq(T) /\ Len(Append(s, x)) = Len(s) + 1
      /\ \A k \in 1..Len(s) : Append(s, x)[k] = s[k]
      /\ Append(s, x)[Len(s) + 1] = x
  BY <1>1, <1>2, AppendProperties
<1>4. Len(s) \in Nat /\ DOMAIN Append(s, x) = 1..(Len(s) + 1)
  BY <1>1, <1>3, LenProperties
<1>5. IsSeq(Append(s, x))
  BY <1>3, SeqOverSet
<1> QED
  BY <1>3, <1>4, <1>5

(* Counting up to it tells the members of a finite set of numbers apart. *)
LEMMA Ranks ==
    ASSUME NEW S \in SUBSET Int, IsFiniteSet(S)
    PROVE  /\ Cardinality(S) \in Nat
           /\ \A i \in S : Cardinality({j \in S : j <= i}) \in 1..Cardinality(S)
           /\ \A i, h \in S : h < i => Cardinality({j \in S : j <= h}) < Cardinality({j \in S : j <= i})
           /\ \A k \in 1..Cardinality(S) : \E i \in S : Cardinality({j \in S : j <= i}) = k
<1>1. Cardinality(S) \in Nat
  BY FS_CardinalityType
<1> DEFINE upTo(i) == {j \in S : j <= i}
<1>2. ASSUME NEW i \in S PROVE IsFiniteSet(upTo(i)) /\ Cardinality(upTo(i)) \in 1..Cardinality(S)
  <2>1. upTo(i) \in SUBSET S /\ i \in upTo(i)
    OBVIOUS
  <2>2. /\ IsFiniteSet(upTo(i)) /\ Cardinality(upTo(i)) <= Cardinality(S)
        /\ Cardinality(upTo(i)) \in Nat
    BY <1>1, <2>1, FS_Subset, FS_CardinalityType
  <2>3. Cardinality(upTo(i)) # 0
    BY <2>1, <2>2, FS_EmptySet
  <2> QED
    BY <1>1, <2>2, <2>3
<1>3. ASSUME NEW i \in S, NEW h \in S, h < i PROVE Cardinality(upTo(h)) < Cardinality(upTo(i))
  <2>1. upTo(h) \in SUBSET upTo(i) /\ upTo(h) # upTo(i)
    <3>1. i \in Int /\ h \in Int /\ S \subseteq Int
      OBVIOUS
    <3>2. i \in upTo(i) /\ i \notin upTo(h)
      BY <1>3, <3>1
    <3>3. ASSUME NEW j \in upTo(h) PROVE j \in upTo(i)
      <4>1. j \in S /\ j \in Int /\ j <= h
        BY <3>1
      <4>2. j <= i
        BY <1>3, <3>1, <4>1
      <4> QED
        BY <4>1, <4>2
    <3> QED
      BY <3>2, <3>3
  <2>2. Cardinality(upTo(h)) <= Cardinality(upTo(i)) /\ Cardinality(upTo(h)) # Cardinality(upTo(i))
    BY <1>2, <2>1, FS_Subset
  <2> QED
    BY <1>2, <2>2
<1>4. ASSUME NEW k \in 1..Cardinality(S) PROVE \E i \in S : Cardinality(upTo(i)) = k
  <2> DEFINE rank == [i \in S |-> Cardinality(upTo(i))]
             T == 1..Cardinality(S)
  <2>1. rank \in [S -> T]
    BY <1>2
  <2>2. \A i, h \in S : rank[i] = rank[h] => i = h
    <3> SUFFICES ASSUME NEW i \in S, NEW h \in S, rank[i] = rank[h] PROVE i = h
      OBVIOUS
    <3>1. i \in Int /\ h \in Int /\ rank[i] \in Nat /\ rank[h] \in Nat
      BY <1>2
    <3>2. ~(i < h) /\ ~(h < i)
      BY <1>2, <1>3, <3>1
    <3> QED
      BY <3>1, <3>2
  <2>3. rank \in Injection(S, T)
    BY <2>1, <2>2 DEF Injection, IsInjective
  <2>4. IsFiniteSet(T) /\ Cardinality(T) = Cardinality(S)
    BY <1>1, FS_Interval
  <2>5. rank \in Surjection(S, T)
    BY <2>3, <2>4, FS_Injection
  <2> QED
    BY <2>5 DEF Surjection
<1> QED
  BY <1>1, <1>2, <1>3, <1>4

(* Ascending enumerates a finite set of numbers, each once, in order. *)
LEMMA AscendingEntries ==
    ASSUME NEW S \in SUBSET Int, IsFiniteSet(S)
    PROVE  /\ Cardinality(S) \in Nat
           /\ Ascending(S) \in [1..Cardinality(S) -> S]
           /\ \A i \in S : \E k \in 1..Cardinality(S) : Ascending(S)[k] = i
           /\ \A k, h \in 1..Cardinality(S) : h < k <=> Ascending(S)[h] < Ascending(S)[k]
<1> DEFINE rank(i) == Cardinality({j \in S : j <= i})
           n_ == Cardinality(S)
           pos == [k \in 1..n_ |-> CHOOSE i \in S : rank(i) = k]
<1>2. /\ n_ \in Nat
      /\ \A i \in S : rank(i) \in 1..n_
      /\ \A i, h \in S : h < i => rank(h) < rank(i)
      /\ \A k \in 1..n_ : \E i \in S : rank(i) = k
  BY Ranks
<1>4. Ascending(S) = pos
  BY DEF Ascending
<1> HIDE DEF rank, n_
<1>5. \A k \in 1..n_ : pos[k] \in S /\ rank(pos[k]) = k
  BY <1>2
<1>6. \A i, h \in S : rank(h) < rank(i) => h < i
  <2> SUFFICES ASSUME NEW i \in S, NEW h \in S, rank(h) < rank(i) PROVE h < i
    OBVIOUS
  <2>1. ~(i < h) /\ i # h
    BY <1>2
  <2> QED
    BY <2>1
<1>7. \A i \in S : pos[rank(i)] = i
  <2> SUFFICES ASSUME NEW i \in S PROVE pos[rank(i)] = i
    OBVIOUS
  <2>1. pos[rank(i)] \in S /\ rank(pos[rank(i)]) = rank(i)
    BY <1>2, <1>5
  <2>2. PICK j \in S : j = pos[rank(i)] /\ rank(j) = rank(i)
    BY <2>1
  <2>3. rank(i) \in Int /\ rank(j) \in Int /\ i \in Int /\ j \in Int
    BY <1>2
  <2>4. ~(j < i) /\ ~(i < j)
    BY <1>2, <2>2, <2>3
  <2>5. j = i
    BY <2>3, <2>4
  <2> QED
    BY <2>2, <2>5
<1>8. \A k, h \in 1..n_ : h < k <=> pos[h] < pos[k]
  <2> SUFFICES ASSUME NEW k \in 1..n_, NEW h \in 1..n_ PROVE h < k <=> pos[h] < pos[k]
    OBVIOUS
  <2>1. PICK i \in S : i = pos[h] /\ rank(i) = h
    BY <1>5
  <2>2. PICK j \in S : j = pos[k] /\ rank(j) = k
    BY <1>5
  <2>3. rank(i) < rank(j) <=> i < j
    BY <1>2, <1>6
  <2> QED
    BY <2>1, <2>2, <2>3
<1>9. pos \in [1..n_ -> S]
  BY <1>5
<1> HIDE DEF pos
<1>12. \A i \in S : \E k \in 1..n_ : pos[k] = i
  BY <1>2, <1>7
<1> QED
  BY <1>2, <1>4, <1>8, <1>9, <1>12 DEF n_

(* The positions of a sequence are a finite set of numbers. *)
LEMMA PositionsFinite ==
    ASSUME NEW s, IsSeq(s), NEW S \in SUBSET DOMAIN s
    PROVE  S \in SUBSET Int /\ IsFiniteSet(S) /\ IsFiniteSet(DOMAIN s)
<1>1. Len(s) \in Nat /\ DOMAIN s = 1..Len(s)
  BY SeqDomain
<1>2. IsFiniteSet(DOMAIN s)
  BY <1>1, FS_Interval
<1> QED
  BY <1>1, <1>2, FS_Subset

(* What Picked returns: the entries at S, each once, in their order. *)
LEMMA PickedEntries ==
    ASSUME NEW s, IsSeq(s), NEW S \in SUBSET DOMAIN s
    PROVE  /\ IsSeq(Picked(s, S))
           /\ \E at_ \in [DOMAIN Picked(s, S) -> S] :
                /\ \A k \in DOMAIN Picked(s, S) : Picked(s, S)[k] = s[at_[k]]
                /\ \A i \in S : \E k \in DOMAIN Picked(s, S) : at_[k] = i
                /\ \A k, h \in DOMAIN Picked(s, S) : h < k <=> at_[h] < at_[k]
<1> DEFINE n_ == Cardinality(S)
           pos == Ascending(S)
<1>1. /\ n_ \in Nat /\ pos \in [1..n_ -> S]
      /\ \A i \in S : \E k \in 1..n_ : pos[k] = i
      /\ \A k, h \in 1..n_ : h < k <=> pos[h] < pos[k]
  BY PositionsFinite, AscendingEntries
<1>2. Picked(s, S) = [k \in 1..n_ |-> s[pos[k]]]
  BY DEF Picked
<1> HIDE DEF n_, pos
<1>3. DOMAIN Picked(s, S) = 1..n_ /\ \A k \in 1..n_ : Picked(s, S)[k] = s[pos[k]]
  BY <1>2
<1>4. IsSeq(Picked(s, S))
  BY <1>1, <1>2, <1>3, SeqOfFunction
<1> QED
  BY <1>1, <1>3, <1>4

(* The same, without the positions. *)
LEMMA PickedRange ==
    ASSUME NEW s, IsSeq(s), NEW S \in SUBSET DOMAIN s
    PROVE  /\ IsSeq(Picked(s, S))
           /\ \A k \in DOMAIN Picked(s, S) : \E i \in S : Picked(s, S)[k] = s[i]
           /\ \A i \in S : \E k \in DOMAIN Picked(s, S) : Picked(s, S)[k] = s[i]
           /\ Picked(s, S) = <<>> <=> S = {}
<1>1. PICK at_ \in [DOMAIN Picked(s, S) -> S] :
        /\ \A k \in DOMAIN Picked(s, S) : Picked(s, S)[k] = s[at_[k]]
        /\ \A i \in S : \E k \in DOMAIN Picked(s, S) : at_[k] = i
  BY PickedEntries
<1>2. IsSeq(Picked(s, S))
  BY PickedEntries
<1>3. Picked(s, S) = <<>> <=> DOMAIN Picked(s, S) = {}
  BY <1>2, EmptyOrNot
<1> QED
  BY <1>1, <1>2, <1>3, ZenonT(30)

(* The first entries. *)
LEMMA PrefixEntries ==
    ASSUME NEW s, IsSeq(s), NEW n \in Int
    PROVE  /\ IsSeq(Prefix(s, n))
           /\ DOMAIN Prefix(s, n) = {k \in DOMAIN s : k <= n}
           /\ \A k \in DOMAIN Prefix(s, n) : Prefix(s, n)[k] = s[k]
<1>1. Len(s) \in Nat /\ DOMAIN s = 1..Len(s)
  BY SeqDomain
<1> DEFINE m == IF n < Len(s) THEN n ELSE Len(s)
           T == Range(s)
<1>2. m \in Int /\ m <= Len(s) /\ m <= n
  BY <1>1
<1>3. Prefix(s, n) = SubSeq(s, 1, m)
  BY DEF Prefix
<1>4. {k \in DOMAIN s : k <= n} = 1..m
  BY <1>1
<1> HIDE DEF m
<1>5. \A i \in 1..m : s[i] \in T
  BY <1>1, <1>2 DEF Range
<1> HIDE DEF T
<1>6. /\ SubSeq(s, 1, m) \in Seq(T)
      /\ Len(SubSeq(s, 1, m)) = IF 1 <= m THEN m - 1 + 1 ELSE 0
      /\ \A i \in 1..(m - 1 + 1) : SubSeq(s, 1, m)[i] = s[1 + i - 1]
  BY <1>2, <1>5, SubSeqProperties
<1>7. IsSeq(Prefix(s, n)) /\ DOMAIN Prefix(s, n) = 1..Len(SubSeq(s, 1, m))
  BY <1>3, <1>6, SeqOverSet, LenProperties
<1>8. DOMAIN Prefix(s, n) = 1..m
  BY <1>2, <1>6, <1>7
<1>9. \A k \in 1..m : SubSeq(s, 1, m)[k] = s[k]
  <2> SUFFICES ASSUME NEW k \in 1..m PROVE SubSeq(s, 1, m)[k] = s[k]
    OBVIOUS
  <2>1. k \in 1..(m - 1 + 1) /\ 1 + k - 1 = k
    BY <1>2
  <2> QED
    BY <1>6, <2>1
<1> QED
  BY <1>3, <1>4, <1>7, <1>8, <1>9

-----------------------------------------------------------------------------
(* Sorting *)

(* R is a strict total order of D. *)
IsOrder(D, R) ==
    /\ \A i, j \in D : i # j => <<i, j>> \in R \/ <<j, i>> \in R
    /\ \A i, j \in D : ~(<<i, j>> \in R /\ <<j, i>> \in R)
    /\ \A i, j, k \in D : <<i, j>> \in R /\ <<j, k>> \in R => <<i, k>> \in R

(* Counting what comes before it tells the members of D apart. *)
LEMMA OrderRanks ==
    ASSUME NEW D, IsFiniteSet(D), NEW R, IsOrder(D, R),
           NEW rank, rank = [i \in D |-> Cardinality({j \in D : <<j, i>> \in R})]
    PROVE  /\ Cardinality(D) \in Nat
           /\ \A i \in D : rank[i] \in 0..(Cardinality(D) - 1)
           /\ \A i, h \in D : <<h, i>> \in R => rank[h] < rank[i]
           /\ \A k \in 0..(Cardinality(D) - 1) : \E i \in D : rank[i] = k
<1>1. Cardinality(D) \in Nat
  BY FS_CardinalityType
<1> DEFINE before(i) == {j \in D : <<j, i>> \in R}
<1>2. ASSUME NEW i \in D
      PROVE  /\ IsFiniteSet(before(i)) /\ Cardinality(before(i)) \in Int
             /\ Cardinality(before(i)) \in 0..(Cardinality(D) - 1)
  <2>1. before(i) \in SUBSET D /\ before(i) # D
    BY DEF IsOrder
  <2>2. /\ IsFiniteSet(before(i)) /\ Cardinality(before(i)) <= Cardinality(D)
        /\ Cardinality(before(i)) \in Nat /\ Cardinality(before(i)) # Cardinality(D)
    BY <1>1, <2>1, FS_Subset, FS_CardinalityType
  <2> QED
    BY <1>1, <2>2
<1>3. ASSUME NEW i \in D, NEW h \in D, <<h, i>> \in R
      PROVE  Cardinality(before(h)) < Cardinality(before(i))
  <2>1. before(h) \in SUBSET before(i)
    BY <1>3 DEF IsOrder
  <2>2. h \in before(i) /\ h \notin before(h)
    BY <1>3 DEF IsOrder
  <2>3. Cardinality(before(h)) <= Cardinality(before(i)) /\ Cardinality(before(h)) # Cardinality(before(i))
    BY <1>2, <2>1, <2>2, FS_Subset
  <2>4. Cardinality(before(h)) \in Int /\ Cardinality(before(i)) \in Int
    BY <1>2
  <2> HIDE DEF before
  <2> QED
    BY <2>3, <2>4
<1>4. ASSUME NEW k \in 0..(Cardinality(D) - 1) PROVE \E i \in D : rank[i] = k
  <2> DEFINE T == 0..(Cardinality(D) - 1)
  <2>1. rank \in [D -> T]
    BY <1>2
  <2>2. \A i, h \in D : rank[i] = rank[h] => i = h
    <3> SUFFICES ASSUME NEW i \in D, NEW h \in D, rank[i] = rank[h], i # h PROVE FALSE
      OBVIOUS
    <3>1. rank[i] \in Int /\ rank[h] \in Int
      BY <1>1, <2>1
    <3>2. <<i, h>> \in R \/ <<h, i>> \in R
      BY DEF IsOrder
    <3>3. rank[i] < rank[h] \/ rank[h] < rank[i]
      BY <1>3, <3>2
    <3> QED
      BY <3>1, <3>3
  <2>3. rank \in Injection(D, T)
    BY <2>1, <2>2 DEF Injection, IsInjective
  <2>4. IsFiniteSet(T) /\ Cardinality(T) = Cardinality(D)
    BY <1>1, FS_Interval
  <2>5. rank \in Surjection(D, T)
    BY <2>3, <2>4, FS_Injection
  <2> QED
    BY <2>5 DEF Surjection
<1> QED
  BY <1>1, <1>2, <1>3, <1>4

(* What Sorted returns under a total order: the entries, each once, and    *)
(* one before the other as the order has them.                             *)
LEMMA SortedEntries ==
    ASSUME NEW s, IsSeq(s), NEW R, IsOrder(DOMAIN s, R)
    PROVE  /\ IsSeq(Sorted(s, R)) /\ DOMAIN Sorted(s, R) = DOMAIN s
           /\ \E at_ \in [DOMAIN s -> DOMAIN s] :
                /\ \A k \in DOMAIN s : Sorted(s, R)[k] = s[at_[k]]
                /\ \A i \in DOMAIN s : \E k \in DOMAIN s : at_[k] = i
                /\ \A k, h \in DOMAIN s : h < k => <<at_[h], at_[k]>> \in R
<1> DEFINE D == DOMAIN s
           rank(i) == Cardinality({j \in D : Ahead(R, j, i)})
           pos == [k \in D |-> CHOOSE i \in D : rank(i) = k - 1]
<1>0. Len(s) \in Nat /\ D = 1..Len(s)
  BY SeqDomain
<1>1. /\ Len(s) \in Nat /\ D = 1..Len(s) /\ IsFiniteSet(D) /\ Cardinality(D) = Len(s)
      /\ IsOrder(D, R)
  <2>1. ASSUME NEW n \in Nat PROVE IsFiniteSet(1..n) /\ Cardinality(1..n) = n
    BY FS_Interval
  <2> QED
    BY <1>0, <2>1
<1>4. Sorted(s, R) = [k \in D |-> s[pos[k]]]
  BY DEF Sorted
<1> HIDE DEF D
<1>3. ASSUME NEW i \in D PROVE {j \in D : Ahead(R, j, i)} = {j \in D : <<j, i>> \in R}
  <2> SUFFICES ASSUME NEW j \in D PROVE Ahead(R, j, i) <=> <<j, i>> \in R
    OBVIOUS
  <2>1. CASE j = i
    BY <1>1, <2>1 DEF Ahead, IsOrder
  <2>2. CASE j # i
    BY <1>1, <2>2 DEF Ahead, IsOrder
  <2> QED
    BY <2>1, <2>2
<1>2. /\ \A i \in D : rank(i) \in 0..(Cardinality(D) - 1)
      /\ \A i, h \in D : <<h, i>> \in R => rank(h) < rank(i)
      /\ \A k \in 0..(Cardinality(D) - 1) : \E i \in D : rank(i) = k
  <2> DEFINE count == [i \in D |-> Cardinality({j \in D : <<j, i>> \in R})]
  <2>1. \A i \in D : count[i] = rank(i)
    BY <1>3
  <2>2. PICK f : f = count
    OBVIOUS
  <2>3. /\ \A i \in D : f[i] \in 0..(Cardinality(D) - 1)
        /\ \A i, h \in D : <<h, i>> \in R => f[h] < f[i]
        /\ \A k \in 0..(Cardinality(D) - 1) : \E i \in D : f[i] = k
    <3>1. IsFiniteSet(D) /\ IsOrder(D, R)
      BY <1>1
    <3>2. f = [i \in D |-> Cardinality({j \in D : <<j, i>> \in R})]
      BY <2>2
    <3> HIDE DEF count, rank, pos
    <3> QED
      BY <3>1, <3>2, OrderRanks
  <2> HIDE DEF count, rank
  <2> QED
    BY <2>1, <2>2, <2>3
<1> HIDE DEF rank
<1>5. \A k \in D : pos[k] \in D /\ rank(pos[k]) = k - 1
  <2> SUFFICES ASSUME NEW k \in D PROVE \E i \in D : rank(i) = k - 1
    OBVIOUS
  <2>1. k - 1 \in 0..(Cardinality(D) - 1)
    BY <1>1
  <2> QED
    BY <1>2, <2>1
<1>6. pos \in [D -> D]
  BY <1>5
<1> HIDE DEF pos
<1>7. \A k \in D : Sorted(s, R)[k] = s[pos[k]]
  BY <1>4
<1>8. ASSUME NEW i \in D, NEW j \in D, rank(i) = rank(j) PROVE i = j
  <2>1. rank(i) \in Int /\ rank(j) \in Int
    BY <1>1, <1>2
  <2>2. ~(<<i, j>> \in R) /\ ~(<<j, i>> \in R)
    BY <1>2, <1>8, <2>1
  <2> QED
    BY <1>1, <2>2 DEF IsOrder
<1>9. ASSUME NEW i \in D PROVE \E k \in D : pos[k] = i
  <2>1. rank(i) \in 0..(Len(s) - 1)
    BY <1>1, <1>2
  <2>2. rank(i) + 1 \in D /\ (rank(i) + 1) - 1 = rank(i)
    BY <1>1, <2>1
  <2>3. pos[rank(i) + 1] \in D /\ rank(pos[rank(i) + 1]) = rank(i)
    BY <1>5, <2>2
  <2> QED
    BY <1>8, <2>2, <2>3
<1>10. ASSUME NEW k \in D, NEW h \in D, h < k PROVE <<pos[h], pos[k]>> \in R
  <2>1. pos[h] \in D /\ pos[k] \in D /\ rank(pos[h]) = h - 1 /\ rank(pos[k]) = k - 1
    BY <1>5
  <2>2. h \in Int /\ k \in Int
    BY <1>1
  <2>3. rank(pos[h]) < rank(pos[k]) /\ rank(pos[h]) \in Int /\ rank(pos[k]) \in Int
    BY <1>10, <2>1, <2>2
  <2>4. pos[h] # pos[k]
    BY <2>3
  <2>5. ~(<<pos[k], pos[h]>> \in R)
    BY <1>2, <2>1, <2>3
  <2> QED
    BY <1>1, <2>1, <2>4, <2>5 DEF IsOrder
<1>11. IsSeq(Sorted(s, R)) /\ DOMAIN Sorted(s, R) = D
  <2>1. DOMAIN Sorted(s, R) = 1..Len(s)
    BY <1>1, <1>4
  <2>2. Sorted(s, R) = [k \in 1..Len(s) |-> Sorted(s, R)[k]]
    BY <1>1, <1>4
  <2> QED
    BY <1>1, <2>1, <2>2, SeqOfFunction
<1> QED
  BY <1>6, <1>7, <1>9, <1>10, <1>11 DEF D

(* The same, without the positions. *)
LEMMA SortedRange ==
    ASSUME NEW s, IsSeq(s), NEW R, IsOrder(DOMAIN s, R)
    PROVE  /\ IsSeq(Sorted(s, R)) /\ DOMAIN Sorted(s, R) = DOMAIN s
           /\ \A k \in DOMAIN Sorted(s, R) : \E i \in DOMAIN s : Sorted(s, R)[k] = s[i]
           /\ \A i \in DOMAIN s : \E k \in DOMAIN Sorted(s, R) : Sorted(s, R)[k] = s[i]
BY SortedEntries

(* Two lists of the same entries that respect one asymmetric relation are  *)
(* the same list.                                                          *)
LEMMA OneOrder ==
    ASSUME NEW u, IsSeq(u), NEW v, IsSeq(v), NEW Q,
           \A i \in DOMAIN u : \E j \in DOMAIN v : u[i] = v[j],
           \A j \in DOMAIN v : \E i \in DOMAIN u : v[j] = u[i],
           \A h, k \in DOMAIN u : h < k => <<u[h], u[k]>> \in Q,
           \A h, k \in DOMAIN v : h < k => <<v[h], v[k]>> \in Q,
           \A h, k \in DOMAIN u : ~(<<u[h], u[k]>> \in Q /\ <<u[k], u[h]>> \in Q)
    PROVE  u = v
<1>1. /\ Len(u) \in Nat /\ DOMAIN u = 1..Len(u) /\ Len(v) \in Nat /\ DOMAIN v = 1..Len(v)
  BY SeqDomain
<1> DEFINE Odd == {k \in Nat : k \in DOMAIN u \cap DOMAIN v /\ u[k] # v[k]}
<1>2. Odd = {}
  <2> SUFFICES ASSUME Odd # {} PROVE FALSE
    OBVIOUS
  <2>1. PICK k \in Odd : \A j \in Odd : k <= j
    BY LeastNumber
  <2>2. k \in DOMAIN u /\ k \in DOMAIN v /\ u[k] # v[k] /\ k \in Nat
    OBVIOUS
  <2>3. \A j \in DOMAIN u \cap DOMAIN v : j < k => u[j] = v[j]
    BY <1>1, <2>1
  <2>4. PICK m \in DOMAIN v : u[k] = v[m]
    BY <2>2
  <2>5. PICK n \in DOMAIN u : v[k] = u[n]
    BY <2>2
  <2>6. k < m
    <3>1. m # k
      BY <2>2, <2>4
    <3>2. ASSUME m < k PROVE FALSE
      <4>1. m \in DOMAIN u
        BY <1>1, <2>2, <3>2
      <4>2. u[m] = u[k]
        BY <2>3, <2>4, <3>2, <4>1
      <4>3. <<u[m], u[k]>> \in Q
        BY <2>2, <3>2, <4>1
      <4> QED
        BY <2>2, <4>2, <4>3
    <3> QED
      BY <1>1, <2>2, <3>1, <3>2
  <2>7. k < n
    <3>1. n # k
      BY <2>2, <2>5
    <3>2. ASSUME n < k PROVE FALSE
      <4>1. n \in DOMAIN v
        BY <1>1, <2>2, <3>2
      <4>2. u[n] = v[n]
        BY <2>3, <3>2, <4>1
      <4>3. <<v[n], v[k]>> \in Q
        BY <2>2, <3>2, <4>1
      <4>4. <<u[n], u[n]>> \in Q
        BY <2>5, <4>2, <4>3
      <4> QED
        BY <4>4
    <3> QED
      BY <1>1, <2>2, <3>1, <3>2
  <2>8. <<v[k], v[m]>> \in Q /\ <<u[k], u[n]>> \in Q
    BY <2>2, <2>6, <2>7
  <2>9. <<u[n], u[k]>> \in Q
    BY <2>4, <2>5, <2>8
  <2> QED
    BY <2>2, <2>8, <2>9
<1>3. ASSUME NEW k \in DOMAIN u \cap DOMAIN v PROVE u[k] = v[k]
  <2>1. k \in Nat
    BY <1>1
  <2> QED
    BY <1>2, <2>1
<1> HIDE DEF Odd
<1>4. ~(Len(u) < Len(v))
  <2> SUFFICES ASSUME Len(u) < Len(v) PROVE FALSE
    OBVIOUS
  <2> DEFINE k == Len(u) + 1
  <2>1. k \in DOMAIN v
    BY <1>1
  <2>2. PICK m \in DOMAIN u : v[k] = u[m]
    BY <2>1
  <2>3. m \in DOMAIN v /\ m < k
    BY <1>1
  <2>4. v[m] = u[m]
    BY <1>3, <2>3
  <2>5. <<v[m], v[k]>> \in Q
    BY <2>1, <2>3
  <2> HIDE DEF k
  <2>6. <<u[m], u[m]>> \in Q
    BY <2>2, <2>4, <2>5
  <2> QED
    BY <2>6
<1>5. ~(Len(v) < Len(u))
  <2> SUFFICES ASSUME Len(v) < Len(u) PROVE FALSE
    OBVIOUS
  <2> DEFINE k == Len(v) + 1
  <2>1. k \in DOMAIN u
    BY <1>1
  <2>2. PICK m \in DOMAIN v : u[k] = v[m]
    BY <2>1
  <2>3. m \in DOMAIN u /\ m < k
    BY <1>1
  <2>4. v[m] = u[m]
    BY <1>3, <2>3
  <2>5. <<u[m], u[k]>> \in Q
    BY <2>1, <2>3
  <2> HIDE DEF k
  <2>6. <<u[m], u[m]>> \in Q
    BY <2>2, <2>4, <2>5
  <2> QED
    BY <2>3, <2>6
<1>6. Len(u) = Len(v)
  <2>1. ASSUME NEW a \in Nat, NEW b \in Nat, ~(a < b), ~(b < a) PROVE a = b
    BY <2>1
  <2> QED
    BY <1>1, <1>4, <1>5, <2>1
<1> DEFINE T == Range(u) \cup Range(v)
<1>7. u \in Seq(T) /\ v \in Seq(T)
  BY DEF IsSeq
<1> HIDE DEF T
<1>8. \A i \in 1..Len(u) : u[i] = v[i]
  BY <1>1, <1>3, <1>6
<1> QED
  BY <1>6, <1>7, <1>8, SeqEqual

(* Two lists of the same entries, each once, are sorted into one list by   *)
(* orders that agree on the entries.                                       *)
LEMMA SortedStable ==
    ASSUME NEW s, IsSeq(s), NEW t, IsSeq(t),
           \A i, j \in DOMAIN s : s[i] = s[j] => i = j,
           \A i \in DOMAIN s : \E k \in DOMAIN t : s[i] = t[k],
           \A k \in DOMAIN t : \E i \in DOMAIN s : t[k] = s[i],
           NEW R, IsOrder(DOMAIN s, R), NEW Q, IsOrder(DOMAIN t, Q),
           \A i, j \in DOMAIN s : \A k, l \in DOMAIN t :
               s[i] = t[k] /\ s[j] = t[l] => (<<i, j>> \in R <=> <<k, l>> \in Q)
    PROVE  Sorted(s, R) = Sorted(t, Q)
<1> DEFINE u == Sorted(s, R)
           v == Sorted(t, Q)
           E == {p \in Range(s) \X Range(s) :
                    \A i, j \in DOMAIN s : s[i] = p[1] /\ s[j] = p[2] => <<i, j>> \in R}
<1>1. /\ IsSeq(u) /\ DOMAIN u = DOMAIN s
      /\ \A k \in DOMAIN u : \E i \in DOMAIN s : u[k] = s[i]
      /\ \A i \in DOMAIN s : \E k \in DOMAIN u : u[k] = s[i]
  BY SortedRange
<1>2. /\ IsSeq(v) /\ DOMAIN v = DOMAIN t
      /\ \A k \in DOMAIN v : \E i \in DOMAIN t : v[k] = t[i]
      /\ \A i \in DOMAIN t : \E k \in DOMAIN v : v[k] = t[i]
  BY SortedRange
<1>3. PICK a \in [DOMAIN s -> DOMAIN s] :
        /\ \A k \in DOMAIN s : u[k] = s[a[k]]
        /\ \A k, h \in DOMAIN s : h < k => <<a[h], a[k]>> \in R
  BY SortedEntries
<1>4. PICK b \in [DOMAIN t -> DOMAIN t] :
        /\ \A k \in DOMAIN t : v[k] = t[b[k]]
        /\ \A k, h \in DOMAIN t : h < k => <<b[h], b[k]>> \in Q
  BY SortedEntries
<1> HIDE DEF u, v
<1>5. \A i \in DOMAIN u : \E j \in DOMAIN v : u[i] = v[j]
  <2> SUFFICES ASSUME NEW i \in DOMAIN u PROVE \E j \in DOMAIN v : u[i] = v[j]
    OBVIOUS
  <2>1. PICK m \in DOMAIN s : u[i] = s[m]
    BY <1>1
  <2>2. PICK n \in DOMAIN t : s[m] = t[n]
    OBVIOUS
  <2> QED
    BY <1>2, <2>1, <2>2
<1>6. \A j \in DOMAIN v : \E i \in DOMAIN u : v[j] = u[i]
  <2> SUFFICES ASSUME NEW j \in DOMAIN v PROVE \E i \in DOMAIN u : v[j] = u[i]
    OBVIOUS
  <2>1. PICK m \in DOMAIN t : v[j] = t[m]
    BY <1>2
  <2>2. PICK n \in DOMAIN s : t[m] = s[n]
    OBVIOUS
  <2> QED
    BY <1>1, <2>1, <2>2
<1>7. ASSUME NEW i \in DOMAIN s, NEW j \in DOMAIN s PROVE <<s[i], s[j]>> \in E <=> <<i, j>> \in R
  BY DEF Range
<1> HIDE DEF E
<1>8. \A h, k \in DOMAIN u : h < k => <<u[h], u[k]>> \in E
  <2> SUFFICES ASSUME NEW h \in DOMAIN s, NEW k \in DOMAIN s, h < k PROVE <<u[h], u[k]>> \in E
    BY <1>1
  <2>1. u[h] = s[a[h]] /\ u[k] = s[a[k]] /\ a[h] \in DOMAIN s /\ a[k] \in DOMAIN s /\ <<a[h], a[k]>> \in R
    BY <1>3
  <2> QED
    BY <1>7, <2>1
<1>9. \A h, k \in DOMAIN v : h < k => <<v[h], v[k]>> \in E
  <2> SUFFICES ASSUME NEW h \in DOMAIN t, NEW k \in DOMAIN t, h < k PROVE <<v[h], v[k]>> \in E
    BY <1>2
  <2>1. v[h] = t[b[h]] /\ v[k] = t[b[k]] /\ b[h] \in DOMAIN t /\ b[k] \in DOMAIN t /\ <<b[h], b[k]>> \in Q
    BY <1>4
  <2>2. PICK i \in DOMAIN s : t[b[h]] = s[i]
    BY <2>1
  <2>3. PICK j \in DOMAIN s : t[b[k]] = s[j]
    BY <2>1
  <2>4. <<i, j>> \in R
    BY <2>1, <2>2, <2>3
  <2> QED
    BY <1>7, <2>1, <2>2, <2>3, <2>4
<1>10. \A h, k \in DOMAIN u : ~(<<u[h], u[k]>> \in E /\ <<u[k], u[h]>> \in E)
  <2> SUFFICES ASSUME NEW h \in DOMAIN s, NEW k \in DOMAIN s,
                      <<u[h], u[k]>> \in E, <<u[k], u[h]>> \in E
               PROVE  FALSE
    BY <1>1
  <2>1. u[h] = s[a[h]] /\ u[k] = s[a[k]] /\ a[h] \in DOMAIN s /\ a[k] \in DOMAIN s
    BY <1>3
  <2>2. <<a[h], a[k]>> \in R /\ <<a[k], a[h]>> \in R
    BY <1>7, <2>1
  <2> QED
    BY <2>1, <2>2 DEF IsOrder
<1> QED
  <2>1. u = v
    BY <1>1, <1>2, <1>5, <1>6, <1>8, <1>9, <1>10, OneOrder
  <2> QED
    BY <2>1 DEF u, v
=============================================================================
