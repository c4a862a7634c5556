----------------------------- MODULE Catalogue -----------------------------
(***************************************************************************)
(* What the index promises its readers, whatever order statements run in:  *)
(* an item is there with its signature or not at all, and a batch appears  *)
(* or disappears in one step (core/ingest.py, "never items-without-        *)
(* signatures").                                                           *)
(***************************************************************************)
CONSTANTS
    Items,
    Batches     \* the item sequences one index message carries
VARIABLE shelf      \* [Items -> {"absent", "whole"}]

Init == shelf \in [Items -> {"absent", "whole"}]

\* An index message: all of its items, at once.
Put(b) ==
    shelf' = [i \in Items |-> IF \E k \in DOMAIN b : b[k] = i THEN "whole" ELSE shelf[i]]

\* A deletion: whatever it selects, at once.
Take(S) == shelf' = [i \in Items |-> IF i \in S THEN "absent" ELSE shelf[i]]

Next == (\E b \in Batches : Put(b)) \/ (\E S \in SUBSET Items : Take(S))

Spec == Init /\ [][Next]_shelf
=============================================================================
