------------------------------ MODULE MCStore ------------------------------
(* One project with two items whose messages Drain clusters together. *)
EXTENDS Store, TLC

MCShape == [i \in Items |-> "same"]
MCBatches == {<<1>>, <<2, 1>>}
MCVerdicts == {[label |-> "ab", auto |-> TRUE, matched |-> TRUE],
               [label |-> "pb", auto |-> FALSE, matched |-> FALSE]}
Symmetry == Permutations(Workers)
=============================================================================
