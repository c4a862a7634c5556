----------------------------- MODULE MCLearning -----------------------------
(* Three items; two replicas of two feature schemas, as during a rolling upgrade.  A day  *)
(* may start with snapshots of all items, and a label, a full decision or a cold-start    *)
(* answer after their first labels, or with an early snapshot; what comes later is a full *)
(* decision on item 1 or a label.                                                         *)
EXTENDS Learning

MCSchema == [r \in Replicas |-> IF r = "r1" THEN 1 ELSE 2]
Shown(i, source, label, auto) == [item |-> i, source |-> source, label |-> label, auto |-> auto]
Row(kind, s) == [kind |-> kind, item |-> s.item, source |-> s.source, label |-> s.label, auto |-> s.auto]
Label(i, l) == Row("label", Shown(i, "rp", l, FALSE))
Decided(i, source, l, auto) == Row("suggestion", Shown(i, source, l, auto))
Stored(i) == Decided(i, "model", IF i = 3 THEN "ti" ELSE "pb", i = 1)

MCFirst == <<Stored(1), Stored(2), Stored(3), Label(1, "pb"), Label(2, "ab")>>
MCNext == {Decided(1, "model", "ab", TRUE), Decided(1, "coldstart", "ab", FALSE), Label(1, "ab"), Label(2, "ti")}
MCStarts == {Append(MCFirst, e) : e \in MCNext} \cup
            {<<Decided(1, "early", "pb", TRUE), Stored(2), Stored(3), Label(2, "pb"), Label(3, "ab"), Label(1, "pb")>>}
MCSuggestions == {Shown(1, "model", "ab", TRUE)}
MCReports == {[f1 |-> 700, auto |-> Empty, abstain |-> 300, ece |-> 200],
              [f1 |-> 655, auto |-> 860, abstain |-> 340, ece |-> 100]}
=============================================================================
