----------------------------- MODULE MCTransfer -----------------------------
(* Two launches of one name; the first has a PASSED suite around a failed and a passed *)
(* step, the second two failed items.                                                   *)
EXTENDS Transfer

Pb == Locator("rp", "pb", "Product Bug")
Flaky == Locator("src", "ab", "Flaky")
Gone == Locator("src", "si", "Gone")
Item(id, parent, nested, passed, label, log) ==
    [id |-> id, parent |-> parent, nested |-> nested, passed |-> passed, label |-> label, log |-> log]
MCSource ==
    <<[name |-> "nightly", start |-> 1,
       items |-> <<Item(1, 0, FALSE, TRUE, NoIssue, "none"), Item(2, 1, TRUE, TRUE, NoIssue, "text"),
                   Item(3, 1, TRUE, FALSE, Flaky, "file")>>],
      [name |-> "nightly", start |-> 2,
       items |-> <<Item(4, 0, FALSE, FALSE, Pb, "text"), Item(5, 0, FALSE, FALSE, Gone, "none")>>],
      [name |-> "smoke", start |-> 2, items |-> <<Item(6, 0, FALSE, FALSE, Untyped, "none")>>]>>
MCSourceTypes == {Flaky}
MCTargetTypes == {Locator("dst", "ab", "Automation Bug")}

Options(name, limit, skipLast, skipPassed, attach, verify) ==
    [name |-> name, limit |-> limit, skipLast |-> skipLast, skipPassed |-> skipPassed,
     attach |-> attach, verify |-> verify]
MCOptionSets ==
    {Options("nightly", 2, 0, TRUE, TRUE, TRUE), Options(AnyName, 1, 0, FALSE, FALSE, TRUE),
     Options(AnyName, 3, 2, TRUE, TRUE, FALSE)}
=============================================================================
