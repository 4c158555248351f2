----------------------------- MODULE MCSlotSync -----------------------------
(* Small instances of SlotSync.                                            *)
EXTENDS SlotSync

TwoIndices == {0, 1}
Desc(t, m, c) == [type |-> t, mode |-> m, caps |-> c]

(* From the second, the others differ in one field each.                   *)
Kinds == {Desc("xbox", "off", 0), Desc("ds4", "off", 0), Desc("ds4", "mouse", 0),
          Desc("ds4", "off", 1)}

Some(events) == events @@ [e \in Events |-> 0]

(* Requests in order, none lost.                                           *)
Changes == Some([slot |-> 3, death |-> 1])
Drops == Some([slot |-> 2, death |-> 1, dropped |-> 1])
Falters == Some([slot |-> 2, falter |-> 1])
Rekeys == Some([slot |-> 2, falter |-> 1, rekey |-> 1])
(* Faults, with requests that overtake each other.                         *)
Losses == Some([slot |-> 2, lost |-> 1, refused |-> 1, overtake |-> 1])
Tangles == Some([slot |-> 2, falter |-> 1, overtake |-> 1])
Meddling == Some([slot |-> 1, falter |-> 1, lost |-> 1, foreign |-> 1, overtake |-> 1])
AllBudgets == {Changes, Drops, Falters, Rekeys, Losses, Tangles, Meddling}

============================================================================
