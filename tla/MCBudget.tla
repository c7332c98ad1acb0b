------------------------------ MODULE MCBudget ------------------------------
(* The stages StageBudget is checked on.                                   *)
EXTENDS StageBudget

Design(advisory, units, milestone, checker, reader) ==
    [advisory |-> advisory, units |-> units, milestone |-> milestone,
     checker |-> checker, reader |-> reader]

(* Two setbacks in a stage of one unit, one in a stage that takes advice   *)
(* or has two units.                                                       *)
OneUnit    == Design(TRUE, 1, 0, FALSE, TRUE)
MCDesigns  == {OneUnit, Design(FALSE, 2, 0, TRUE, TRUE), Design(TRUE, 2, 0, FALSE, FALSE)}
MCSetbacks == [d \in MCDesigns |-> IF d = OneUnit THEN 2 ELSE 1]

(* A comparison in the middle of three units, which slots_for lists last.  *)
Milestone         == {Design(TRUE, 3, 2, FALSE, FALSE)}
MilestoneSetbacks == [d \in Milestone |-> 1]
=============================================================================
