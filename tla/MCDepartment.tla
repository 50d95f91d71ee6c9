---------------------------- MODULE MCDepartment ----------------------------
(* Instances of module Department for TLC. *)
EXTENDS Department

CONSTANT d1

Event(id, p) ==
  [eventId |-> id, type |-> d1, priority |-> p, retryCount |-> 0]

MCDepartments     == {d1}
MCProcessingTimes == [d \in MCDepartments |-> {1}]
MCHighAndLow      == {Event(1, PRIORITY_HIGH), Event(2, PRIORITY_LOW)}
MCHigh            == {Event(1, PRIORITY_HIGH)}
=============================================================================
