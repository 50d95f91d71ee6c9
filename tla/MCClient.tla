------------------------------ MODULE MCClient ------------------------------
(* Instances of module Client for TLC. *)
EXTENDS Client

CONSTANT d1

Event(id, p) ==
  [eventId |-> id, type |-> d1, priority |-> p, retryCount |-> 0]

MCDepartments     == {d1}
MCProcessingTimes == [d \in MCDepartments |-> {1}]
MCHighAndLow      == {Event(1, PRIORITY_HIGH), Event(2, PRIORITY_LOW)}

\* Every event the client can hold: those sent, with any retries used up.
WithRetries(events) ==
  {[m EXCEPT !.retryCount = retry] :
     m \in events, retry \in 0 .. MAX_EVENT_RETRIES}
MCArrivals == WithRetries(Events)
=============================================================================
