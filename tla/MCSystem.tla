------------------------------ MODULE MCSystem ------------------------------
(* Instances of module System for TLC. *)
EXTENDS System

CONSTANT d1

MCDepartments     == {d1}
MCProcessingTimes == [d \in MCDepartments |-> {1}]
MCTemplates       == {<<d1, PRIORITY_HIGH>>}

\* Every event the server can make ...
MCEvents ==
  {[eventId |-> id, type |-> t[1], priority |-> t[2], retryCount |-> 0] :
     id \in 1 .. MaxEvents, t \in Templates}

\* ... with any retries used up.
MCArrivals ==
  {[m EXCEPT !.retryCount = retry] :
     m \in Events, retry \in 0 .. MAX_EVENT_RETRIES}
=============================================================================
