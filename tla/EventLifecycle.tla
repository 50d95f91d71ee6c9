--------------------------- MODULE EventLifecycle ---------------------------
(***************************************************************************)
(* What the client promises about each event, with none of its tasks and   *)
(* queues: an event it has accepted is retried a bounded number of times   *)
(* and then leaves the client for good, with one outcome or lost to a full *)
(* queue.  Module Client implements this specification.                    *)
(***************************************************************************)
EXTENDS Naturals

CONSTANTS
  Ids,                \* the events
  Outcomes,           \* what a completion message may say
  STATUS_FAILED,      \* the outcome that needs every retry to be used up
  MAX_EVENT_RETRIES

VARIABLES
  fate,   \* [event] -> where it is in its life
  tries   \* [event] -> retries used up so far

Init ==
  /\ fate = [id \in Ids |-> "unknown"]
  /\ tries = [id \in Ids |-> 0]

Accept(id) ==
  /\ fate[id] = "unknown"
  /\ fate' = [fate EXCEPT ![id] = "accepted"]
  /\ UNCHANGED tries

Retry(id) ==
  /\ fate[id] = "accepted"
  /\ tries[id] < MAX_EVENT_RETRIES
  /\ tries' = [tries EXCEPT ![id] = @ + 1]
  /\ UNCHANGED fate

Leave(id, end) ==
  /\ fate[id] = "accepted"
  /\ fate' = [fate EXCEPT ![id] = end]
  /\ tries' = [tries EXCEPT ![id] = 0]

Report(id, outcome) ==
  /\ outcome = STATUS_FAILED => tries[id] = MAX_EVENT_RETRIES
  /\ Leave(id, outcome)

Lose(id) == Leave(id, "lost")

Next ==
  \E id \in Ids :
    \/ Accept(id)
    \/ Retry(id)
    \/ \E outcome \in Outcomes : Report(id, outcome)
    \/ Lose(id)

SafetySpec == Init /\ [][Next]_<<fate, tries>>

EveryEventLeaves ==
  \A id \in Ids : fate[id] = "accepted" ~> fate[id] \in Outcomes \cup {"lost"}
=============================================================================
