--------------------------- MODULE BlockingQueue ---------------------------
(***************************************************************************)
(* What the program expects of a FreeRTOS queue, with no kernel list in    *)
(* sight: a call succeeds when the queue lets it, and fails only when the  *)
(* queue has refused it and, for a call with a block time, that many ticks *)
(* have passed since.  A call that waits forever never fails.  Module      *)
(* Kernel implements this specification.                                   *)
(***************************************************************************)
EXTENDS Naturals, Sequences

CONSTANTS
  Callers,
  Ticks,        \* the block times
  Forever,      \* the block time with which a call never gives up
  Capacity,
  MaxAge        \* ticks are counted up to this bound

VARIABLES
  contents,     \* the queue
  asked,        \* [caller] -> its call, or Nothing
  refused,      \* the callers whose call has met a full (or empty) queue
  waited        \* [caller] -> ticks since its call was refused

Nothing == [op |-> "nothing", ticks |-> 0]

Cannot(op) == IF op = "send" THEN Len(contents) = Capacity ELSE contents = << >>

Over(c) ==
  /\ asked' = [asked EXCEPT ![c] = Nothing]
  /\ refused' = refused \ {c}
  /\ waited' = [waited EXCEPT ![c] = 0]

Init ==
  /\ contents = << >>
  /\ asked = [c \in Callers |-> Nothing]
  /\ refused = {}
  /\ waited = [c \in Callers |-> 0]

Call(c, op, ticks) ==
  /\ asked[c] = Nothing
  /\ asked' = [asked EXCEPT ![c] = [op |-> op, ticks |-> ticks]]
  /\ UNCHANGED <<contents, refused, waited>>

Put(c) ==
  /\ asked[c].op = "send"
  /\ ~Cannot("send")
  /\ contents' = Append(contents, c)
  /\ Over(c)

Get(c) ==
  /\ asked[c].op = "receive"
  /\ ~Cannot("receive")
  /\ contents' = Tail(contents)
  /\ Over(c)

Refuse(c) ==
  /\ Cannot(asked[c].op)
  /\ refused' = refused \cup {c}
  /\ UNCHANGED <<contents, asked, waited>>

\* A sender may give up although a slot has just been freed; a receiver looks
\* once more.
GiveUp(c) ==
  /\ asked[c].ticks # Forever
  /\ waited[c] >= asked[c].ticks
  /\ Cannot(asked[c].op) \/ (asked[c].op = "send" /\ c \in refused)
  /\ Over(c)
  /\ UNCHANGED contents

Tick ==
  /\ waited' = [c \in Callers |->
       IF c \in refused /\ waited[c] < MaxAge THEN waited[c] + 1 ELSE waited[c]]
  /\ UNCHANGED <<contents, asked, refused>>

Next ==
  \/ Tick
  \/ \E c \in Callers :
       \/ \E op \in {"send", "receive"}, ticks \in Ticks : Call(c, op, ticks)
       \/ /\ asked[c] # Nothing
          /\ Put(c) \/ Get(c) \/ Refuse(c) \/ GiveUp(c)

SafetySpec == Init /\ [][Next]_<<contents, asked, refused, waited>>
=============================================================================
