------------------------------- MODULE Kernel -------------------------------
(***************************************************************************)
(* The FreeRTOS kernel as this program uses it: tasks.c and queue.c for    *)
(* tasks that all have one priority, that block on a queue (or mutex, a    *)
(* queue of length one) or in vTaskDelay, and are preempted by the tick of *)
(* the POSIX port.  The tick count is TickRange wide and wraps.            *)
(*                                                                         *)
(* A critical section is one step.  So is a section between                *)
(* vTaskSuspendAll and xTaskResumeAll, where no other task can run and the *)
(* ticks that come are only counted, to be processed by xTaskResumeAll.    *)
(***************************************************************************)
EXTENDS Naturals, FiniteSets, Sequences, SequencesExt

CONSTANTS
  Tasks,
  xListEnd,          \* the end marker of the ready list
  TickRange,         \* 2^64 in the program
  OverflowRange,     \* the range of xNumOfOverflows, 2^64 in the program
  uxLength,          \* of the queue
  Calls,             \* [task] -> the calls it makes, each [op, ticks]
  MaxAge             \* the history age counts up to this bound

portMAX_DELAY == TickRange - 1

ASSUME KernelAssumption ==
  /\ xListEnd \notin Tasks
  /\ IsFiniteSet(Tasks)
  /\ TickRange \in Nat \ {0, 1}
  /\ OverflowRange \in Nat \ {0, 1}
  /\ uxLength \in Nat \ {0}
  /\ Calls \in [Tasks -> SUBSET [op : {"send", "receive", "delay"},
                                 ticks : 0 .. portMAX_DELAY]]
  /\ MaxAge \in Nat
  /\ \A t \in Tasks : \A c \in Calls[t] :
       c.ticks <= MaxAge \/ (c.ticks = portMAX_DELAY /\ c.op # "delay")

VARIABLES
  sched,        \* the static variables of tasks.c and the queue's event lists
  messages,     \* the contents of the queue
  call,         \* [task] -> the call it is in: its arguments and locals
  ran,          \* the running task has had its share of this tick
  age           \* [task] -> ticks since its call began to wait (history)

vars == <<sched, messages, call, ran, age>>

NoCall == [op |-> "none", pc |-> "none", asked |-> 0, xTicksToWait |-> 0,
           xEntryTimeSet |-> FALSE, xTimeOnEntering |-> 0, xOverflowCount |-> 0]

SchedInit == [
  xTickCount |-> 0, xNumOfOverflows |-> 0, xNextTaskUnblockTime |-> portMAX_DELAY,
  ready |-> SetToSeq(Tasks) \o <<xListEnd>>,     \* pxReadyTasksLists[ 2 ]
  delayed |-> << >>, overflow |-> << >>,         \* the delayed task lists
  suspended |-> {},                              \* xSuspendedTaskList
  waiting |-> [op \in {"send", "receive"} |-> << >>]]

(***************************************************************************)
(* Lists.  The ready list is a ring written from the item pxIndex points   *)
(* to, the running task or, while the idle task runs, the end marker.      *)
(***************************************************************************)
listINSERT_END(ring, t) == Append(ring, t)

uxListRemove(ring, t) ==
  IF Head(ring) = t THEN <<Last(ring)>> \o Front(Tail(ring)) ELSE Remove(ring, t)

\* Slip: the running task is selected again.
SameOwnerAgain(ring) ==
  IF Head(ring) = xListEnd THEN Tail(ring) \o <<xListEnd>> ELSE ring

OwnerOfNextEntry(ring) ==
  LET next == Tail(ring) \o <<Head(ring)>>
  IN IF Head(next) = xListEnd THEN Tail(next) \o <<Head(next)>> ELSE next

\* The elements of s that are in T, in their order.
Keep(s, T) ==
  LET kept == {i \in DOMAIN s : s[i] \in T}
      Place(k) == CHOOSE i \in kept : Cardinality({j \in kept : j <= i}) = k
  IN [k \in 1 .. Cardinality(kept) |-> s[Place(k)]]

vListInsert(list, item) ==
  LET before == {i \in ToSet(list) : i.at <= item.at}
  IN Keep(list, before) \o <<item>> \o Keep(list, ToSet(list) \ before)

(***************************************************************************)
(* The scheduler                                                           *)
(***************************************************************************)
Running(t) == Head(sched.ready) = t
IdleRuns == Head(sched.ready) = xListEnd

Owners(list) == [i \in DOMAIN list |-> list[i].task]
Blocked(s) == ToSet(Owners(s.delayed)) \cup ToSet(Owners(s.overflow)) \cup s.suspended

vTaskSwitchContext(s) == [s EXCEPT !.ready = OwnerOfNextEntry(@)]

ResetNextTaskUnblockTime(s) ==
  [s EXCEPT !.xNextTaskUnblockTime =
     IF s.delayed = << >> THEN portMAX_DELAY ELSE Head(s.delayed).at]

SwitchDelayedLists(s) ==
  ResetNextTaskUnblockTime(
    [s EXCEPT !.delayed = s.overflow, !.overflow = s.delayed,
              !.xNumOfOverflows = (@ + 1) % OverflowRange])

\* Wakes every task whose time has come, in the order of the delayed list.
UnblockDue(s) ==
  LET items == {i \in ToSet(s.delayed) : i.at <= s.xTickCount}
      due == Owners(Keep(s.delayed, items))
  IN ResetNextTaskUnblockTime(
       [s EXCEPT !.delayed = Keep(@, ToSet(@) \ items),
                 !.waiting = [op \in DOMAIN @ |->
                                Keep(@[op], ToSet(@[op]) \ ToSet(due))],
                 !.ready = @ \o due])

xTaskIncrementTick(s) ==
  LET tick == (s.xTickCount + 1) % TickRange
      counted == [s EXCEPT !.xTickCount = tick]
      current == IF tick = 0 THEN SwitchDelayedLists(counted) ELSE counted
  IN IF tick >= current.xNextTaskUnblockTime THEN UnblockDue(current) ELSE current

\* The ticks that came while the scheduler was suspended are processed, and
\* they or the caller then ask for a switch.
xTaskResumeAll(s, xPendedTicks, yield) ==
  LET resumed == IF xPendedTicks = 0 THEN s ELSE xTaskIncrementTick(s)
  IN IF xPendedTicks > 0 \/ yield THEN vTaskSwitchContext(resumed) ELSE resumed

\* Slip: a wake time past the wrap goes to the current delayed list.
AddToCurrentListOnly(s, t, ticks, forever) ==
  LET removed == [s EXCEPT !.ready = uxListRemove(@, t)]
      at == (s.xTickCount + ticks) % TickRange
  IN IF ticks = portMAX_DELAY /\ forever
       THEN [removed EXCEPT !.suspended = @ \cup {t}]
     ELSE [removed EXCEPT !.delayed = vListInsert(@, [task |-> t, at |-> at]),
             !.xNextTaskUnblockTime = IF at < @ THEN at ELSE @]

\* Slip: xNextTaskUnblockTime is left as it is.
AddUnannounced(s, t, ticks, forever) ==
  LET removed == [s EXCEPT !.ready = uxListRemove(@, t)]
      at == (s.xTickCount + ticks) % TickRange
      item == [task |-> t, at |-> at]
  IN IF ticks = portMAX_DELAY /\ forever
       THEN [removed EXCEPT !.suspended = @ \cup {t}]
     ELSE IF at < s.xTickCount
       THEN [removed EXCEPT !.overflow = vListInsert(@, item)]
     ELSE [removed EXCEPT !.delayed = vListInsert(@, item)]

AddCurrentTaskToDelayedList(s, t, ticks, forever) ==
  LET removed == [s EXCEPT !.ready = uxListRemove(@, t)]
      at == (s.xTickCount + ticks) % TickRange
      item == [task |-> t, at |-> at]
  IN IF ticks = portMAX_DELAY /\ forever
       THEN [removed EXCEPT !.suspended = @ \cup {t}]
     ELSE IF at < s.xTickCount
       THEN [removed EXCEPT !.overflow = vListInsert(@, item)]
     ELSE [removed EXCEPT !.delayed = vListInsert(@, item),
             !.xNextTaskUnblockTime = IF at < @ THEN at ELSE @]

vTaskPlaceOnEventList(s, op, t, ticks) ==
  AddCurrentTaskToDelayedList([s EXCEPT !.waiting[op] = Append(@, t)], t, ticks, TRUE)

\* Slip: the woken task stays on the list it was blocked on.
RemoveFromEventListOnly(s, op) ==
  IF s.waiting[op] = << >> THEN s
  ELSE [s EXCEPT !.waiting[op] = Tail(@),
                 !.ready = listINSERT_END(@, Head(s.waiting[op]))]

\* The first task that waits for op, if any, is made ready.
xTaskRemoveFromEventList(s, op) ==
  IF s.waiting[op] = << >> THEN s
  ELSE LET t == Head(s.waiting[op])
       IN [s EXCEPT !.waiting[op] = Tail(@),
                    !.delayed = Keep(@, {i \in ToSet(@) : i.task # t}),
                    !.overflow = Keep(@, {i \in ToSet(@) : i.task # t}),
                    !.suspended = @ \ {t},
                    !.ready = listINSERT_END(@, t)]

(***************************************************************************)
(* The calls of a task                                                     *)
(***************************************************************************)
BlockTimes == UNION {{c.ticks : c \in Calls[t]} : t \in Tasks}
Waits(t) == call[t].xEntryTimeSet

Aged(t, ticks) == IF age[t] + ticks > MaxAge THEN MaxAge ELSE age[t] + ticks

\* So many ticks pass for every call that is waiting.
Pass(ticks) ==
  age' = [t \in Tasks |-> IF Waits(t) THEN Aged(t, ticks) ELSE age[t]]

Return(t) ==
  /\ call' = [call EXCEPT ![t] = NoCall]
  /\ age' = [age EXCEPT ![t] = 0]

MustWait(op) == IF op = "send" THEN Len(messages) >= uxLength ELSE messages = << >>

Init ==
  /\ sched = SchedInit
  /\ messages = << >>
  /\ call = [t \in Tasks |-> NoCall]
  /\ ran = FALSE
  /\ age = [t \in Tasks |-> 0]

\* vPortSystemTickHandler.  A tick is long for the steps below: the task that
\* was last given the processor has run for a step.
Tick ==
  /\ ran \/ IdleRuns
  /\ sched' = vTaskSwitchContext(xTaskIncrementTick(sched))
  /\ ran' = FALSE
  /\ Pass(1)
  /\ UNCHANGED <<messages, call>>

\* The task spends its time slice between two calls.
Compute(t) ==
  /\ call[t] = NoCall
  /\ ~ran
  /\ ran' = TRUE
  /\ UNCHANGED <<sched, messages, call, age>>

Begin(t) ==
  /\ call[t] = NoCall
  /\ \E c \in Calls[t] :
       call' = [call EXCEPT ![t] = [NoCall EXCEPT
         !.op = c.op, !.pc = IF c.op = "delay" THEN "delay" ELSE "try",
         !.asked = c.ticks, !.xTicksToWait = c.ticks]]
  /\ ran' = TRUE
  /\ UNCHANGED <<sched, messages, age>>

\* The first critical section of xQueueGenericSend ...
Send(t) ==
  /\ call[t].op = "send" /\ call[t].pc = "try"
  /\ ~MustWait("send")
  /\ messages' = Append(messages, t)
  /\ sched' = xTaskRemoveFromEventList(sched, "receive")
  /\ Return(t)
  /\ ran' = TRUE

\* ... and of xQueueReceive, when they succeed,
Receive(t) ==
  /\ call[t].op = "receive" /\ call[t].pc = "try"
  /\ ~MustWait("receive")
  /\ messages' = Tail(messages)
  /\ sched' = xTaskRemoveFromEventList(sched, "send")
  /\ Return(t)
  /\ ran' = TRUE

\* and when they do not: out of time, or vTaskInternalSetTimeOutState the
\* first time round (of no use to a call that waits forever, and left out).
FindNothing(t) ==
  /\ call[t].pc = "try"
  /\ MustWait(call[t].op)
  /\ IF call[t].xTicksToWait = 0
     THEN Return(t)
     ELSE /\ call' = [call EXCEPT ![t] =
               IF Waits(t) \/ @.xTicksToWait = portMAX_DELAY
               THEN [@ EXCEPT !.pc = "check", !.xEntryTimeSet = TRUE]
               ELSE [@ EXCEPT !.pc = "check", !.xEntryTimeSet = TRUE,
                       !.xTimeOnEntering = sched.xTickCount,
                       !.xOverflowCount = sched.xNumOfOverflows]]
          /\ UNCHANGED age
  /\ ran' = TRUE
  /\ UNCHANGED <<sched, messages>>

\* xTaskCheckForTimeOut: whether time is up, and the call with what is left.
Elapsed(c) == (sched.xTickCount + TickRange - c.xTimeOnEntering) % TickRange

\* Slip: the tick count is compared with the time at which to give up.
TimedOutByClock(c) ==
  /\ c.xTicksToWait # portMAX_DELAY
  /\ sched.xTickCount >= (c.xTimeOnEntering + c.xTicksToWait) % TickRange

TimedOut(c) ==
  /\ c.xTicksToWait # portMAX_DELAY
  /\ \/ /\ sched.xNumOfOverflows # c.xOverflowCount
        /\ sched.xTickCount >= c.xTimeOnEntering
     \/ Elapsed(c) >= c.xTicksToWait

\* Slip: the task waits for the whole time again.
RemainingInFull(c) ==
  IF c.xTicksToWait = portMAX_DELAY THEN c
  ELSE [c EXCEPT !.xTimeOnEntering = sched.xTickCount,
                 !.xOverflowCount = sched.xNumOfOverflows]

Remaining(c) ==
  IF c.xTicksToWait = portMAX_DELAY THEN c
  ELSE [c EXCEPT !.xTicksToWait = @ - Elapsed(c),
                 !.xTimeOnEntering = sched.xTickCount,
                 !.xOverflowCount = sched.xNumOfOverflows]

\* Slip: the task blocks without another look at the queue.
BlockWithoutLooking(t) ==
  LET c == call[t]
      left == Remaining(c)
      placed == vTaskPlaceOnEventList(sched, c.op, t, left.xTicksToWait)
  IN /\ c.pc = "check"
     /\ IF TimedOut(c)
        THEN /\ call' = [call EXCEPT ![t].pc = "expired", ![t].xTicksToWait = 0]
             /\ sched' = sched
        ELSE /\ call' = [call EXCEPT ![t] = [left EXCEPT !.pc = "try"]]
             /\ sched' = xTaskResumeAll(placed, 0, TRUE)
     /\ ran' = Running(t)
     /\ UNCHANGED <<messages, age>>

\* The section with the scheduler suspended: the call times out, or looks at
\* the queue again and blocks if that has not changed.
Block(t) ==
  LET c == call[t]
      left == Remaining(c)
      placed == vTaskPlaceOnEventList(sched, c.op, t, left.xTicksToWait)
  IN /\ c.pc = "check"
     /\ \E xPendedTicks \in {0, 1} :
          /\ IF TimedOut(c)
             THEN /\ call' = [call EXCEPT ![t].pc = "expired", ![t].xTicksToWait = 0]
                  /\ sched' = xTaskResumeAll(sched, xPendedTicks, FALSE)
             ELSE /\ call' = [call EXCEPT ![t] = [left EXCEPT !.pc = "try"]]
                  /\ sched' = IF MustWait(c.op)
                              THEN xTaskResumeAll(placed, xPendedTicks, TRUE)
                              ELSE xTaskResumeAll(sched, xPendedTicks, FALSE)
          /\ ran' = (Head(sched'.ready) = t /\ xPendedTicks = 0)
          /\ Pass(xPendedTicks)
     /\ UNCHANGED messages

\* After a timeout the sender fails at once, the receiver if there is still
\* nothing for it.
Expire(t) ==
  /\ call[t].pc = "expired"
  /\ IF call[t].op = "send" \/ MustWait("receive")
     THEN Return(t)
     ELSE /\ call' = [call EXCEPT ![t].pc = "try"]
          /\ UNCHANGED age
  /\ ran' = TRUE
  /\ UNCHANGED <<sched, messages>>

\* vTaskDelay, in which a task of several may only give way; age counts from
\* here.
Delay(t) ==
  LET ticks == call[t].asked
      removed == AddCurrentTaskToDelayedList(sched, t, ticks, FALSE)
  IN /\ call[t].pc = "delay"
     /\ \E xPendedTicks \in IF ticks = 0 THEN {0} ELSE {0, 1} :
          /\ sched' = xTaskResumeAll(IF ticks = 0 THEN sched ELSE removed,
                                     xPendedTicks, TRUE)
          /\ age' = [u \in Tasks |->
               IF u = t THEN xPendedTicks
               ELSE IF Waits(u) THEN Aged(u, xPendedTicks) ELSE age[u]]
     /\ call' = [call EXCEPT ![t].pc = "delayed", ![t].xEntryTimeSet = TRUE]
     /\ ran' = FALSE
     /\ UNCHANGED messages

DelayReturns(t) ==
  /\ call[t].pc = "delayed"
  /\ Return(t)
  /\ ran' = TRUE
  /\ UNCHANGED <<sched, messages>>

Step(t) ==
  /\ Running(t)
  /\ \/ Compute(t) \/ Begin(t)
     \/ Send(t) \/ Receive(t) \/ FindNothing(t) \/ Block(t) \/ Expire(t)
     \/ Delay(t) \/ DelayReturns(t)

Run == \E t \in Tasks : Step(t)

Next == Tick \/ Run

SafetySpec == Init /\ [][Next]_vars

\* The timer signal comes again and again, whatever the tasks do in between
\* (hence SF: ran holds a tick back at times), and the running thread runs.
\* That every task gets to run is not assumed: it follows from the round robin.
Spec == SafetySpec /\ SF_vars(Tick) /\ WF_vars(Run)

(***************************************************************************)
(* Properties                                                              *)
(***************************************************************************)
Items == [task : Tasks, at : 0 .. portMAX_DELAY]

\* The tick count and all times derived from it stay in TickType_t, and every
\* task is on exactly one of the ready, delayed, overflow and suspended lists.
KernelTypeOK ==
  /\ sched.xTickCount \in 0 .. portMAX_DELAY
  /\ sched.xNextTaskUnblockTime \in 0 .. portMAX_DELAY
  /\ sched.delayed \in Seq(Items) /\ sched.overflow \in Seq(Items)
  /\ messages \in Seq(Tasks) /\ Len(messages) <= uxLength
  /\ \A t \in Tasks : /\ call[t].xTicksToWait \in 0 .. call[t].asked
                      /\ age[t] \in 0 .. MaxAge
  /\ \A t \in Tasks :
       LET all == sched.ready \o Owners(sched.delayed) \o Owners(sched.overflow)
                    \o SetToSeq(sched.suspended)
       IN Cardinality({i \in DOMAIN all : all[i] = t}) = 1

\* taskSWITCH_DELAYED_LISTS, its assertion: when the tick count is about to
\* wrap, nobody is left on the delayed list.  For that, whoever is on it must
\* wake before the wrap and be noticed through xNextTaskUnblockTime.
DelayedListEmptyAtSwitch ==
  sched.xTickCount = portMAX_DELAY => sched.delayed = << >>

\* A vTaskDelay ends when its ticks have passed: not earlier, across the wrap
\* of the tick count too, and not a tick later.
DelayEndsOnTime ==
  \A t \in Tasks :
    call[t].pc = "delayed" => (t \in Blocked(sched) <=> age[t] < call[t].asked)

QueueCall(t) == call[t].op \in {"send", "receive"}

\* A queue call that waits for a time is not blocked when that many ticks have
\* passed since it began to wait, however often it was woken and has blocked
\* again for the rest in between.
WokenOnTime ==
  \A t \in Tasks :
    QueueCall(t) /\ t \in Blocked(sched) \ sched.suspended => age[t] < call[t].asked

Active(op) == {t \in Tasks : call[t].op = op /\ t \notin Blocked(sched)}

\* xTaskRemoveFromEventList wakes one task for one message or slot, and that
\* task may find it taken, or time out: still nobody stays on an event list
\* while there are more messages (slots) than tasks awake to take them.
NoLostWakeup ==
  /\ sched.waiting["receive"] # << >> => Len(messages) <= Cardinality(Active("receive"))
  /\ sched.waiting["send"] # << >> =>
       uxLength - Len(messages) <= Cardinality(Active("send"))

\* What the user of the queue sees of the calls.
Asked == [t \in Tasks |->
  IF QueueCall(t) THEN [op |-> call[t].op, ticks |-> call[t].asked]
  ELSE [op |-> "nothing", ticks |-> 0]]
Refused == {t \in Tasks : QueueCall(t) /\ Waits(t)}
Waited == [t \in Tasks |-> IF QueueCall(t) THEN age[t] ELSE 0]

Abstract == INSTANCE BlockingQueue WITH
  Callers <- Tasks,
  Ticks <- BlockTimes,
  Forever <- portMAX_DELAY,
  Capacity <- uxLength,
  contents <- messages,
  asked <- Asked,
  refused <- Refused,
  waited <- Waited

\* The queue calls keep the promises of BlockingQueue: none fails before its
\* ticks have passed or, if it waits forever, at all, whatever the tick count
\* was when it began and however often it has wrapped.
ImplementsBlockingQueue == Abstract!SafetySpec

\* Every call with a time limit returns: the tick wakes its task, and the round
\* robin of the ready list gives it the processor whatever the others do.
BoundedCallReturns ==
  \A t \in Tasks :
    call[t].op # "none" /\ call[t].asked # portMAX_DELAY ~> call[t].op = "none"
=============================================================================
