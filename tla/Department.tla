----------------------------- MODULE Department -----------------------------
(***************************************************************************)
(* The service departments of the client (Src/client.c): the vehicle tasks *)
(* (VehicleTask) and the shift managers (ShiftManagerTask), which share    *)
(* the priority queues, the vehicle records and the break event group of   *)
(* their department.                                                       *)
(*                                                                         *)
(* One action is what a task does between two points where the scheduler   *)
(* can let another task see or change shared state: one queue operation,   *)
(* one critical section of vehicleMutex, one event-group call.  The mutex  *)
(* itself is not a variable: every critical section in the code is a       *)
(* straight line that neither blocks nor nests, so taking, using and       *)
(* giving it is one atomic action.                                         *)
(*                                                                         *)
(* The dispatcher, the fault manager and the server appear here only as an *)
(* environment; module Client puts the real tasks in its place.            *)
(***************************************************************************)
EXTENDS Messages

CONSTANTS
  VehicleCount,             \* vehicles of each department
  ProcessingTimes,          \* seconds GetProcessingTimeSec may return
  DEPARTMENT_QUEUE_LENGTH,  \* capacity of each priority queue
  CLIENT_RX_QUEUE_LENGTH,   \* capacity of the fault queue
  Arrivals,                 \* the event messages the environment may dispatch
  None                      \* "no message in this local variable"

ASSUME DepartmentAssumption ==
  /\ VehicleCount \in Nat \ {0}
  /\ ProcessingTimes \in [Departments -> SUBSET Nat]
  /\ DEPARTMENT_QUEUE_LENGTH \in Nat \ {0}
  /\ CLIENT_RX_QUEUE_LENGTH \in Nat \ {0}
  /\ Arrivals \subseteq EventMessage
  /\ None \notin EventMessage

Indices  == 0 .. VehicleCount - 1
Vehicles == Departments \X Indices

VARIABLES
  \* Department_t, Vehicle_t and the queues around them
  priorityQueues,     \* [department][priority] -> queued event messages
  status,             \* [vehicle] -> availability
  currentEventId,     \* [vehicle] -> event shown to the shift manager
  currentPriority,    \* [vehicle] -> its priority
  vehicleEventGroup,  \* the vehicles whose break bit is set
  faultQueue,         \* failed events on their way to the fault manager
  \* locals of VehicleTask
  vpc,                \* [vehicle] -> where the task is
  level,              \* [vehicle] -> the queue ReceiveDepartmentEvent waits on
  message,            \* [vehicle] -> the event it has taken
  remaining,          \* [vehicle] -> seconds of processing left
  result,             \* [vehicle] -> what ProcessEvent returned
  \* locals of ShiftManagerTask
  mpc,                \* [department] -> where the task is
  i,                  \* [department] -> loop counter
  pendingEvents,      \* [department] -> events counted, less vehicles recalled
  availableCount,     \* [department] -> vehicles counted available
  highCount           \* [department] -> high-priority events counted

queueVars   == <<priorityQueues, faultQueue>>
recordVars  == <<status, currentEventId, currentPriority, vehicleEventGroup>>
taskVars    == <<vpc, level, message, remaining, result>>
managerVars == <<mpc, i, pendingEvents, availableCount, highCount>>
vars        == <<queueVars, recordVars, taskVars, managerVars>>

Init ==
  /\ priorityQueues = [d \in Departments |-> [p \in Priorities |-> << >>]]
  /\ faultQueue = << >>
  /\ status = [v \in Vehicles |-> VEHICLE_AVAILABLE]
  /\ currentEventId = [v \in Vehicles |-> 0]
  \* the static initialisers leave the field zero, which is PRIORITY_LOW
  /\ currentPriority = [v \in Vehicles |-> PRIORITY_LOW]
  /\ vehicleEventGroup = {}
  /\ vpc = [v \in Vehicles |-> "check"]
  /\ level = [v \in Vehicles |-> PRIORITY_HIGH]
  /\ message = [v \in Vehicles |-> None]
  /\ remaining = [v \in Vehicles |-> 0]
  /\ result = [v \in Vehicles |-> STATUS_PENDING]
  /\ mpc = [d \in Departments |-> "countEvents"]
  /\ i = [d \in Departments |-> 0]
  /\ pendingEvents = [d \in Departments |-> 0]
  /\ availableCount = [d \in Departments |-> 0]
  /\ highCount = [d \in Departments |-> 0]

-----------------------------------------------------------------------------
(* Control flow of the two kinds of task *)

\* One step of vehicle v's task.
GoTo(v, from, to) ==
  /\ vpc[v] = from
  /\ vpc' = [vpc EXCEPT ![v] = to]

\* The vehicle the manager's loop is at.
Inspected(d) == <<d, i[d]>>

ManagerGoTo(d, from, to) ==
  /\ mpc[d] = from
  /\ mpc' = [mpc EXCEPT ![d] = to]

\* A step inside one pass of the vehicle loop.
ManagerContinues(d, from, to) ==
  /\ ManagerGoTo(d, from, to)
  /\ UNCHANGED <<i, pendingEvents, availableCount>>

\* The end of a pass, with what is left of pendingEvents; after the last pass
\* the block-scoped counters are gone.
NextVehicle(d, from, pending) ==
  /\ mpc[d] = from
  /\ IF i[d] + 1 < VehicleCount
     THEN /\ ManagerGoTo(d, from, "inspect")
          /\ i' = [i EXCEPT ![d] = @ + 1]
          /\ pendingEvents' = [pendingEvents EXCEPT ![d] = pending]
          /\ UNCHANGED availableCount
     ELSE /\ ManagerGoTo(d, from, "sleep")
          /\ i' = [i EXCEPT ![d] = 0]
          /\ pendingEvents' = [pendingEvents EXCEPT ![d] = 0]
          /\ availableCount' = [availableCount EXCEPT ![d] = 0]

-----------------------------------------------------------------------------
(* Slips a programmer could make in the code below.  No specification uses  *)
(* them; each shows that some property of this project would notice.        *)

\* SetVehicleCurrentEvent left out: BUSY is set in its place.
BusyWithoutRecord(v) ==
  /\ GoTo(v, "assign", "busy")
  /\ status' = [status EXCEPT ![v] = VEHICLE_BUSY]
  /\ UNCHANGED <<queueVars, currentEventId, currentPriority,
                 vehicleEventGroup, level, message, remaining, result,
                 managerVars>>

\* xQueuePeek for xQueueReceive: the event stays in the queue.
PeekEvent(v) ==
  LET queue == priorityQueues[v[1]][level[v]] IN
  /\ GoTo(v, "receive", "assign")
  /\ queue # << >>
  /\ message' = [message EXCEPT ![v] = Head(queue)]
  /\ level' = [level EXCEPT ![v] = PRIORITY_HIGH]
  /\ UNCHANGED <<queueVars, recordVars, remaining, result, managerVars>>

\* The loop counter of ReceiveDepartmentEvent is static: the next call starts
\* with the queue this event came from.
ReceiveAndStay(v) ==
  LET queue == priorityQueues[v[1]][level[v]] IN
  /\ GoTo(v, "receive", "assign")
  /\ queue # << >>
  /\ message' = [message EXCEPT ![v] = Head(queue)]
  /\ priorityQueues' = [priorityQueues EXCEPT ![v[1]][level[v]] = Tail(queue)]
  /\ UNCHANGED <<faultQueue, recordVars, level, remaining, result, managerVars>>

\* SetVehicleStatus(AVAILABLE) left out after the event.
NeverReleased(v) ==
  /\ GoTo(v, "release", "clear")
  /\ UNCHANGED <<queueVars, recordVars, level, message, remaining, result,
                 managerVars>>

\* p < PRIORITY_COUNT - 1: the high-priority queue is not counted.
CountAllButHighest(d) ==
  /\ mpc[d] = "countEvents"
  /\ IF i[d] + 1 < PRIORITY_HIGH
     THEN /\ ManagerGoTo(d, "countEvents", "countEvents")
          /\ i' = [i EXCEPT ![d] = @ + 1]
     ELSE /\ ManagerGoTo(d, "countEvents", "countVehicles")
          /\ i' = [i EXCEPT ![d] = 0]
  /\ pendingEvents' =
       [pendingEvents EXCEPT ![d] = @ + Len(priorityQueues[d][i[d]])]
  /\ UNCHANGED <<queueVars, recordVars, taskVars, availableCount, highCount>>

\* if (pendingEvents >= 0): always true of an unsigned counter.
InspectWithoutPendingCheck(d) ==
  LET seen == status[Inspected(d)] IN
  /\ mpc[d] = "inspect"
  /\ \/ /\ seen = VEHICLE_AVAILABLE
        /\ availableCount[d] > 1
        /\ ManagerContinues(d, "inspect", "setBreak")
     \/ /\ seen = VEHICLE_AVAILABLE
        /\ NextVehicle(d, "inspect", pendingEvents[d])
     \/ /\ seen = VEHICLE_BREAK
        /\ ManagerContinues(d, "inspect", "clearBreak")
     \/ /\ seen = VEHICLE_BUSY
        /\ ManagerContinues(d, "inspect", "countHigh")
  /\ UNCHANGED <<queueVars, recordVars, taskVars, highCount>>

\* VEHICLE_BREAK_BIT(0) whatever the vehicle.
SetFirstBreakBit(d) ==
  /\ NextVehicle(d, "setBit", pendingEvents[d])
  /\ vehicleEventGroup' = vehicleEventGroup \cup {<<d, 0>>}
  /\ UNCHANGED <<queueVars, status, currentEventId, currentPriority, taskVars,
                 highCount>>

-----------------------------------------------------------------------------
(* VehicleTask *)

\* GetVehicleStatus at the top of the loop.  Any other status makes the task
\* sleep 100 ms and look again, which changes nothing.
CheckStatus(v) ==
  /\ GoTo(v, "check", "receive")
  /\ status[v] = VEHICLE_AVAILABLE
  /\ UNCHANGED <<queueVars, recordVars, level, message, remaining, result,
                 managerVars>>

\* xQueueReceive in ReceiveDepartmentEvent succeeds on the queue it waits on.
ReceiveEvent(v) ==
  LET queue == priorityQueues[v[1]][level[v]] IN
  /\ GoTo(v, "receive", "assign")
  /\ queue # << >>
  /\ message' = [message EXCEPT ![v] = Head(queue)]
  /\ priorityQueues' = [priorityQueues EXCEPT ![v[1]][level[v]] = Tail(queue)]
  /\ level' = [level EXCEPT ![v] = PRIORITY_HIGH]
  /\ UNCHANGED <<faultQueue, recordVars, remaining, result, managerVars>>

\* ... or it stays empty for 100 ms: on to the next lower priority.
ReceiveTimeout(v) ==
  /\ GoTo(v, "receive", IF level[v] = PRIORITY_LOW THEN "check" ELSE "receive")
  /\ priorityQueues[v[1]][level[v]] = << >>
  /\ level' = [level EXCEPT ![v] =
                 IF @ = PRIORITY_LOW THEN PRIORITY_HIGH ELSE @ - 1]
  /\ UNCHANGED <<queueVars, recordVars, message, remaining, result,
                 managerVars>>

SetVehicleCurrentEvent(v) ==
  /\ GoTo(v, "assign", "busy")
  /\ currentEventId' = [currentEventId EXCEPT ![v] = message[v].eventId]
  /\ currentPriority' = [currentPriority EXCEPT ![v] = message[v].priority]
  /\ UNCHANGED <<queueVars, status, vehicleEventGroup, level, message,
                 remaining, result, managerVars>>

\* SetVehicleStatus(BUSY), whatever the status was, and the draw of the
\* processing time at the start of ProcessEvent.
StartProcessing(v) ==
  /\ GoTo(v, "busy", "process")
  /\ status' = [status EXCEPT ![v] = VEHICLE_BUSY]
  /\ \E seconds \in ProcessingTimes[v[1]] :
       remaining' = [remaining EXCEPT ![v] = seconds]
  /\ UNCHANGED <<queueVars, currentEventId, currentPriority,
                 vehicleEventGroup, level, message, result, managerVars>>

\* One pass of the loop of ProcessEvent: the status check lets it go on.
ProcessSecond(v) ==
  /\ GoTo(v, "process", "process")
  /\ remaining[v] > 0
  /\ status[v] # VEHICLE_BREAK
  /\ remaining' = [remaining EXCEPT ![v] = @ - 1]
  /\ UNCHANGED <<queueVars, recordVars, level, message, result, managerVars>>

\* ... or finds the vehicle on break and gives the event up.
AbortProcessing(v) ==
  /\ GoTo(v, "process", "release")
  /\ remaining[v] > 0
  /\ status[v] = VEHICLE_BREAK
  /\ remaining' = [remaining EXCEPT ![v] = 0]
  /\ result' = [result EXCEPT ![v] = STATUS_CANCELLED]
  /\ UNCHANGED <<queueVars, recordVars, level, message, managerVars>>

\* The loop ran out; the status is not looked at again before the outcome.
FinishProcessing(v) ==
  /\ GoTo(v, "process", "release")
  /\ remaining[v] = 0
  /\ \E outcome \in {STATUS_COMPLETED, STATUS_FAILED} :
       result' = [result EXCEPT ![v] = outcome]
  /\ UNCHANGED <<queueVars, recordVars, level, message, remaining,
                 managerVars>>

\* SetVehicleStatus(AVAILABLE), whatever the status was.
ReleaseVehicle(v) ==
  /\ GoTo(v, "release", "clear")
  /\ status' = [status EXCEPT ![v] = VEHICLE_AVAILABLE]
  /\ UNCHANGED <<queueVars, currentEventId, currentPriority,
                 vehicleEventGroup, level, message, remaining, result,
                 managerVars>>

ClearVehicleCurrentEvent(v) ==
  /\ GoTo(v, "clear", "report")
  /\ currentEventId' = [currentEventId EXCEPT ![v] = 0]
  /\ currentPriority' = [currentPriority EXCEPT ![v] = PRIORITY_COUNT]
  /\ UNCHANGED <<queueVars, status, vehicleEventGroup, level, message,
                 remaining, result, managerVars>>

\* The message buffer is free again once its event has been passed on.
ReportDone(v) ==
  /\ GoTo(v, "report", "check")
  /\ message' = [message EXCEPT ![v] = None]
  /\ result' = [result EXCEPT ![v] = STATUS_PENDING]
  /\ UNCHANGED <<priorityQueues, recordVars, level, remaining, managerVars>>

\* The datagram itself and the statistics are conjuncts of module Client.
SendCompletionMessage(v) ==
  /\ ReportDone(v)
  /\ result[v] # STATUS_FAILED
  /\ UNCHANGED faultQueue

SendFailedEventToFaultManager(v) ==
  /\ ReportDone(v)
  /\ result[v] = STATUS_FAILED
  /\ Len(faultQueue) < CLIENT_RX_QUEUE_LENGTH
  /\ faultQueue' = Append(faultQueue, message[v])

\* The fault queue stays full for 100 ms: "event %u lost".
LoseFailedEvent(v) ==
  /\ ReportDone(v)
  /\ result[v] = STATUS_FAILED
  /\ Len(faultQueue) = CLIENT_RX_QUEUE_LENGTH
  /\ UNCHANGED faultQueue

VehicleTask(v) ==
  \/ CheckStatus(v)
  \/ ReceiveEvent(v)
  \/ ReceiveTimeout(v)
  \/ SetVehicleCurrentEvent(v)
  \/ StartProcessing(v)
  \/ ProcessSecond(v)
  \/ AbortProcessing(v)
  \/ FinishProcessing(v)
  \/ ReleaseVehicle(v)
  \/ ClearVehicleCurrentEvent(v)
  \/ SendCompletionMessage(v)
  \/ SendFailedEventToFaultManager(v)
  \/ LoseFailedEvent(v)

-----------------------------------------------------------------------------
(* ShiftManagerTask *)

\* CountPendingDepartmentEvents reads one queue length after the other.
CountPendingDepartmentEvents(d) ==
  /\ mpc[d] = "countEvents"
  /\ IF i[d] < PRIORITY_HIGH
     THEN /\ ManagerGoTo(d, "countEvents", "countEvents")
          /\ i' = [i EXCEPT ![d] = @ + 1]
     ELSE /\ ManagerGoTo(d, "countEvents", "countVehicles")
          /\ i' = [i EXCEPT ![d] = 0]
  /\ pendingEvents' =
       [pendingEvents EXCEPT ![d] = @ + Len(priorityQueues[d][i[d]])]
  /\ UNCHANGED <<queueVars, recordVars, taskVars, availableCount, highCount>>

\* CountVehiclesByStatus(AVAILABLE) takes the mutex once per vehicle.
CountAvailableVehicles(d) ==
  /\ mpc[d] = "countVehicles"
  /\ IF i[d] + 1 < VehicleCount
     THEN /\ ManagerGoTo(d, "countVehicles", "countVehicles")
          /\ i' = [i EXCEPT ![d] = @ + 1]
     ELSE /\ ManagerGoTo(d, "countVehicles", "inspect")
          /\ i' = [i EXCEPT ![d] = 0]
  /\ availableCount' =
       [availableCount EXCEPT ![d] =
          IF status[Inspected(d)] = VEHICLE_AVAILABLE THEN @ + 1 ELSE @]
  /\ UNCHANGED <<queueVars, recordVars, taskVars, pendingEvents, highCount>>

\* The status read that opens a pass of the loop, and the branch it takes.
\* Being sent to break is a draw (rand() % 100 < 5), so either may happen.
InspectVehicle(d) ==
  LET seen == status[Inspected(d)] IN
  /\ mpc[d] = "inspect"
  /\ \/ /\ seen = VEHICLE_AVAILABLE
        /\ availableCount[d] > 1
        /\ ManagerContinues(d, "inspect", "setBreak")
     \/ /\ seen = VEHICLE_AVAILABLE
        /\ NextVehicle(d, "inspect", pendingEvents[d])
     \/ /\ seen = VEHICLE_BREAK
        /\ pendingEvents[d] > 0
        /\ ManagerContinues(d, "inspect", "clearBreak")
     \/ /\ seen = VEHICLE_BREAK
        /\ pendingEvents[d] = 0
        /\ NextVehicle(d, "inspect", pendingEvents[d])
     \/ /\ seen = VEHICLE_BUSY
        /\ ManagerContinues(d, "inspect", "countHigh")
  /\ UNCHANGED <<queueVars, recordVars, taskVars, highCount>>

\* ShouldInterruptVehicle reads the queue length first ...
CountHighPriorityEvents(d) ==
  /\ ManagerContinues(d, "countHigh", "interrupt")
  /\ highCount' =
       [highCount EXCEPT ![d] = Len(priorityQueues[d][PRIORITY_HIGH])]
  /\ UNCHANGED <<queueVars, recordVars, taskVars>>

\* ... and then the vehicle's priority, under the mutex.
ShouldInterruptVehicle(d) ==
  /\ mpc[d] = "interrupt"
  /\ IF highCount[d] > 0 /\ currentPriority[Inspected(d)] < PRIORITY_HIGH
     THEN ManagerContinues(d, "interrupt", "interruptBreak")
     ELSE NextVehicle(d, "interrupt", pendingEvents[d])
  /\ highCount' = [highCount EXCEPT ![d] = 0]
  /\ UNCHANGED <<queueVars, recordVars, taskVars>>

\* SetVehicleBreak: the status, then the break bit.  It is called to send an
\* available vehicle to break and to interrupt a busy one.
SetVehicleBreak(d) ==
  /\ \E call \in {"setBreak", "interruptBreak"} :
       ManagerContinues(d, call, "setBit")
  /\ status' = [status EXCEPT ![Inspected(d)] = VEHICLE_BREAK]
  /\ UNCHANGED <<queueVars, currentEventId, currentPriority,
                 vehicleEventGroup, taskVars, highCount>>

SetBreakBit(d) ==
  /\ NextVehicle(d, "setBit", pendingEvents[d])
  /\ vehicleEventGroup' = vehicleEventGroup \cup {Inspected(d)}
  /\ UNCHANGED <<queueVars, status, currentEventId, currentPriority, taskVars,
                 highCount>>

\* ClearVehicleBreak: the status, then the break bit.
ClearVehicleBreak(d) ==
  /\ ManagerContinues(d, "clearBreak", "clearBit")
  /\ status' = [status EXCEPT ![Inspected(d)] = VEHICLE_AVAILABLE]
  /\ UNCHANGED <<queueVars, currentEventId, currentPriority,
                 vehicleEventGroup, taskVars, highCount>>

ClearBreakBit(d) ==
  /\ NextVehicle(d, "clearBit", pendingEvents[d] - 1)
  /\ vehicleEventGroup' = vehicleEventGroup \ {Inspected(d)}
  /\ UNCHANGED <<queueVars, status, currentEventId, currentPriority, taskVars,
                 highCount>>

\* The monitoring period is over.
NextMonitoringCycle(d) ==
  /\ ManagerGoTo(d, "sleep", "countEvents")
  /\ UNCHANGED <<queueVars, recordVars, taskVars, i, pendingEvents,
                 availableCount, highCount>>

ShiftManagerTask(d) ==
  \/ CountPendingDepartmentEvents(d)
  \/ CountAvailableVehicles(d)
  \/ InspectVehicle(d)
  \/ CountHighPriorityEvents(d)
  \/ ShouldInterruptVehicle(d)
  \/ SetVehicleBreak(d)
  \/ SetBreakBit(d)
  \/ ClearVehicleBreak(d)
  \/ ClearBreakBit(d)
  \/ NextMonitoringCycle(d)

-----------------------------------------------------------------------------
(* The tasks at the other end of the queues *)

\* The dispatcher forwards an event to the queue of its type and priority.
EventDispatched(m) ==
  /\ Len(priorityQueues[m.type][m.priority]) < DEPARTMENT_QUEUE_LENGTH
  /\ priorityQueues' =
       [priorityQueues EXCEPT ![m.type][m.priority] = Append(@, m)]
  /\ UNCHANGED <<faultQueue, recordVars, taskVars, managerVars>>

\* The fault manager takes a failed event.
FaultReceived ==
  /\ faultQueue # << >>
  /\ faultQueue' = Tail(faultQueue)
  /\ UNCHANGED <<priorityQueues, recordVars, taskVars, managerVars>>

Environment ==
  \/ \E m \in Arrivals : EventDispatched(m)
  \/ FaultReceived

Next ==
  \/ \E v \in Vehicles : VehicleTask(v)
  \/ \E d \in Departments : ShiftManagerTask(d)
  \/ Environment

(***************************************************************************)
(* Every task keeps running: all have the same FreeRTOS priority and are   *)
(* time-sliced (weak fairness).  A vehicle polls its status every 100 ms   *)
(* while the shift manager acts every 10 s, so a vehicle that is available *)
(* again and again does see it (strong fairness of CheckStatus).           *)
(***************************************************************************)
Fairness ==
  /\ \A v \in Vehicles : WF_vars(VehicleTask(v)) /\ SF_vars(CheckStatus(v))
  /\ \A d \in Departments : WF_vars(ShiftManagerTask(d))

SafetySpec == Init /\ [][Next]_vars

Spec == SafetySpec /\ Fairness
-----------------------------------------------------------------------------
(* Properties *)

\* Where a vehicle task holds an event, and where it holds a verdict on it.
HoldingEvent   == {"assign", "busy", "process", "release", "clear", "report"}
HoldingOutcome == {"release", "clear", "report"}

TypeOK ==
  /\ priorityQueues \in [Departments -> [Priorities -> Seq(EventMessage)]]
  /\ faultQueue \in Seq(EventMessage)
  /\ status \in [Vehicles -> VehicleStatus]
  /\ currentEventId \in [Vehicles -> Nat]
  /\ currentPriority \in [Vehicles -> Priorities \cup {PRIORITY_COUNT}]
  /\ vehicleEventGroup \subseteq Vehicles
  /\ vpc \in [Vehicles -> {"check", "receive"} \cup HoldingEvent]
  /\ level \in [Vehicles -> Priorities]
  /\ message \in [Vehicles -> EventMessage \cup {None}]
  /\ remaining \in [Vehicles -> Nat]
  /\ result \in [Vehicles -> Outcomes \cup {STATUS_PENDING}]
  /\ mpc \in [Departments -> {"countEvents", "countVehicles", "inspect",
                              "countHigh", "interrupt", "setBreak",
                              "interruptBreak", "setBit", "clearBreak",
                              "clearBit", "sleep"}]
  /\ i \in [Departments -> Nat]
  /\ \A d \in Departments :
       i[d] \in IF mpc[d] = "countEvents" THEN Priorities ELSE Indices
  /\ pendingEvents \in [Departments -> Nat]
  /\ availableCount \in [Departments -> Nat]
  /\ highCount \in [Departments -> Nat]

(***************************************************************************)
(* Every vehicle that is out of service is shown as such to                *)
(* MonitorDepartmentVehicles, except between the two calls of              *)
(* SetVehicleBreak: whatever the vehicle task does meanwhile, no vehicle   *)
(* is on break without its bit.                                            *)
(***************************************************************************)
BreakIsMonitored ==
  \A v \in Vehicles :
    status[v] = VEHICLE_BREAK =>
      \/ v \in vehicleEventGroup
      \/ mpc[v[1]] = "setBit" /\ Inspected(v[1]) = v

(***************************************************************************)
(* A vehicle that looks busy shows the shift manager the event it has in   *)
(* hand: ShouldInterruptVehicle never judges a busy vehicle by a stale or  *)
(* empty currentPriority, although record and status are written in two    *)
(* critical sections.                                                      *)
(***************************************************************************)
BusyShowsItsEvent ==
  \A v \in Vehicles :
    status[v] = VEHICLE_BUSY =>
      /\ message[v] # None
      /\ currentEventId[v] = message[v].eventId
      /\ currentPriority[v] = message[v].priority

(***************************************************************************)
(* Why the three properties above hold: what each task knows at each of    *)
(* its steps, whatever the other tasks do.                                 *)
(***************************************************************************)

\* The vehicle task has an event in hand exactly while it deals with it; only
\* its own steps make the vehicle busy, after the record has been written.
TaskKnows(v) ==
  /\ message[v] # None <=> vpc[v] \in HoldingEvent
  /\ status[v] = VEHICLE_BUSY => vpc[v] \in {"process", "release"}
  /\ vpc[v] \in {"busy", "process", "release"} =>
       /\ currentEventId[v] = message[v].eventId
       /\ currentPriority[v] = message[v].priority

\* The manager recalls a vehicle only on account of an event it has counted,
\* nobody else puts on break the vehicle whose bit it is about to clear, and
\* each cycle starts its counting loop from 0.
ManagerKnows(d) ==
  /\ mpc[d] \in {"clearBreak", "clearBit"} => pendingEvents[d] > 0
  /\ mpc[d] = "clearBit" => status[Inspected(d)] # VEHICLE_BREAK
  /\ mpc[d] = "sleep" => i[d] = 0

DepartmentInv ==
  /\ TypeOK
  /\ \A v \in Vehicles : TaskKnows(v)
  /\ \A d \in Departments : ManagerKnows(d)
  /\ BreakIsMonitored

(***************************************************************************)
(* High-priority work is not left waiting, however much other work there   *)
(* is: a vehicle on break is recalled, one that is busy with a lower event *)
(* finishes or is interrupted and then looks at the high-priority queue    *)
(* first, and some vehicle takes a high-priority event.                    *)
(***************************************************************************)
HighPriorityIsServed ==
  \A d \in Departments :
    priorityQueues[d][PRIORITY_HIGH] # << >> ~>
      \E v \in Vehicles : /\ v[1] = d
                          /\ message[v] # None
                          /\ message[v].priority = PRIORITY_HIGH

-----------------------------------------------------------------------------
(* What the comments of the code say and the code does not do *)

TakesEvent(v) == message[v] = None /\ message'[v] # None

(***************************************************************************)
(* client.c:649: ReceiveDepartmentEvent "retrieves the highest-priority    *)
(* available event".  It does not come back to the high-priority queue     *)
(* while it waits for a lower one.                                         *)
(***************************************************************************)
HighestPriorityTaken ==
  [][\A v \in Vehicles : TakesEvent(v) =>
       \A p \in Priorities : p > message'[v].priority =>
         priorityQueues[v[1]][p] = << >>]_vars

(***************************************************************************)
(* vehicle.h:14: a vehicle on break "is temporarily out of service".  The  *)
(* status is looked at before the waits of ReceiveDepartmentEvent and not  *)
(* after them, so a vehicle put on break meanwhile takes an event.         *)
(***************************************************************************)
BreakTakesNoEvent ==
  [][\A v \in Vehicles : TakesEvent(v) => status[v] # VEHICLE_BREAK]_vars

(***************************************************************************)
(* client.c:1165: "Keep at least one vehicle available for dispatch".  The *)
(* count is taken once per cycle and not lowered when a vehicle is sent to *)
(* break.                                                                  *)
(***************************************************************************)
OneVehicleStaysInService ==
  \A d \in Departments : \E v \in Vehicles :
    v[1] = d /\ status[v] # VEHICLE_BREAK

(***************************************************************************)
(* client.c:916: the vehicle that ShouldInterruptVehicle picks is          *)
(* "currently processing a lower-priority event".  Between that look and   *)
(* the call of SetVehicleBreak it may have finished, taken the             *)
(* high-priority event itself and begun with it; that one is interrupted.  *)
(***************************************************************************)
HighPriorityNotInterrupted ==
  [][\A d \in Departments :
       LET v == Inspected(d)
       IN mpc[d] = "interruptBreak" /\ mpc'[d] # "interruptBreak"
            /\ status[v] = VEHICLE_BUSY
              => message[v].priority < PRIORITY_HIGH]_vars
=============================================================================
