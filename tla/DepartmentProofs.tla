-------------------------- MODULE DepartmentProofs --------------------------
(***************************************************************************)
(* Proofs about module Department, for any departments, number of          *)
(* vehicles, queue lengths and processing times.  DepartmentInv is shown   *)
(* to be inductive, one lemma per action, and the safety properties are    *)
(* drawn from it.                                                          *)
(***************************************************************************)
EXTENDS Department, TLAPS

USE DEF PRIORITY_LOW, PRIORITY_MEDIUM, PRIORITY_HIGH, PRIORITY_COUNT,
        Priorities, VEHICLE_AVAILABLE, VEHICLE_BUSY, VEHICLE_BREAK,
        VehicleStatus, STATUS_PENDING, STATUS_COMPLETED, STATUS_FAILED,
        STATUS_CANCELLED, Outcomes

-----------------------------------------------------------------------------
(* Facts about the data *)

\* The fields of an event message have the types the vehicle record needs.
LEMMA MessageFields ==
  ASSUME NEW m \in EventMessage
  PROVE  /\ m.eventId \in Nat
         /\ m.priority \in Priorities
         /\ m.type \in Departments
BY DEF EventMessage, EventIds

\* A vehicle is a department and an index.
LEMMA VehicleParts ==
  ASSUME NEW v \in Vehicles
  PROVE  v[1] \in Departments /\ v[2] \in Indices /\ v = <<v[1], v[2]>>
BY DEF Vehicles

\* Taking the head of a queue leaves a queue and yields an event.
LEMMA HeadAndTail ==
  ASSUME NEW q \in Seq(EventMessage), q # << >>
  PROVE  Head(q) \in EventMessage /\ Tail(q) \in Seq(EventMessage)
OBVIOUS

\* The loop of the manager is at one of its department's vehicles.
LEMMA InspectedIsVehicle ==
  ASSUME TypeOK, NEW d \in Departments, mpc[d] # "countEvents"
  PROVE  Inspected(d) \in Vehicles
BY DEF TypeOK, Inspected, Vehicles

-----------------------------------------------------------------------------
(* The steps of a vehicle task *)

\* Seeing an available vehicle moves nothing but the task.
LEMMA CheckStatusInv ==
  ASSUME DepartmentInv, NEW v \in Vehicles, CheckStatus(v)
  PROVE  DepartmentInv'
<1> USE DEF CheckStatus, GoTo, DepartmentInv, queueVars, recordVars,
            managerVars
<1>1. TypeOK'
  BY DEF TypeOK
<1>2. \A w \in Vehicles : TaskKnows(w)'
  BY DEF TypeOK, TaskKnows, HoldingEvent
<1>3. \A d \in Departments : ManagerKnows(d)'
  BY DEF ManagerKnows, Inspected
<1>4. BreakIsMonitored'
  BY DEF BreakIsMonitored, Inspected
<1> QED BY <1>1, <1>2, <1>3, <1>4

\* The message taken is of the right type, and the record is not due yet.
LEMMA ReceiveEventInv ==
  ASSUME DepartmentInv, NEW v \in Vehicles, ReceiveEvent(v)
  PROVE  DepartmentInv'
<1> USE DEF ReceiveEvent, GoTo, DepartmentInv, queueVars, recordVars,
            managerVars
<1> DEFINE queue == priorityQueues[v[1]][level[v]]
<1> queue \in Seq(EventMessage)
  <2>1. v[1] \in Departments /\ level[v] \in Priorities
    BY VehicleParts DEF TypeOK
  <2>2. priorityQueues[v[1]] \in [Priorities -> Seq(EventMessage)]
    BY <2>1 DEF TypeOK
  <2> QED BY <2>1, <2>2
<1>1. Head(queue) \in EventMessage /\ Tail(queue) \in Seq(EventMessage)
  BY HeadAndTail
<1>2. TypeOK'
  <2>1. priorityQueues' \in [Departments -> [Priorities -> Seq(EventMessage)]]
    BY <1>1, VehicleParts DEF TypeOK
  <2>2. /\ message' \in [Vehicles -> EventMessage \cup {None}]
        /\ level' \in [Vehicles -> Priorities]
        /\ vpc' \in [Vehicles -> {"check", "receive"} \cup HoldingEvent]
    <3>1. message' = [message EXCEPT ![v] = Head(queue)]
      BY DEF ReceiveEvent
    <3>2. level' = [level EXCEPT ![v] = PRIORITY_HIGH] /\ PRIORITY_HIGH \in Priorities
      BY DEF ReceiveEvent, Priorities, PRIORITY_HIGH, PRIORITY_COUNT
    <3>3. message' \in [Vehicles -> EventMessage \cup {None}]
      <4> HIDE DEF queue
      <4> QED BY <1>1, <3>1 DEF TypeOK
    <3>4. level' \in [Vehicles -> Priorities]
      BY <3>2 DEF TypeOK
    <3>5. vpc' \in [Vehicles -> {"check", "receive"} \cup HoldingEvent]
      BY DEF TypeOK, HoldingEvent
    <3> QED BY <3>3, <3>4, <3>5
  <2> QED BY <2>1, <2>2 DEF TypeOK
<1>3. \A w \in Vehicles : TaskKnows(w)'
  BY <1>1, DepartmentAssumption DEF TypeOK, TaskKnows, HoldingEvent
<1>4. \A d \in Departments : ManagerKnows(d)'
  BY DEF ManagerKnows, Inspected
<1>5. BreakIsMonitored'
  BY DEF BreakIsMonitored, Inspected
<1> QED BY <1>2, <1>3, <1>4, <1>5

\* Going on to a lower queue keeps the level a priority.
LEMMA ReceiveTimeoutInv ==
  ASSUME DepartmentInv, NEW v \in Vehicles, ReceiveTimeout(v)
  PROVE  DepartmentInv'
<1> USE DEF ReceiveTimeout, GoTo, DepartmentInv, queueVars, recordVars,
            managerVars
<1>1. TypeOK'
  BY DEF TypeOK, HoldingEvent
<1>2. \A w \in Vehicles : TaskKnows(w)'
  BY DEF TypeOK, TaskKnows, HoldingEvent
<1>3. \A e \in Departments : ManagerKnows(e)'
  BY DEF TypeOK, ManagerKnows, Inspected
<1>4. BreakIsMonitored'
  BY DEF TypeOK, BreakIsMonitored, Inspected
<1> QED BY <1>1, <1>2, <1>3, <1>4

\* From here on the record shows the event in hand.
LEMMA SetVehicleCurrentEventInv ==
  ASSUME DepartmentInv, NEW v \in Vehicles, SetVehicleCurrentEvent(v)
  PROVE  DepartmentInv'
<1> USE DEF SetVehicleCurrentEvent, GoTo, DepartmentInv, queueVars, recordVars,
            managerVars
<1>0. message[v] \in EventMessage
  BY DEF TypeOK, TaskKnows, HoldingEvent
<1>1. TypeOK'
  <2>1. message[v].eventId \in Nat /\ message[v].priority \in Priorities
    BY <1>0, MessageFields
  <2> QED BY <2>1 DEF TypeOK, HoldingEvent
<1>2. \A w \in Vehicles : TaskKnows(w)'
  BY <1>0 DEF TypeOK, TaskKnows, HoldingEvent
<1>3. \A e \in Departments : ManagerKnows(e)'
  BY DEF TypeOK, ManagerKnows, Inspected
<1>4. BreakIsMonitored'
  BY DEF TypeOK, BreakIsMonitored, Inspected
<1> QED BY <1>1, <1>2, <1>3, <1>4

\* The vehicle gets busy after its record has been written; leaving a break
\* does not hide one.
LEMMA StartProcessingInv ==
  ASSUME DepartmentInv, NEW v \in Vehicles, StartProcessing(v)
  PROVE  DepartmentInv'
<1> USE DEF StartProcessing, GoTo, DepartmentInv, queueVars, recordVars,
            managerVars
<1>1. TypeOK'
  <2>1. ProcessingTimes[v[1]] \subseteq Nat
    BY DepartmentAssumption, VehicleParts
  <2>2. remaining' \in [Vehicles -> Nat]
    BY <2>1 DEF TypeOK
  <2> QED BY <2>2 DEF TypeOK, HoldingEvent
<1>2. \A w \in Vehicles : TaskKnows(w)'
  BY DEF TypeOK, TaskKnows, HoldingEvent
<1>3. \A e \in Departments : ManagerKnows(e)'
  BY DEF TypeOK, ManagerKnows, Inspected
<1>4. BreakIsMonitored'
  BY DEF TypeOK, BreakIsMonitored, Inspected
<1> QED BY <1>1, <1>2, <1>3, <1>4

\* The countdown does not pass zero.
LEMMA ProcessSecondInv ==
  ASSUME DepartmentInv, NEW v \in Vehicles, ProcessSecond(v)
  PROVE  DepartmentInv'
<1> USE DEF ProcessSecond, GoTo, DepartmentInv, queueVars, recordVars,
            managerVars
<1>1. TypeOK'
  BY DEF TypeOK, HoldingEvent
<1>2. \A w \in Vehicles : TaskKnows(w)'
  BY DEF TypeOK, TaskKnows, HoldingEvent
<1>3. \A e \in Departments : ManagerKnows(e)'
  BY DEF TypeOK, ManagerKnows, Inspected
<1>4. BreakIsMonitored'
  BY DEF TypeOK, BreakIsMonitored, Inspected
<1> QED BY <1>1, <1>2, <1>3, <1>4

\* An interrupted task still has its event and its record.
LEMMA AbortProcessingInv ==
  ASSUME DepartmentInv, NEW v \in Vehicles, AbortProcessing(v)
  PROVE  DepartmentInv'
<1> USE DEF AbortProcessing, GoTo, DepartmentInv, queueVars, recordVars,
            managerVars
<1>1. TypeOK'
  BY DEF TypeOK, HoldingEvent
<1>2. \A w \in Vehicles : TaskKnows(w)'
  BY DEF TypeOK, TaskKnows, HoldingEvent
<1>3. \A e \in Departments : ManagerKnows(e)'
  BY DEF TypeOK, ManagerKnows, Inspected
<1>4. BreakIsMonitored'
  BY DEF TypeOK, BreakIsMonitored, Inspected
<1> QED BY <1>1, <1>2, <1>3, <1>4

\* So has one that ran to the end.
LEMMA FinishProcessingInv ==
  ASSUME DepartmentInv, NEW v \in Vehicles, FinishProcessing(v)
  PROVE  DepartmentInv'
<1> USE DEF FinishProcessing, GoTo, DepartmentInv, queueVars, recordVars,
            managerVars
<1>1. TypeOK'
  BY DEF TypeOK, HoldingEvent
<1>2. \A w \in Vehicles : TaskKnows(w)'
  BY DEF TypeOK, TaskKnows, HoldingEvent
<1>3. \A e \in Departments : ManagerKnows(e)'
  BY DEF TypeOK, ManagerKnows, Inspected
<1>4. BreakIsMonitored'
  BY DEF TypeOK, BreakIsMonitored, Inspected
<1> QED BY <1>1, <1>2, <1>3, <1>4

\* The vehicle stops being busy before its record is cleared.
LEMMA ReleaseVehicleInv ==
  ASSUME DepartmentInv, NEW v \in Vehicles, ReleaseVehicle(v)
  PROVE  DepartmentInv'
<1> USE DEF ReleaseVehicle, GoTo, DepartmentInv, queueVars, recordVars,
            managerVars
<1>1. TypeOK'
  BY DEF TypeOK, HoldingEvent
<1>2. \A w \in Vehicles : TaskKnows(w)'
  BY DEF TypeOK, TaskKnows, HoldingEvent
<1>3. \A e \in Departments : ManagerKnows(e)'
  BY DEF TypeOK, ManagerKnows, Inspected
<1>4. BreakIsMonitored'
  BY DEF TypeOK, BreakIsMonitored, Inspected
<1> QED BY <1>1, <1>2, <1>3, <1>4

\* The record is cleared when the vehicle is no longer busy.
LEMMA ClearVehicleCurrentEventInv ==
  ASSUME DepartmentInv, NEW v \in Vehicles, ClearVehicleCurrentEvent(v)
  PROVE  DepartmentInv'
<1> USE DEF ClearVehicleCurrentEvent, GoTo, DepartmentInv, queueVars, recordVars,
            managerVars
<1>1. TypeOK'
  BY DEF TypeOK, HoldingEvent
<1>2. \A w \in Vehicles : TaskKnows(w)'
  BY DEF TypeOK, TaskKnows, HoldingEvent
<1>3. \A e \in Departments : ManagerKnows(e)'
  BY DEF TypeOK, ManagerKnows, Inspected
<1>4. BreakIsMonitored'
  BY DEF TypeOK, BreakIsMonitored, Inspected
<1> QED BY <1>1, <1>2, <1>3, <1>4

\* The event leaves the vehicle with its report.
LEMMA SendCompletionMessageInv ==
  ASSUME DepartmentInv, NEW v \in Vehicles, SendCompletionMessage(v)
  PROVE  DepartmentInv'
<1> USE DEF SendCompletionMessage, ReportDone, GoTo, DepartmentInv, queueVars, recordVars,
            managerVars
<1>1. TypeOK'
  BY DEF TypeOK, HoldingEvent
<1>2. \A w \in Vehicles : TaskKnows(w)'
  BY DEF TypeOK, TaskKnows, HoldingEvent
<1>3. \A e \in Departments : ManagerKnows(e)'
  BY DEF TypeOK, ManagerKnows, Inspected
<1>4. BreakIsMonitored'
  BY DEF TypeOK, BreakIsMonitored, Inspected
<1> QED BY <1>1, <1>2, <1>3, <1>4

\* The event leaves the vehicle for the fault queue.
LEMMA SendFailedEventToFaultManagerInv ==
  ASSUME DepartmentInv, NEW v \in Vehicles, SendFailedEventToFaultManager(v)
  PROVE  DepartmentInv'
<1> USE DEF SendFailedEventToFaultManager, ReportDone, GoTo, DepartmentInv, queueVars, recordVars,
            managerVars
<1>1. TypeOK'
  <2>1. message[v] \in EventMessage
    BY DEF TypeOK, TaskKnows, HoldingEvent
  <2>2. faultQueue' \in Seq(EventMessage)
    BY <2>1 DEF TypeOK
  <2> QED BY <2>2 DEF TypeOK, HoldingEvent
<1>2. \A w \in Vehicles : TaskKnows(w)'
  BY DEF TypeOK, TaskKnows, HoldingEvent
<1>3. \A e \in Departments : ManagerKnows(e)'
  BY DEF TypeOK, ManagerKnows, Inspected
<1>4. BreakIsMonitored'
  BY DEF TypeOK, BreakIsMonitored, Inspected
<1> QED BY <1>1, <1>2, <1>3, <1>4

\* The event leaves the vehicle although the fault queue is full.
LEMMA LoseFailedEventInv ==
  ASSUME DepartmentInv, NEW v \in Vehicles, LoseFailedEvent(v)
  PROVE  DepartmentInv'
<1> USE DEF LoseFailedEvent, ReportDone, GoTo, DepartmentInv, queueVars, recordVars,
            managerVars
<1>1. TypeOK'
  BY DEF TypeOK, HoldingEvent
<1>2. \A w \in Vehicles : TaskKnows(w)'
  BY DEF TypeOK, TaskKnows, HoldingEvent
<1>3. \A e \in Departments : ManagerKnows(e)'
  BY DEF TypeOK, ManagerKnows, Inspected
<1>4. BreakIsMonitored'
  BY DEF TypeOK, BreakIsMonitored, Inspected
<1> QED BY <1>1, <1>2, <1>3, <1>4

-----------------------------------------------------------------------------
(* The steps of a shift manager *)

ManagerSteps ==
  {"countEvents", "countVehicles", "inspect", "countHigh", "interrupt",
   "setBreak", "interruptBreak", "setBit", "clearBreak", "clearBit", "sleep"}

\* The part of TypeOK that is about the manager's loop.
LoopTypeOK ==
  /\ mpc \in [Departments -> ManagerSteps]
  /\ i \in [Departments -> Nat]
  /\ \A d \in Departments :
       i[d] \in IF mpc[d] = "countEvents" THEN Priorities ELSE Indices
  /\ pendingEvents \in [Departments -> Nat]
  /\ availableCount \in [Departments -> Nat]

\* Nothing but the manager of department d moves.
OthersStay(d) ==
  \A e \in Departments \ {d} :
    /\ mpc'[e] = mpc[e]
    /\ i'[e] = i[e]
    /\ pendingEvents'[e] = pendingEvents[e]

\* The loop variables have their types.
LEMMA LoopTypes == TypeOK => LoopTypeOK
BY DEF TypeOK, LoopTypeOK, ManagerSteps

\* What the end of a pass of the vehicle loop does to the loop.
LEMMA NextVehicleMoves ==
  ASSUME LoopTypeOK, NEW d \in Departments, NEW from \in ManagerSteps,
         from # "countEvents", NEW pending \in Nat,
         NextVehicle(d, from, pending)
  PROVE  /\ LoopTypeOK'
         /\ OthersStay(d)
         /\ mpc[d] = from
         /\ mpc'[d] \in {"inspect", "sleep"}
         /\ mpc'[d] = "sleep" => i'[d] = 0
<1> USE DEF NextVehicle, ManagerGoTo, LoopTypeOK, ManagerSteps
<1>1. VehicleCount \in Nat \ {0}
  BY DepartmentAssumption
<1>2. CASE i[d] + 1 < VehicleCount
  BY <1>1, <1>2 DEF OthersStay, Indices
<1>3. CASE ~(i[d] + 1 < VehicleCount)
  BY <1>1, <1>3 DEF OthersStay, Indices
<1> QED BY <1>2, <1>3

\* What a step inside a pass does to it.
LEMMA ManagerContinuesMoves ==
  ASSUME LoopTypeOK, NEW d \in Departments,
         NEW from \in ManagerSteps \ {"countEvents"},
         NEW to \in ManagerSteps \ {"countEvents"},
         ManagerContinues(d, from, to)
  PROVE  /\ LoopTypeOK'
         /\ OthersStay(d)
         /\ mpc[d] = from
         /\ mpc'[d] = to
         /\ i'[d] = i[d]
         /\ pendingEvents'[d] = pendingEvents[d]
BY DEF ManagerContinues, ManagerGoTo, LoopTypeOK, ManagerSteps, OthersStay

\* A manager that is not between the two halves of SetVehicleBreak, and goes
\* on without touching a vehicle, hides no vehicle's break.
LEMMA ManagerMovesMonitored ==
  ASSUME TypeOK, BreakIsMonitored, NEW d \in Departments, OthersStay(d),
         mpc[d] # "setBit", UNCHANGED <<status, vehicleEventGroup>>
  PROVE  BreakIsMonitored'
BY VehicleParts DEF BreakIsMonitored, OthersStay, Inspected

\* What the other managers know stays true while this one moves.
LEMMA OthersKnow ==
  ASSUME DepartmentInv, NEW d \in Departments, OthersStay(d),
         NEW e \in Departments \ {d},
         \A w \in Vehicles : w[1] # d => status'[w] = status[w]
  PROVE  ManagerKnows(e)'
<1>1. mpc[e] = "clearBit" => Inspected(e) \in Vehicles /\ Inspected(e)[1] = e
  BY InspectedIsVehicle DEF DepartmentInv, Inspected
<1> QED BY <1>1 DEF DepartmentInv, OthersStay, ManagerKnows, Inspected

\* The counting loop stays within the priorities.
LEMMA CountPendingDepartmentEventsInv ==
  ASSUME DepartmentInv, NEW d \in Departments, CountPendingDepartmentEvents(d)
  PROVE  DepartmentInv'
<1> USE DEF ManagerGoTo, queueVars, recordVars, taskVars
<1>0. TypeOK /\ LoopTypeOK
  BY LoopTypes DEF DepartmentInv
<1>1. /\ mpc[d] = "countEvents"
      /\ \/ /\ i[d] < PRIORITY_HIGH
            /\ mpc' = [mpc EXCEPT ![d] = "countEvents"]
            /\ i' = [i EXCEPT ![d] = @ + 1]
         \/ /\ mpc' = [mpc EXCEPT ![d] = "countVehicles"]
            /\ i' = [i EXCEPT ![d] = 0]
      /\ pendingEvents' =
           [pendingEvents EXCEPT ![d] = @ + Len(priorityQueues[d][i[d]])]
      /\ UNCHANGED <<queueVars, recordVars, taskVars, availableCount,
                     highCount>>
  BY DEF CountPendingDepartmentEvents
<1>2. LoopTypeOK'
  <2>1. i[d] \in Priorities
    BY <1>0, <1>1 DEF LoopTypeOK
  <2>2. Len(priorityQueues[d][i[d]]) \in Nat
    BY <1>0, <2>1 DEF TypeOK
  <2>3. pendingEvents' \in [Departments -> Nat]
    BY <1>0, <1>1, <2>2 DEF LoopTypeOK
  <2>4. 0 \in Indices
    BY DepartmentAssumption DEF Indices
  <2>5. /\ mpc' \in [Departments -> ManagerSteps]
        /\ i' \in [Departments -> Nat]
    <3>1. i[d] + 1 \in Nat
      BY <2>1
    <3>2. \E n \in Nat : i' = [i EXCEPT ![d] = n]
      BY <1>1, <3>1
    <3>3. \E step \in ManagerSteps : mpc' = [mpc EXCEPT ![d] = step]
      BY <1>1 DEF ManagerSteps
    <3> QED BY <1>0, <3>2, <3>3 DEF LoopTypeOK
  <2>6. \A e \in Departments :
          i'[e] \in IF mpc'[e] = "countEvents" THEN Priorities ELSE Indices
    BY <1>0, <1>1, <2>1, <2>4 DEF LoopTypeOK
  <2> QED BY <1>0, <1>1, <2>3, <2>5, <2>6 DEF LoopTypeOK
<1>3. OthersStay(d)
  BY <1>0, <1>1 DEF OthersStay, LoopTypeOK
<1>4. TypeOK'
  BY <1>0, <1>2, <1>1 DEF TypeOK, LoopTypeOK, ManagerSteps
<1>5. \A w \in Vehicles : TaskKnows(w)'
  BY <1>1 DEF DepartmentInv, TaskKnows
<1>6. \A e \in Departments : ManagerKnows(e)'
  BY <1>0, <1>3, <1>1, OthersKnow DEF ManagerKnows, LoopTypeOK
<1>7. BreakIsMonitored'
  BY <1>3, <1>1, ManagerMovesMonitored DEF DepartmentInv
<1> QED BY <1>4, <1>5, <1>6, <1>7 DEF DepartmentInv

\* The counting loop stays within the vehicles.
LEMMA CountAvailableVehiclesInv ==
  ASSUME DepartmentInv, NEW d \in Departments, CountAvailableVehicles(d)
  PROVE  DepartmentInv'
<1> USE DEF CountAvailableVehicles, ManagerGoTo, queueVars, recordVars,
            taskVars
<1>0. TypeOK /\ LoopTypeOK
  BY LoopTypes DEF DepartmentInv
<1>1. LoopTypeOK'
  <2>1. i[d] \in Indices
    BY <1>0 DEF LoopTypeOK
  <2>2. VehicleCount \in Nat \ {0}
    BY DepartmentAssumption
  <2>3. availableCount' \in [Departments -> Nat]
    BY <1>0 DEF LoopTypeOK
  <2>4. CASE i[d] + 1 < VehicleCount
    BY <1>0, <2>1, <2>2, <2>3, <2>4 DEF LoopTypeOK, ManagerSteps, Indices
  <2>5. CASE ~(i[d] + 1 < VehicleCount)
    BY <1>0, <2>2, <2>3, <2>5 DEF LoopTypeOK, ManagerSteps, Indices
  <2> QED BY <2>4, <2>5
<1>2. OthersStay(d)
  BY <1>0 DEF OthersStay, LoopTypeOK
<1>3. TypeOK'
  BY <1>0, <1>1 DEF TypeOK, LoopTypeOK, ManagerSteps
<1>4. \A w \in Vehicles : TaskKnows(w)'
  BY DEF DepartmentInv, TaskKnows
<1>5. \A e \in Departments : ManagerKnows(e)'
  BY <1>0, <1>2, OthersKnow DEF ManagerKnows, LoopTypeOK
<1>6. BreakIsMonitored'
  BY <1>2, ManagerMovesMonitored DEF DepartmentInv
<1> QED BY <1>3, <1>4, <1>5, <1>6 DEF DepartmentInv

\* A vehicle is recalled only if there is a pending event to deduct.
LEMMA InspectVehicleInv ==
  ASSUME DepartmentInv, NEW d \in Departments, InspectVehicle(d)
  PROVE  DepartmentInv'
<1> USE DEF queueVars, recordVars, taskVars
<1>0. TypeOK /\ LoopTypeOK /\ pendingEvents[d] \in Nat
  BY LoopTypes DEF DepartmentInv, LoopTypeOK
<1>1. /\ UNCHANGED <<queueVars, recordVars, taskVars, highCount>>
      /\ \/ ManagerContinues(d, "inspect", "setBreak")
         \/ NextVehicle(d, "inspect", pendingEvents[d])
         \/ /\ pendingEvents[d] > 0
            /\ ManagerContinues(d, "inspect", "clearBreak")
         \/ ManagerContinues(d, "inspect", "countHigh")
  BY DEF InspectVehicle
<1>2. /\ LoopTypeOK'
      /\ OthersStay(d)
      /\ mpc[d] = "inspect"
      /\ mpc'[d] # "clearBit"
      /\ mpc'[d] = "clearBreak" => pendingEvents'[d] > 0
      /\ mpc'[d] = "sleep" => i'[d] = 0
  BY <1>0, <1>1, NextVehicleMoves, ManagerContinuesMoves DEF ManagerSteps
<1>3. TypeOK'
  BY <1>0, <1>1, <1>2 DEF TypeOK, LoopTypeOK, ManagerSteps
<1>4. \A w \in Vehicles : TaskKnows(w)'
  BY <1>1 DEF DepartmentInv, TaskKnows
<1>5. \A e \in Departments : ManagerKnows(e)'
  BY <1>1, <1>2, OthersKnow DEF ManagerKnows
<1>6. BreakIsMonitored'
  BY <1>1, <1>2, ManagerMovesMonitored DEF DepartmentInv
<1> QED BY <1>3, <1>4, <1>5, <1>6 DEF DepartmentInv

\* Reading a queue length changes no vehicle.
LEMMA CountHighPriorityEventsInv ==
  ASSUME DepartmentInv, NEW d \in Departments, CountHighPriorityEvents(d)
  PROVE  DepartmentInv'
<1> USE DEF CountHighPriorityEvents, queueVars, recordVars, taskVars
<1>0. TypeOK /\ LoopTypeOK
  BY LoopTypes DEF DepartmentInv
<1>1. LoopTypeOK' /\ OthersStay(d) /\ mpc[d] = "countHigh"
        /\ mpc'[d] = "interrupt"
  BY <1>0, ManagerContinuesMoves DEF ManagerSteps
<1>2. highCount' \in [Departments -> Nat]
  <2>1. Len(priorityQueues[d][PRIORITY_HIGH]) \in Nat
    BY <1>0 DEF TypeOK
  <2> QED BY <1>0, <2>1 DEF TypeOK
<1>3. TypeOK'
  BY <1>0, <1>1, <1>2 DEF TypeOK, LoopTypeOK, ManagerSteps
<1>4. \A w \in Vehicles : TaskKnows(w)'
  BY DEF DepartmentInv, TaskKnows
<1>5. \A e \in Departments : ManagerKnows(e)'
  BY <1>1, OthersKnow DEF ManagerKnows
<1>6. BreakIsMonitored'
  BY <1>1, ManagerMovesMonitored DEF DepartmentInv
<1> QED BY <1>3, <1>4, <1>5, <1>6 DEF DepartmentInv

\* Deciding on an interruption changes no vehicle.
LEMMA ShouldInterruptVehicleInv ==
  ASSUME DepartmentInv, NEW d \in Departments, ShouldInterruptVehicle(d)
  PROVE  DepartmentInv'
<1> USE DEF queueVars, recordVars, taskVars
<1>0. TypeOK /\ LoopTypeOK /\ pendingEvents[d] \in Nat
  BY LoopTypes DEF DepartmentInv, LoopTypeOK
<1>1. /\ UNCHANGED <<queueVars, recordVars, taskVars>>
      /\ highCount' = [highCount EXCEPT ![d] = 0]
      /\ \/ ManagerContinues(d, "interrupt", "interruptBreak")
         \/ NextVehicle(d, "interrupt", pendingEvents[d])
  BY DEF ShouldInterruptVehicle
<1>2. /\ LoopTypeOK'
      /\ OthersStay(d)
      /\ mpc[d] = "interrupt"
      /\ mpc'[d] \notin {"clearBreak", "clearBit"}
      /\ mpc'[d] = "sleep" => i'[d] = 0
  BY <1>0, <1>1, NextVehicleMoves, ManagerContinuesMoves DEF ManagerSteps
<1>3. TypeOK'
  BY <1>0, <1>1, <1>2 DEF TypeOK, LoopTypeOK, ManagerSteps
<1>4. \A w \in Vehicles : TaskKnows(w)'
  BY <1>1 DEF DepartmentInv, TaskKnows
<1>5. \A e \in Departments : ManagerKnows(e)'
  BY <1>1, <1>2, OthersKnow DEF ManagerKnows
<1>6. BreakIsMonitored'
  BY <1>1, <1>2, ManagerMovesMonitored DEF DepartmentInv
<1> QED BY <1>3, <1>4, <1>5, <1>6 DEF DepartmentInv

\* The vehicle now on break is the one whose bit the manager sets next.
LEMMA SetVehicleBreakInv ==
  ASSUME DepartmentInv, NEW d \in Departments, SetVehicleBreak(d)
  PROVE  DepartmentInv'
<1> USE DEF SetVehicleBreak, queueVars, taskVars
<1>0. TypeOK /\ LoopTypeOK
  BY LoopTypes DEF DepartmentInv
<1>1. /\ LoopTypeOK'
      /\ OthersStay(d)
      /\ mpc[d] \in {"setBreak", "interruptBreak"}
      /\ mpc'[d] = "setBit"
      /\ i'[d] = i[d]
  BY <1>0, ManagerContinuesMoves DEF ManagerSteps
<1>2. Inspected(d) \in Vehicles /\ Inspected(d)[1] = d
  BY <1>0, <1>1, InspectedIsVehicle DEF Inspected
<1>3. TypeOK'
  BY <1>0, <1>1 DEF TypeOK, LoopTypeOK, ManagerSteps
<1>4. \A w \in Vehicles : TaskKnows(w)'
  BY <1>0 DEF DepartmentInv, TaskKnows, TypeOK
<1>5. \A e \in Departments : ManagerKnows(e)'
  <2>1. \A w \in Vehicles : w[1] # d => status'[w] = status[w]
    BY <1>0, <1>2 DEF TypeOK
  <2> QED BY <1>1, <2>1, OthersKnow DEF ManagerKnows
\* The manager is now between the two halves for the vehicle put on break.
<1>6. BreakIsMonitored'
  <2> SUFFICES ASSUME NEW v \in Vehicles, status'[v] = VEHICLE_BREAK
               PROVE  \/ v \in vehicleEventGroup
                      \/ mpc'[v[1]] = "setBit" /\ Inspected(v[1])' = v
    BY DEF BreakIsMonitored
  <2>1. CASE v = Inspected(d)
    BY <1>1, <1>2, <2>1 DEF Inspected
  <2>2. CASE v # Inspected(d)
    <3>1. status[v] = VEHICLE_BREAK
      BY <1>0, <2>2 DEF TypeOK
    <3>2. \/ v \in vehicleEventGroup
          \/ mpc[v[1]] = "setBit" /\ Inspected(v[1]) = v
      BY <3>1 DEF DepartmentInv, BreakIsMonitored
    <3> QED BY <1>1, <3>2, VehicleParts DEF OthersStay, Inspected
  <2> QED BY <2>1, <2>2
<1> QED BY <1>3, <1>4, <1>5, <1>6 DEF DepartmentInv

\* The bit is that of the vehicle put on break.
LEMMA SetBreakBitInv ==
  ASSUME DepartmentInv, NEW d \in Departments, SetBreakBit(d)
  PROVE  DepartmentInv'
<1> USE DEF SetBreakBit, queueVars, taskVars
<1>0. TypeOK /\ LoopTypeOK /\ pendingEvents[d] \in Nat
  BY LoopTypes DEF DepartmentInv, LoopTypeOK
<1>1. /\ LoopTypeOK'
      /\ OthersStay(d)
      /\ mpc[d] = "setBit"
      /\ mpc'[d] \in {"inspect", "sleep"}
      /\ mpc'[d] = "sleep" => i'[d] = 0
  BY <1>0, NextVehicleMoves DEF ManagerSteps
<1>2. Inspected(d) \in Vehicles
  BY <1>0, <1>1, InspectedIsVehicle
<1>3. TypeOK'
  BY <1>0, <1>1, <1>2 DEF TypeOK, LoopTypeOK, ManagerSteps
<1>4. \A w \in Vehicles : TaskKnows(w)'
  BY DEF DepartmentInv, TaskKnows
<1>5. \A e \in Departments : ManagerKnows(e)'
  BY <1>1, OthersKnow DEF ManagerKnows
<1>6. BreakIsMonitored'
  <2> SUFFICES ASSUME NEW v \in Vehicles, status[v] = VEHICLE_BREAK
               PROVE  \/ v \in vehicleEventGroup \cup {Inspected(d)}
                      \/ mpc'[v[1]] = "setBit" /\ Inspected(v[1])' = v
    BY DEF BreakIsMonitored
  <2>1. \/ v \in vehicleEventGroup
        \/ mpc[v[1]] = "setBit" /\ Inspected(v[1]) = v
    BY DEF DepartmentInv, BreakIsMonitored
  <2> QED BY <1>1, <2>1, VehicleParts DEF OthersStay, Inspected
<1> QED BY <1>3, <1>4, <1>5, <1>6 DEF DepartmentInv

\* The vehicle is off break before its bit goes.
LEMMA ClearVehicleBreakInv ==
  ASSUME DepartmentInv, NEW d \in Departments, ClearVehicleBreak(d)
  PROVE  DepartmentInv'
<1> USE DEF ClearVehicleBreak, queueVars, taskVars
<1>0. TypeOK /\ LoopTypeOK
  BY LoopTypes DEF DepartmentInv
<1>1. /\ LoopTypeOK'
      /\ OthersStay(d)
      /\ mpc[d] = "clearBreak"
      /\ mpc'[d] = "clearBit"
      /\ i'[d] = i[d]
      /\ pendingEvents'[d] = pendingEvents[d]
  BY <1>0, ManagerContinuesMoves DEF ManagerSteps
<1>2. Inspected(d) \in Vehicles /\ Inspected(d)[1] = d
  BY <1>0, <1>1, InspectedIsVehicle DEF Inspected
<1>3. TypeOK'
  BY <1>0, <1>1 DEF TypeOK, LoopTypeOK, ManagerSteps
<1>4. \A w \in Vehicles : TaskKnows(w)'
  BY <1>0 DEF DepartmentInv, TaskKnows, TypeOK
<1>5. \A e \in Departments : ManagerKnows(e)'
  <2>1. \A w \in Vehicles : w[1] # d => status'[w] = status[w]
    BY <1>0, <1>2 DEF TypeOK
  <2>2. status'[Inspected(d)] = VEHICLE_AVAILABLE /\ Inspected(d)' = Inspected(d)
    BY <1>0, <1>1, <1>2 DEF TypeOK, Inspected
  <2>3. ManagerKnows(d)'
    BY <1>1, <2>2 DEF DepartmentInv, ManagerKnows
  <2> QED BY <1>1, <2>1, <2>3, OthersKnow
<1>6. BreakIsMonitored'
  <2> SUFFICES ASSUME NEW v \in Vehicles, status'[v] = VEHICLE_BREAK
               PROVE  \/ v \in vehicleEventGroup
                      \/ mpc'[v[1]] = "setBit" /\ Inspected(v[1])' = v
    BY DEF BreakIsMonitored
  <2>1. status[v] = VEHICLE_BREAK
    BY <1>0, <1>2 DEF TypeOK
  <2>2. \/ v \in vehicleEventGroup
        \/ mpc[v[1]] = "setBit" /\ Inspected(v[1]) = v
    BY <2>1 DEF DepartmentInv, BreakIsMonitored
  <2> QED BY <1>1, <2>2, VehicleParts DEF OthersStay, Inspected
<1> QED BY <1>3, <1>4, <1>5, <1>6 DEF DepartmentInv

\* The bit that is cleared belongs to a vehicle that is not on break.
LEMMA ClearBreakBitInv ==
  ASSUME DepartmentInv, NEW d \in Departments, ClearBreakBit(d)
  PROVE  DepartmentInv'
<1> USE DEF ClearBreakBit, queueVars, taskVars
<1>0. TypeOK /\ LoopTypeOK
  BY LoopTypes DEF DepartmentInv
<1>1. mpc[d] = "clearBit"
  BY DEF NextVehicle
<1>2. pendingEvents[d] - 1 \in Nat /\ status[Inspected(d)] # VEHICLE_BREAK
  BY <1>0, <1>1 DEF DepartmentInv, ManagerKnows, LoopTypeOK
<1>3. /\ LoopTypeOK'
      /\ OthersStay(d)
      /\ mpc'[d] \in {"inspect", "sleep"}
      /\ mpc'[d] = "sleep" => i'[d] = 0
  BY <1>0, <1>2, NextVehicleMoves DEF ManagerSteps
<1>4. TypeOK'
  BY <1>0, <1>3 DEF TypeOK, LoopTypeOK, ManagerSteps
<1>5. \A w \in Vehicles : TaskKnows(w)'
  BY DEF DepartmentInv, TaskKnows
<1>6. \A e \in Departments : ManagerKnows(e)'
  BY <1>3, OthersKnow DEF ManagerKnows
<1>7. BreakIsMonitored'
  <2> SUFFICES ASSUME NEW v \in Vehicles, status[v] = VEHICLE_BREAK
               PROVE  \/ v \in vehicleEventGroup \ {Inspected(d)}
                      \/ mpc'[v[1]] = "setBit" /\ Inspected(v[1])' = v
    BY DEF BreakIsMonitored
  <2>1. \/ v \in vehicleEventGroup
        \/ mpc[v[1]] = "setBit" /\ Inspected(v[1]) = v
    BY DEF DepartmentInv, BreakIsMonitored
  <2>2. v # Inspected(d)
    BY <1>2
  <2> QED BY <1>1, <1>3, <2>1, <2>2, VehicleParts DEF OthersStay, Inspected
<1> QED BY <1>4, <1>5, <1>6, <1>7 DEF DepartmentInv

\* A new cycle starts counting from 0.
LEMMA NextMonitoringCycleInv ==
  ASSUME DepartmentInv, NEW d \in Departments, NextMonitoringCycle(d)
  PROVE  DepartmentInv'
<1> USE DEF NextMonitoringCycle, ManagerGoTo, queueVars, recordVars, taskVars
<1>0. TypeOK /\ LoopTypeOK
  BY LoopTypes DEF DepartmentInv
<1>1. OthersStay(d)
  BY <1>0 DEF OthersStay, LoopTypeOK
<1>2. TypeOK'
  <2>1. i[d] = 0
    BY DEF DepartmentInv, ManagerKnows
  <2>2. LoopTypeOK'
    BY <1>0, <2>1 DEF LoopTypeOK, ManagerSteps
  <2> QED BY <1>0, <2>2 DEF TypeOK, LoopTypeOK, ManagerSteps
<1>3. \A w \in Vehicles : TaskKnows(w)'
  BY DEF DepartmentInv, TaskKnows
<1>4. \A e \in Departments : ManagerKnows(e)'
  BY <1>0, <1>1, OthersKnow DEF ManagerKnows, LoopTypeOK
<1>5. BreakIsMonitored'
  BY <1>1, ManagerMovesMonitored DEF DepartmentInv
<1> QED BY <1>2, <1>3, <1>4, <1>5 DEF DepartmentInv

-----------------------------------------------------------------------------
(* The whole specification *)

\* Events coming in and failed events taken out touch no vehicle.
LEMMA EnvironmentInv ==
  ASSUME DepartmentInv, Environment
  PROVE  DepartmentInv'
<1> USE DEF DepartmentInv, recordVars, taskVars, managerVars
<1>1. ASSUME NEW m \in Arrivals, EventDispatched(m)
      PROVE  TypeOK'
  <2>1. m \in EventMessage /\ m.type \in Departments /\ m.priority \in Priorities
    BY DepartmentAssumption, MessageFields
  <2>2. priorityQueues[m.type][m.priority] \in Seq(EventMessage)
    BY <2>1 DEF TypeOK
  <2>3. Append(priorityQueues[m.type][m.priority], m) \in Seq(EventMessage)
    BY <2>1, <2>2
  <2>4. priorityQueues' \in [Departments -> [Priorities -> Seq(EventMessage)]]
    BY <1>1, <2>1, <2>3 DEF EventDispatched, TypeOK
  <2> QED BY <1>1, <2>4 DEF EventDispatched, TypeOK
<1>2. FaultReceived => TypeOK'
  BY HeadAndTail DEF FaultReceived, TypeOK
<1>3. UNCHANGED <<recordVars, taskVars, managerVars>>
  BY DEF Environment, EventDispatched, FaultReceived
<1>4. \A w \in Vehicles : TaskKnows(w)'
  BY <1>3 DEF TaskKnows
<1>5. \A e \in Departments : ManagerKnows(e)'
  BY <1>3 DEF ManagerKnows, Inspected
<1>6. BreakIsMonitored'
  BY <1>3 DEF BreakIsMonitored, Inspected
<1> QED BY <1>1, <1>2, <1>4, <1>5, <1>6 DEF Environment

\* The invariant holds of the initial state ...
LEMMA DepartmentInit == Init => DepartmentInv
<1> SUFFICES ASSUME Init PROVE DepartmentInv
  OBVIOUS
<1>1. 0 \in Indices
  BY DepartmentAssumption DEF Indices
<1>2. TypeOK
  BY <1>1 DEF Init, TypeOK
<1>3. \A v \in Vehicles : TaskKnows(v)
  BY DEF Init, TaskKnows, HoldingEvent
<1>4. \A d \in Departments : ManagerKnows(d)
  BY DEF Init, ManagerKnows
<1>5. BreakIsMonitored
  BY DEF Init, BreakIsMonitored
<1> QED BY <1>2, <1>3, <1>4, <1>5 DEF DepartmentInv

\* ... and every step preserves it.
LEMMA DepartmentStep == DepartmentInv /\ [Next]_vars => DepartmentInv'
<1> SUFFICES ASSUME DepartmentInv, [Next]_vars PROVE DepartmentInv'
  OBVIOUS
<1>1. ASSUME NEW v \in Vehicles, VehicleTask(v)
      PROVE  DepartmentInv'
  BY <1>1, CheckStatusInv, ReceiveEventInv, ReceiveTimeoutInv,
     SetVehicleCurrentEventInv, StartProcessingInv, ProcessSecondInv,
     AbortProcessingInv, FinishProcessingInv, ReleaseVehicleInv,
     ClearVehicleCurrentEventInv, SendCompletionMessageInv,
     SendFailedEventToFaultManagerInv, LoseFailedEventInv
  DEF VehicleTask
<1>2. ASSUME NEW d \in Departments, ShiftManagerTask(d)
      PROVE  DepartmentInv'
  BY <1>2, CountPendingDepartmentEventsInv, CountAvailableVehiclesInv,
     InspectVehicleInv, CountHighPriorityEventsInv, ShouldInterruptVehicleInv,
     SetVehicleBreakInv, SetBreakBitInv, ClearVehicleBreakInv,
     ClearBreakBitInv, NextMonitoringCycleInv
  DEF ShiftManagerTask
<1>3. CASE UNCHANGED vars
  BY <1>3 DEF vars, queueVars, recordVars, taskVars, managerVars,
              DepartmentInv, TypeOK, TaskKnows, ManagerKnows,
              BreakIsMonitored, Inspected
<1> QED BY <1>1, <1>2, <1>3, EnvironmentInv DEF Next

\* What every task knows holds in every state of every behaviour; no fairness
\* is needed.
THEOREM DepartmentInvariant == SafetySpec => []DepartmentInv
BY DepartmentInit, DepartmentStep, PTL DEF SafetySpec

\* Every variable of the departments keeps its type; in particular the
\* unsigned pendingEvents of a shift manager never wraps around.
THEOREM DepartmentTypeCorrect == Spec => []TypeOK
<1>1. DepartmentInv => TypeOK
  BY DEF DepartmentInv
<1> QED BY <1>1, DepartmentInvariant, PTL DEF Spec

\* No vehicle of any department is out of service without being shown as such.
THEOREM BreaksAreMonitored == Spec => []BreakIsMonitored
<1>1. DepartmentInv => BreakIsMonitored
  BY DEF DepartmentInv
<1> QED BY <1>1, DepartmentInvariant, PTL DEF Spec

\* No shift manager judges a busy vehicle by a record that is not its event's.
THEOREM BusyVehiclesShowTheirEvent == Spec => []BusyShowsItsEvent
<1>1. DepartmentInv => BusyShowsItsEvent
  BY DEF DepartmentInv, TaskKnows, BusyShowsItsEvent, HoldingEvent
<1> QED BY <1>1, DepartmentInvariant, PTL DEF Spec
=============================================================================
