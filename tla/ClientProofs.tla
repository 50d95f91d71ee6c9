---------------------------- MODULE ClientProofs ----------------------------
(***************************************************************************)
(* Proofs about module Client, for any events, departments, number of      *)
(* vehicles, queue lengths and retries: what its tasks hold and know, and  *)
(* that they are an environment module Department allows, with all that    *)
(* follows from it.  Module EventProofs goes on to what becomes of events. *)
(***************************************************************************)
EXTENDS Client, DepartmentProofs

-----------------------------------------------------------------------------
(* The messages the client holds *)

\* An event of the server, with any number of retries used up.
Retried ==
  {[m EXCEPT !.retryCount = retry] : m \in Events,
                                     retry \in 0 .. MAX_EVENT_RETRIES}

\* What there is in the client, and what its tasks know: the receive task and
\* the fault manager hold an event whenever they are to do something with it,
\* one with no retry left if it is to be reported, and a vehicle has a verdict
\* whenever it is to report one.
ClientInv ==
  /\ DepartmentInv
  /\ sent \subseteq Events
  /\ clientSocket \in Seq(Events)
  /\ rxpc \in {"receive", "ack", "enqueue"}
  /\ rxEvent \in Events \cup {None}
  /\ rxpc # "receive" <=> rxEvent # None
  /\ clientRxQueue \in Seq(Retried)
  /\ dispatchEvent \in Retried \cup {None}
  /\ priorityQueues \in [Departments -> [Priorities -> Seq(Retried)]]
  /\ message \in [Vehicles -> Retried \cup {None}]
  /\ \A v \in Vehicles : vpc[v] \in HoldingOutcome => result[v] \in Outcomes
  /\ faultQueue \in Seq(Retried)
  /\ fpc \in {"receive", "requeue", "report"}
  /\ faultEvent \in Retried \cup {None}
  /\ fpc # "receive" <=> faultEvent # None
  /\ fpc = "report" => faultEvent.retryCount = MAX_EVENT_RETRIES
  /\ received \in Nat
  /\ dispatched \in Nat
  /\ completed \in Nat
  /\ failed \in Nat
  /\ cancelled \in Nat
  /\ retries \in Nat
  /\ dropped \subseteq Ids
  /\ replies \in [Ids -> Seq(ClientMessage)]

\* A retried event is one of the arrivals of module Department.
LEMMA RetriedAreArrivals ==
  /\ Retried \subseteq Arrivals
  /\ Arrivals \subseteq EventMessage
  /\ Events \subseteq Retried
  /\ None \notin Retried
<1>1. Retried \subseteq Arrivals
  BY ClientAssumption DEF Retried
<1>2. Arrivals \subseteq EventMessage /\ None \notin EventMessage
  BY DepartmentAssumption
<1>3. Events \subseteq Retried
  <2> SUFFICES ASSUME NEW m \in Events PROVE m \in Retried
    OBVIOUS
  <2>1. m \in EventMessage /\ m.retryCount = 0
    BY ClientAssumption
  <2>2. m = [m EXCEPT !.retryCount = 0]
    BY <2>1 DEF EventMessage
  <2>3. 0 \in 0 .. MAX_EVENT_RETRIES
    BY MessagesAssumption
  <2> QED BY <2>2, <2>3 DEF Retried
<1> QED BY <1>1, <1>2, <1>3

\* Its identifier is that of an event the server has.
LEMMA RetriedIds ==
  ASSUME NEW m \in Retried
  PROVE  m.eventId \in Ids /\ m \in EventMessage
<1>1. PICK e \in Events, retry \in 0 .. MAX_EVENT_RETRIES :
        m = [e EXCEPT !.retryCount = retry]
  BY DEF Retried
<1>2. e \in EventMessage
  BY ClientAssumption
<1>3. m.eventId = e.eventId
  BY <1>1, <1>2 DEF EventMessage
<1>4. m.eventId \in Ids
  BY <1>3 DEF Ids
<1> QED BY <1>4, RetriedAreArrivals

\* The next attempt at an event is a retried event again.
LEMMA RetryAgain ==
  ASSUME NEW m \in Retried, m.retryCount < MAX_EVENT_RETRIES
  PROVE  /\ [m EXCEPT !.retryCount = @ + 1] \in Retried
         /\ [m EXCEPT !.retryCount = @ + 1].eventId = m.eventId
<1>1. PICK e \in Events, retry \in 0 .. MAX_EVENT_RETRIES :
        m = [e EXCEPT !.retryCount = retry]
  BY DEF Retried
<1>2. e \in EventMessage
  BY ClientAssumption
<1>3. m.retryCount = retry /\ m.eventId = e.eventId
  BY <1>1, <1>2 DEF EventMessage
<1>4. [m EXCEPT !.retryCount = @ + 1] = [e EXCEPT !.retryCount = retry + 1]
  BY <1>1, <1>2, <1>3 DEF EventMessage
<1>5. retry + 1 \in 0 .. MAX_EVENT_RETRIES
  BY <1>3, MessagesAssumption
<1>6. [m EXCEPT !.retryCount = @ + 1] \in Retried
  BY <1>4, <1>5 DEF Retried
<1>7. [m EXCEPT !.retryCount = @ + 1].eventId = m.eventId
  BY <1>2, <1>3, <1>4 DEF EventMessage
<1> QED BY <1>6, <1>7

\* Queues of messages.
LEMMA QueueEnds ==
  ASSUME NEW S, NEW q \in Seq(S), q # << >>
  PROVE  Head(q) \in S /\ Tail(q) \in Seq(S)
OBVIOUS

-----------------------------------------------------------------------------
(* What the client's tasks do to the departments *)

\* A step of a vehicle is a step of its task in Department.
LEMMA VehicleSteps ==
  ASSUME NEW v \in Vehicles, Vehicle(v)
  PROVE  VehicleTask(v)
BY DEF Vehicle, DriveVehicle, CancelEvent, FinishEvent, ReportOutcome,
       DropFailed, VehicleTask

\* The receive task and the server do not touch the departments, the dispatcher
\* forwards one of the arrivals, the fault manager only takes.
LEMMA DepartmentMoves ==
  ASSUME ClientInv, [ClientNext]_clientVars
  PROVE  [Next]_vars
<1>1. CASE ClientUdpRxTask
  BY <1>1 DEF ClientUdpRxTask, ClientUdpReceiveMessage, SendAck, EnqueueEvent,
              departmentVars
<1>2. CASE ClientDispatcherTask
  <2>1. CASE ForwardEvent /\ Dispatch
    <3>1. dispatchEvent \in Arrivals
      BY <2>1, RetriedAreArrivals DEF ClientInv, ForwardEvent
    <3> QED BY <2>1, <3>1 DEF Dispatch, Next, Environment
  <2> QED BY <1>2, <2>1 DEF ClientDispatcherTask, ReceiveForDispatch,
                            ForwardEvent, DropUndispatched, departmentVars
<1>3. CASE FaultManagerTask
  BY <1>3 DEF FaultManagerTask, RetryEvent, RequeueEvent, DropRetry, GiveUp,
              SendFailureCompletion, departmentVars, Next, Environment
<1>4. CASE \E v \in Vehicles : Vehicle(v)
  BY <1>4, VehicleSteps DEF Next
<1>5. CASE \E d \in Departments : ShiftManager(d)
  BY <1>5 DEF ShiftManager, Next
<1>6. CASE \E m \in Events : ServerSends(m)
  BY <1>6 DEF ServerSends, departmentVars
<1>7. CASE UNCHANGED clientVars
  BY <1>7 DEF clientVars, departmentVars
<1> QED BY <1>1, <1>2, <1>3, <1>4, <1>5, <1>6, <1>7 DEF ClientNext, ClientTasks

-----------------------------------------------------------------------------
(* The steps of the client's tasks *)

\* A datagram is one of the two kinds of message the server knows.
LEMMA SendKeepsType ==
  ASSUME ClientInv, NEW m \in ClientMessage, m.eventId \in Ids, Send(m)
  PROVE  replies' \in [Ids -> Seq(ClientMessage)]
<1>1. replies[m.eventId] \in Seq(ClientMessage)
  BY DEF ClientInv
<1>2. Append(replies[m.eventId], m) \in Seq(ClientMessage)
  BY <1>1
<1> QED BY <1>2 DEF Send, ClientInv

\* What the client sends about an event of the server.
LEMMA Datagrams ==
  ASSUME NEW id \in Ids, NEW outcome \in Outcomes
  PROVE  /\ Ack(id) \in ClientMessage /\ Ack(id).eventId = id
         /\ Completion(id, outcome) \in ClientMessage
         /\ Completion(id, outcome).eventId = id
<1>1. id \in EventIds
  BY ClientAssumption DEF Ids, EventMessage
<1> QED BY <1>1 DEF Ack, Completion, ClientMessage

\* A datagram of the server adds one of its events to the socket.
LEMMA ServerSendsInv ==
  ASSUME ClientInv, DepartmentInv', NEW m \in Events, ServerSends(m)
  PROVE  ClientInv'
BY DEF ClientInv, ServerSends, departmentVars, vars, queueVars, recordVars,
       taskVars, managerVars, faultVars, clientCounters, doneCounters,
       historyVars

\* The receive task holds an event from the datagram to the receive queue.
LEMMA ClientUdpRxTaskInv ==
  ASSUME ClientInv, DepartmentInv', ClientUdpRxTask
  PROVE  ClientInv'
<1> USE DEF departmentVars, vars, queueVars, recordVars, taskVars,
            managerVars, faultVars, clientCounters, doneCounters, historyVars
<1>1. CASE ClientUdpReceiveMessage
  <2>1. Head(clientSocket) \in Events /\ Tail(clientSocket) \in Seq(Events)
    BY <1>1, QueueEnds DEF ClientInv, ClientUdpReceiveMessage
  <2>2. None \notin Events
    BY RetriedAreArrivals
  <2> QED BY <1>1, <2>1, <2>2 DEF ClientInv, ClientUdpReceiveMessage
<1>2. CASE SendAck
  <2>1. rxEvent \in Events
    BY <1>2 DEF ClientInv, SendAck
  <2>2. rxEvent.eventId \in Ids
    BY <2>1 DEF Ids
  <2>3. replies' \in [Ids -> Seq(ClientMessage)]
    BY <1>2, <2>2, Datagrams, SendKeepsType DEF SendAck, Outcomes
  <2> QED BY <1>2, <2>1, <2>3 DEF ClientInv, SendAck
<1>3. CASE EnqueueEvent
  <2>1. rxEvent \in Retried
    BY <1>3, RetriedAreArrivals DEF ClientInv, EnqueueEvent
  <2>2. clientRxQueue' \in Seq(Retried)
    BY <1>3, <2>1 DEF ClientInv, EnqueueEvent
  <2> QED BY <1>3, <2>2 DEF ClientInv, EnqueueEvent
<1> QED BY <1>1, <1>2, <1>3 DEF ClientUdpRxTask

\* The dispatcher puts what it took into a queue of its department, or drops it.
LEMMA ClientDispatcherTaskInv ==
  ASSUME ClientInv, DepartmentInv', ClientDispatcherTask
  PROVE  ClientInv'
<1> USE DEF departmentVars, vars, queueVars, recordVars, taskVars,
            managerVars, rxVars, faultVars, clientCounters, doneCounters,
            historyVars
<1>1. CASE ReceiveForDispatch
  <2>1. Head(clientRxQueue) \in Retried /\ Tail(clientRxQueue) \in Seq(Retried)
    BY <1>1, QueueEnds DEF ClientInv, ReceiveForDispatch
  <2> QED BY <1>1, <2>1 DEF ClientInv, ReceiveForDispatch
<1>2. CASE ForwardEvent /\ Dispatch
  <2> DEFINE m == dispatchEvent
  <2>1. m \in Retried /\ m.type \in Departments /\ m.priority \in Priorities
    BY <1>2, RetriedIds DEF ClientInv, ForwardEvent, EventMessage
  <2>2. priorityQueues[m.type][m.priority] \in Seq(Retried)
    BY <2>1 DEF ClientInv
  <2>3. Append(priorityQueues[m.type][m.priority], m) \in Seq(Retried)
    BY <2>1, <2>2
  <2>4. priorityQueues' \in [Departments -> [Priorities -> Seq(Retried)]]
    BY <1>2, <2>1, <2>3 DEF ClientInv, Dispatch, EventDispatched
  <2> QED BY <1>2, <2>4 DEF ClientInv, Dispatch, EventDispatched
<1>3. CASE ForwardEvent /\ DropUndispatched
  <2>1. dispatchEvent.eventId \in Ids
    BY <1>3, RetriedIds DEF ClientInv, ForwardEvent
  <2> QED BY <1>3, <2>1 DEF ClientInv, DropUndispatched
<1> QED BY <1>1, <1>2, <1>3 DEF ClientDispatcherTask, ForwardEvent

\* The fault manager puts back one more attempt, or reports the last one.
LEMMA FaultManagerTaskInv ==
  ASSUME ClientInv, DepartmentInv', FaultManagerTask
  PROVE  ClientInv'
<1> USE DEF departmentVars, vars, queueVars, recordVars, taskVars,
            managerVars, rxVars, faultVars, clientCounters, doneCounters,
            historyVars
<1>1. CASE RetryEvent
  <2>1. Head(faultQueue) \in Retried /\ Tail(faultQueue) \in Seq(Retried)
    BY <1>1, QueueEnds DEF ClientInv, RetryEvent, FaultReceived
  <2>2. faultEvent' \in Retried /\ faultEvent' # None
    BY <1>1, <2>1, RetryAgain, RetriedAreArrivals DEF RetryEvent
  <2> QED BY <1>1, <2>1, <2>2 DEF ClientInv, RetryEvent, FaultReceived
<1>2. CASE RequeueEvent
  <2>1. faultEvent \in Retried
    BY <1>2 DEF ClientInv, RequeueEvent
  <2>2. clientRxQueue' \in Seq(Retried)
    BY <1>2, <2>1 DEF ClientInv, RequeueEvent
  <2> QED BY <1>2, <2>2 DEF ClientInv, RequeueEvent
<1>3. CASE DropRetry
  <2>1. faultEvent.eventId \in Ids
    BY <1>3, RetriedIds DEF ClientInv, DropRetry
  <2> QED BY <1>3, <2>1 DEF ClientInv, DropRetry
<1>4. CASE GiveUp
  <2>1. Head(faultQueue) \in Retried /\ Tail(faultQueue) \in Seq(Retried)
    BY <1>4, QueueEnds DEF ClientInv, GiveUp, FaultReceived
  <2>2. Head(faultQueue) # None
    BY <2>1, RetriedAreArrivals
  <2>3. Head(faultQueue).retryCount = MAX_EVENT_RETRIES
    <3>1. Head(faultQueue).retryCount \in 0 .. MAX_EVENT_RETRIES
      BY <2>1, RetriedIds DEF EventMessage
    <3> QED BY <1>4, <3>1, MessagesAssumption DEF GiveUp
  <2> QED BY <1>4, <2>1, <2>2, <2>3 DEF ClientInv, GiveUp, FaultReceived
<1>5. CASE SendFailureCompletion
  <2>1. faultEvent.eventId \in Ids
    BY <1>5, RetriedIds DEF ClientInv, SendFailureCompletion
  <2>2. replies' \in [Ids -> Seq(ClientMessage)]
    BY <1>5, <2>1, Datagrams, SendKeepsType DEF SendFailureCompletion, Outcomes
  <2> QED BY <1>5, <2>2 DEF ClientInv, SendFailureCompletion
<1> QED BY <1>1, <1>2, <1>3, <1>4, <1>5 DEF FaultManagerTask

\* A shift manager touches no message.
LEMMA ShiftManagerInv ==
  ASSUME ClientInv, DepartmentInv', NEW d \in Departments, ShiftManager(d)
  PROVE  ClientInv'
<1>1. UNCHANGED <<queueVars, taskVars>>
  BY DEF ShiftManager, ShiftManagerTask, CountPendingDepartmentEvents,
         CountAvailableVehicles, InspectVehicle, CountHighPriorityEvents,
         ShouldInterruptVehicle, SetVehicleBreak, SetBreakBit,
         ClearVehicleBreak, ClearBreakBit, NextMonitoringCycle
<1> QED BY <1>1 DEF ShiftManager, ClientInv, queueVars, taskVars, rxVars,
                    faultVars, clientCounters, doneCounters, historyVars

\* What a vehicle's step changes among the client's variables: its message is
\* taken from a queue, passed on or reported.
LEMMA VehicleInv ==
  ASSUME ClientInv, DepartmentInv', NEW v \in Vehicles, Vehicle(v)
  PROVE  ClientInv'
<1> USE DEF queueVars, recordVars, taskVars, managerVars, rxVars, faultVars,
            clientCounters, doneCounters, historyVars, GoTo, HoldingOutcome
<1>0. /\ vpc \in [Vehicles -> {"check", "receive"} \cup HoldingEvent]
      /\ result \in [Vehicles -> Outcomes \cup {STATUS_PENDING}]
      /\ level \in [Vehicles -> Priorities]
      /\ message[v] # None <=> vpc[v] \in HoldingEvent
  BY DEF ClientInv, DepartmentInv, TypeOK, TaskKnows
<1> DEFINE Verdicts == \A w \in Vehicles :
             vpc[w] \in HoldingOutcome => result[w] \in Outcomes
<1>1. CASE DriveVehicle(v)
  <2> USE DEF DriveVehicle
  <2>1. CASE ReceiveEvent(v)
    <3> DEFINE queue == priorityQueues[v[1]][level[v]]
    <3>1. v[1] \in Departments /\ level[v] \in Priorities
      BY <1>0, VehicleParts
    <3>2. queue \in Seq(Retried) /\ queue # << >>
      BY <2>1, <3>1 DEF ClientInv, ReceiveEvent
    <3>3. Head(queue) \in Retried /\ Tail(queue) \in Seq(Retried)
      BY <3>2, QueueEnds
    <3>4. priorityQueues' \in [Departments -> [Priorities -> Seq(Retried)]]
      BY <2>1, <3>1, <3>3 DEF ClientInv, ReceiveEvent
    <3>5. message' \in [Vehicles -> Retried \cup {None}]
      BY <2>1, <3>3 DEF ClientInv, ReceiveEvent
    <3>6. Verdicts'
      BY <1>0, <2>1 DEF ClientInv, ReceiveEvent
    <3> QED BY <1>1, <2>1, <3>4, <3>5, <3>6 DEF ClientInv, ReceiveEvent
  <2>2. CASE SendFailedEventToFaultManager(v)
    <3>1. message[v] \in Retried
      BY <1>0, <2>2
      DEF ClientInv, SendFailedEventToFaultManager, ReportDone, HoldingEvent
    <3>2. faultQueue' \in Seq(Retried)
      BY <2>2, <3>1 DEF ClientInv, SendFailedEventToFaultManager
    <3>3. Verdicts'
      BY <1>0, <2>2 DEF ClientInv, SendFailedEventToFaultManager, ReportDone
    <3>4. message' \in [Vehicles -> Retried \cup {None}]
      BY <2>2 DEF ClientInv, SendFailedEventToFaultManager, ReportDone
    <3> QED BY <1>1, <2>2, <3>2, <3>3, <3>4
            DEF ClientInv, SendFailedEventToFaultManager, ReportDone
  <2>3. CASE \/ CheckStatus(v) \/ ReceiveTimeout(v) \/ SetVehicleCurrentEvent(v)
             \/ StartProcessing(v) \/ ProcessSecond(v) \/ ReleaseVehicle(v)
             \/ ClearVehicleCurrentEvent(v)
    <3> USE DEF CheckStatus, ReceiveTimeout, SetVehicleCurrentEvent,
                StartProcessing, ProcessSecond, ReleaseVehicle,
                ClearVehicleCurrentEvent
    <3>1. Verdicts'
      BY <1>0, <2>3 DEF ClientInv
    <3>2. UNCHANGED <<priorityQueues, faultQueue, message>>
      BY <2>3
    <3> QED BY <1>1, <3>1, <3>2 DEF ClientInv
  <2> QED BY <1>1, <2>1, <2>2, <2>3
<1>2. CASE CancelEvent(v)
  <2>1. Verdicts'
    BY <1>0, <1>2 DEF ClientInv, CancelEvent, AbortProcessing, Outcomes
  <2> QED BY <1>2, <2>1 DEF ClientInv, CancelEvent, AbortProcessing
<1>3. CASE FinishEvent(v)
  <2>1. Verdicts'
    BY <1>0, <1>3 DEF ClientInv, FinishEvent, FinishProcessing, Outcomes
  <2> QED BY <1>3, <2>1 DEF ClientInv, FinishEvent, FinishProcessing
<1>4. CASE ReportOutcome(v) \/ DropFailed(v)
  <2> USE DEF ReportOutcome, DropFailed, SendCompletionMessage,
              LoseFailedEvent, ReportDone
  <2>1. message[v] \in Retried /\ result[v] \in Outcomes
    BY <1>0, <1>4 DEF ClientInv, HoldingEvent
  <2>2. message[v].eventId \in Ids
    BY <2>1, RetriedIds
  <2>3. replies' \in [Ids -> Seq(ClientMessage)] /\ dropped' \subseteq Ids
    BY <1>4, <2>1, <2>2, Datagrams, SendKeepsType DEF ClientInv
  <2>4. Verdicts'
    BY <1>0, <1>4 DEF ClientInv
  <2>5. message' \in [Vehicles -> Retried \cup {None}]
    BY <1>4 DEF ClientInv
  <2> QED BY <1>4, <2>3, <2>4, <2>5 DEF ClientInv
<1> QED BY <1>1, <1>2, <1>3, <1>4 DEF Vehicle

-----------------------------------------------------------------------------
(* The client implements Department's environment *)

\* A client that starts holds nothing.
LEMMA ClientInitInv == ClientInit => ClientInv
BY DepartmentInit DEF ClientInit, Init, ClientInv, HoldingOutcome, Ids

\* Every step of the client keeps the invariant.
LEMMA ClientStep == ClientInv /\ [ClientNext]_clientVars => ClientInv'
<1> SUFFICES ASSUME ClientInv, [ClientNext]_clientVars PROVE ClientInv'
  OBVIOUS
<1>1. DepartmentInv'
  BY DepartmentMoves, DepartmentStep DEF ClientInv
<1>2. CASE UNCHANGED clientVars
  BY <1>1, <1>2
  DEF ClientInv, clientVars, departmentVars, vars, queueVars, recordVars,
      taskVars, managerVars, rxVars, faultVars, clientCounters, doneCounters,
      historyVars
<1> QED BY <1>1, <1>2, ServerSendsInv, ClientUdpRxTaskInv,
           ClientDispatcherTaskInv, FaultManagerTaskInv, VehicleInv,
           ShiftManagerInv
        DEF ClientNext, ClientTasks

\* What the client's tasks hold and know, at each of their steps, is always so.
THEOREM ClientInvariant == ClientSpec => []ClientInv
BY ClientInitInv, ClientStep, PTL DEF ClientSpec

\* Every variable of the client keeps its type.
THEOREM ClientTypeCorrect == ClientSpec => []ClientTypeOK
<1>1. ClientInv => ClientTypeOK
  <2>1. Retried \subseteq EventMessage /\ Events \subseteq EventMessage
    BY RetriedAreArrivals
  <2>2. Seq(Retried) \subseteq Seq(EventMessage) /\ Seq(Events) \subseteq Seq(EventMessage)
    BY <2>1
  <2> QED BY <2>1, <2>2 DEF ClientInv, ClientTypeOK, DepartmentInv
<1> QED BY <1>1, ClientInvariant, PTL

\* The receive task, the dispatcher and the fault manager are an environment
\* that module Department allows, ...
THEOREM ClientImplementsDepartment == ClientSpec => ImplementsDepartment
<1>1. ClientInit => Init
  BY DEF ClientInit
<1>2. ClientInv /\ [ClientNext]_clientVars => [Next]_vars
  BY DepartmentMoves
<1> QED BY <1>1, <1>2, ClientInvariant, PTL
        DEF ClientSpec, ImplementsDepartment, SafetySpec

\* ... so that what is proved of the departments holds in the client.
THEOREM DepartmentsInTheClient ==
  ClientSpec => [](TypeOK /\ BreakIsMonitored /\ BusyShowsItsEvent)
<1>1. DepartmentInv => TypeOK /\ BreakIsMonitored /\ BusyShowsItsEvent
  BY DEF DepartmentInv, TaskKnows, BusyShowsItsEvent, HoldingEvent, VEHICLE_BUSY
<1> QED BY <1>1, ClientImplementsDepartment, DepartmentInvariant, PTL
        DEF ImplementsDepartment
=============================================================================
