------------------------------- MODULE Client -------------------------------
(***************************************************************************)
(* The client process (Src/client.c): the UDP receive task, the            *)
(* dispatcher and the fault manager around the departments of module       *)
(* Department, with the statistics of PrintClientStatistics.               *)
(*                                                                         *)
(* A vehicle's actions are those of Department, with the counter or the    *)
(* datagram they touch besides.  A counter increment is one instruction in *)
(* the optimised build and belongs to the action that decides on it.  Two  *)
(* history variables, dropped and replies, record what the code leaves no  *)
(* trace of but its log and its datagrams.                                 *)
(***************************************************************************)
EXTENDS Department, FiniteSets

CONSTANT Events  \* the events the server may send in this run of the client

\* The server sends each event with no retries used up.  A retried event must
\* be one of Department's arrivals.
ASSUME ClientAssumption ==
  /\ Events \subseteq EventMessage
  /\ \A m \in Events : m.retryCount = 0
  /\ \A m \in Events : \A retry \in 0 .. MAX_EVENT_RETRIES :
       [m EXCEPT !.retryCount = retry] \in Arrivals

Ids == {m.eventId : m \in Events}

VARIABLES
  sent,          \* the events the server has sent (environment)
  clientSocket,  \* datagrams in the client's socket buffer
  rxpc,          \* where ClientUdpRxTask is
  rxEvent,       \* its udpMessage.payload.event
  clientRxQueue, \* g_clientRxQueue
  dispatchEvent, \* ClientDispatcherTask's message; None while it waits
  fpc,           \* where FaultManagerTask is
  faultEvent,    \* its message
  received,      \* g_clientEventsReceived
  dispatched,    \* g_clientEventsDispatched
  completed,     \* g_clientCompleted
  failed,        \* g_clientFailed
  cancelled,     \* g_clientCancelled
  retries,       \* g_clientRetries
  dropped,       \* history: events given up because a queue stayed full
  replies        \* history: [event id] -> the datagrams sent about it

rxVars         == <<sent, clientSocket, rxpc, rxEvent>>
faultVars      == <<fpc, faultEvent>>
doneCounters   == <<completed, failed, cancelled>>
clientCounters == <<received, dispatched, doneCounters, retries>>
historyVars    == <<dropped, replies>>
departmentVars == vars
clientVars     == <<departmentVars, rxVars, clientRxQueue, dispatchEvent,
                    faultVars, clientCounters, historyVars>>

ClientInit ==
  /\ Init
  /\ sent = {}
  /\ clientSocket = << >>
  /\ rxpc = "receive"
  /\ rxEvent = None
  /\ clientRxQueue = << >>
  /\ dispatchEvent = None
  /\ fpc = "receive"
  /\ faultEvent = None
  /\ received = 0
  /\ dispatched = 0
  /\ completed = 0
  /\ failed = 0
  /\ cancelled = 0
  /\ retries = 0
  /\ dropped = {}
  /\ replies = [id \in Ids |-> << >>]

\* ClientUdpSendMessage: whether the datagram arrives is not the client's
\* concern, it neither waits for an answer nor looks at the result.
Send(datagram) ==
  replies' = [replies EXCEPT ![datagram.eventId] = Append(@, datagram)]

-----------------------------------------------------------------------------
(* Slips a programmer could make in the code below, as in Department. *)

\* xQueueSend without waiting, its result ignored.
EnqueueWithoutWaiting ==
  /\ rxpc = "enqueue"
  /\ clientRxQueue' = IF Len(clientRxQueue) < CLIENT_RX_QUEUE_LENGTH
                      THEN Append(clientRxQueue, rxEvent)
                      ELSE clientRxQueue
  /\ rxEvent' = None
  /\ rxpc' = "receive"
  /\ UNCHANGED <<departmentVars, sent, clientSocket, dispatchEvent, faultVars,
                 clientCounters, historyVars>>

\* The acknowledgement is forgotten.
ReceiveWithoutAck ==
  /\ rxpc = "receive"
  /\ clientSocket # << >>
  /\ rxEvent' = Head(clientSocket)
  /\ clientSocket' = Tail(clientSocket)
  /\ received' = received + 1
  /\ rxpc' = "enqueue"
  /\ UNCHANGED <<departmentVars, sent, clientRxQueue, dispatchEvent, faultVars,
                 dispatched, doneCounters, retries, historyVars>>

\* g_clientCompleted counts every event processed to the end.
CountEveryFinish(v) ==
  /\ FinishProcessing(v)
  /\ completed' = completed + 1
  /\ UNCHANGED <<rxVars, clientRxQueue, dispatchEvent, faultVars, received,
                 dispatched, failed, cancelled, retries, historyVars>>

\* message.retryCount <= MAX_EVENT_RETRIES
RetryOnceTooOften ==
  /\ fpc = "receive"
  /\ FaultReceived
  /\ Head(faultQueue).retryCount <= MAX_EVENT_RETRIES
  /\ faultEvent' = [Head(faultQueue) EXCEPT !.retryCount = @ + 1]
  /\ retries' = retries + 1
  /\ fpc' = "requeue"
  /\ UNCHANGED <<rxVars, clientRxQueue, dispatchEvent, received, dispatched,
                 doneCounters, historyVars>>

\* Every failed attempt is reported, not only the last one.
RequeueAndReport ==
  /\ fpc = "requeue"
  /\ Len(clientRxQueue) < CLIENT_RX_QUEUE_LENGTH
  /\ clientRxQueue' = Append(clientRxQueue, faultEvent)
  /\ Send(Completion(faultEvent.eventId, STATUS_FAILED))
  /\ faultEvent' = None
  /\ fpc' = "receive"
  /\ UNCHANGED <<departmentVars, rxVars, dispatchEvent, clientCounters,
                 dropped>>

\* The retry count is not looked at.
GiveUpAtOnce ==
  /\ fpc = "receive"
  /\ FaultReceived
  /\ faultEvent' = Head(faultQueue)
  /\ failed' = failed + 1
  /\ fpc' = "report"
  /\ UNCHANGED <<rxVars, clientRxQueue, dispatchEvent, received, dispatched,
                 completed, cancelled, retries, historyVars>>

-----------------------------------------------------------------------------
(* ClientUdpRxTask *)

\* The server, which numbers its events one by one, sends the next one and the
\* datagram survives the network.
ServerSends(m) ==
  /\ m.eventId \notin {n.eventId : n \in sent}
  /\ Len(clientSocket) < SocketCapacity
  /\ sent' = sent \cup {m}
  /\ clientSocket' = Append(clientSocket, m)
  /\ UNCHANGED <<departmentVars, rxpc, rxEvent, clientRxQueue, dispatchEvent,
                 faultVars, clientCounters, historyVars>>

ClientUdpReceiveMessage ==
  /\ rxpc = "receive"
  /\ clientSocket # << >>
  /\ rxEvent' = Head(clientSocket)
  /\ clientSocket' = Tail(clientSocket)
  /\ received' = received + 1
  /\ rxpc' = "ack"
  /\ UNCHANGED <<departmentVars, sent, clientRxQueue, dispatchEvent, faultVars,
                 dispatched, doneCounters, retries, historyVars>>

SendAck ==
  /\ rxpc = "ack"
  /\ Send(Ack(rxEvent.eventId))
  /\ rxpc' = "enqueue"
  /\ UNCHANGED <<departmentVars, sent, clientSocket, rxEvent, clientRxQueue,
                 dispatchEvent, faultVars, clientCounters, dropped>>

\* xQueueSend with portMAX_DELAY: the task waits for room as long as it takes.
EnqueueEvent ==
  /\ rxpc = "enqueue"
  /\ Len(clientRxQueue) < CLIENT_RX_QUEUE_LENGTH
  /\ clientRxQueue' = Append(clientRxQueue, rxEvent)
  /\ rxEvent' = None
  /\ rxpc' = "receive"
  /\ UNCHANGED <<departmentVars, sent, clientSocket, dispatchEvent, faultVars,
                 clientCounters, historyVars>>

ClientUdpRxTask == ClientUdpReceiveMessage \/ SendAck \/ EnqueueEvent

-----------------------------------------------------------------------------
(* ClientDispatcherTask *)

ReceiveForDispatch ==
  /\ dispatchEvent = None
  /\ clientRxQueue # << >>
  /\ dispatchEvent' = Head(clientRxQueue)
  /\ clientRxQueue' = Tail(clientRxQueue)
  /\ UNCHANGED <<departmentVars, rxVars, faultVars, clientCounters,
                 historyVars>>

Dispatch ==
  /\ EventDispatched(dispatchEvent)
  /\ dispatched' = dispatched + 1
  /\ dispatchEvent' = None
  /\ UNCHANGED <<rxVars, clientRxQueue, faultVars, received, doneCounters,
                 retries, historyVars>>

\* The department queue stays full for 100 ms.
DropUndispatched ==
  /\ Len(priorityQueues[dispatchEvent.type][dispatchEvent.priority])
       = DEPARTMENT_QUEUE_LENGTH
  /\ dropped' = dropped \cup {dispatchEvent.eventId}
  /\ dispatchEvent' = None
  /\ UNCHANGED <<departmentVars, rxVars, clientRxQueue, faultVars,
                 clientCounters, replies>>

ForwardEvent ==
  /\ dispatchEvent # None
  /\ Dispatch \/ DropUndispatched

ClientDispatcherTask == ReceiveForDispatch \/ ForwardEvent

-----------------------------------------------------------------------------
(* VehicleTask: the steps of Department, the ones that decide on an outcome *)
(* with its counter, the last one with what becomes of the event.           *)

\* Steps that touch nothing outside the department.
DriveVehicle(v) ==
  /\ \/ CheckStatus(v)
     \/ ReceiveEvent(v)
     \/ ReceiveTimeout(v)
     \/ SetVehicleCurrentEvent(v)
     \/ StartProcessing(v)
     \/ ProcessSecond(v)
     \/ ReleaseVehicle(v)
     \/ ClearVehicleCurrentEvent(v)
     \/ SendFailedEventToFaultManager(v)
  /\ UNCHANGED <<rxVars, clientRxQueue, dispatchEvent, faultVars,
                 clientCounters, historyVars>>

CancelEvent(v) ==
  /\ AbortProcessing(v)
  /\ cancelled' = cancelled + 1
  /\ UNCHANGED <<rxVars, clientRxQueue, dispatchEvent, faultVars, received,
                 dispatched, completed, failed, retries, historyVars>>

\* STATUS_FAILED changes no counter: it is not final yet.
FinishEvent(v) ==
  /\ FinishProcessing(v)
  /\ completed' = IF result'[v] = STATUS_COMPLETED THEN completed + 1
                                                   ELSE completed
  /\ UNCHANGED <<rxVars, clientRxQueue, dispatchEvent, faultVars, received,
                 dispatched, failed, cancelled, retries, historyVars>>

ReportOutcome(v) ==
  /\ SendCompletionMessage(v)
  /\ Send(Completion(message[v].eventId, result[v]))
  /\ UNCHANGED <<rxVars, clientRxQueue, dispatchEvent, faultVars,
                 clientCounters, dropped>>

DropFailed(v) ==
  /\ LoseFailedEvent(v)
  /\ dropped' = dropped \cup {message[v].eventId}
  /\ UNCHANGED <<rxVars, clientRxQueue, dispatchEvent, faultVars,
                 clientCounters, replies>>

Vehicle(v) ==
  \/ DriveVehicle(v)
  \/ CancelEvent(v)
  \/ FinishEvent(v)
  \/ ReportOutcome(v)
  \/ DropFailed(v)

ShiftManager(d) ==
  /\ ShiftManagerTask(d)
  /\ UNCHANGED <<rxVars, clientRxQueue, dispatchEvent, faultVars,
                 clientCounters, historyVars>>

-----------------------------------------------------------------------------
(* FaultManagerTask *)

\* An attempt remains: it is used up before the event is put back.
RetryEvent ==
  /\ fpc = "receive"
  /\ FaultReceived
  /\ Head(faultQueue).retryCount < MAX_EVENT_RETRIES
  /\ faultEvent' = [Head(faultQueue) EXCEPT !.retryCount = @ + 1]
  /\ retries' = retries + 1
  /\ fpc' = "requeue"
  /\ UNCHANGED <<rxVars, clientRxQueue, dispatchEvent, received, dispatched,
                 doneCounters, historyVars>>

RequeueEvent ==
  /\ fpc = "requeue"
  /\ Len(clientRxQueue) < CLIENT_RX_QUEUE_LENGTH
  /\ clientRxQueue' = Append(clientRxQueue, faultEvent)
  /\ faultEvent' = None
  /\ fpc' = "receive"
  /\ UNCHANGED <<departmentVars, rxVars, dispatchEvent, clientCounters,
                 historyVars>>

\* The receive queue stays full for 100 ms: "failed to requeue".
DropRetry ==
  /\ fpc = "requeue"
  /\ Len(clientRxQueue) = CLIENT_RX_QUEUE_LENGTH
  /\ dropped' = dropped \cup {faultEvent.eventId}
  /\ faultEvent' = None
  /\ fpc' = "receive"
  /\ UNCHANGED <<departmentVars, rxVars, clientRxQueue, dispatchEvent,
                 clientCounters, replies>>

\* No attempt remains.
GiveUp ==
  /\ fpc = "receive"
  /\ FaultReceived
  /\ Head(faultQueue).retryCount >= MAX_EVENT_RETRIES
  /\ faultEvent' = Head(faultQueue)
  /\ failed' = failed + 1
  /\ fpc' = "report"
  /\ UNCHANGED <<rxVars, clientRxQueue, dispatchEvent, received, dispatched,
                 completed, cancelled, retries, historyVars>>

SendFailureCompletion ==
  /\ fpc = "report"
  /\ Send(Completion(faultEvent.eventId, STATUS_FAILED))
  /\ faultEvent' = None
  /\ fpc' = "receive"
  /\ UNCHANGED <<departmentVars, rxVars, clientRxQueue, dispatchEvent,
                 clientCounters, dropped>>

FaultManagerTask ==
  RetryEvent \/ RequeueEvent \/ DropRetry \/ GiveUp \/ SendFailureCompletion

-----------------------------------------------------------------------------
ClientTasks ==
  \/ ClientUdpRxTask
  \/ ClientDispatcherTask
  \/ FaultManagerTask
  \/ \E v \in Vehicles : Vehicle(v)
  \/ \E d \in Departments : ShiftManager(d)

ClientNext == ClientTasks \/ \E m \in Events : ServerSends(m)

(***************************************************************************)
(* Every task keeps running (weak fairness) and CheckStatus is fair as in  *)
(* module Department.  A task that waits with a time limit may give up     *)
(* whenever the queue is full (or empty); nothing makes it give up.        *)
(***************************************************************************)
ClientFairness ==
  /\ WF_clientVars(ClientUdpRxTask)
  /\ WF_clientVars(ClientDispatcherTask)
  /\ WF_clientVars(FaultManagerTask)
  /\ \A v \in Vehicles :
       /\ WF_clientVars(Vehicle(v))
       /\ SF_clientVars(CheckStatus(v) /\ DriveVehicle(v))
  /\ \A d \in Departments : WF_clientVars(ShiftManager(d))

ClientSpec == ClientInit /\ [][ClientNext]_clientVars /\ ClientFairness
-----------------------------------------------------------------------------
(* Properties *)

ClientTypeOK ==
  /\ TypeOK
  /\ sent \subseteq Events
  /\ clientSocket \in Seq(EventMessage)
  /\ rxpc \in {"receive", "ack", "enqueue"}
  /\ rxEvent \in EventMessage \cup {None}
  /\ clientRxQueue \in Seq(EventMessage)
  /\ dispatchEvent \in EventMessage \cup {None}
  /\ fpc \in {"receive", "requeue", "report"}
  /\ faultEvent \in EventMessage \cup {None}
  /\ received \in Nat
  /\ dispatched \in Nat
  /\ completed \in Nat
  /\ failed \in Nat
  /\ cancelled \in Nat
  /\ retries \in Nat
  /\ dropped \subseteq Ids
  /\ replies \in [Ids -> Seq(ClientMessage)]

\* The variables that hold events: locals of the tasks, and the queues.
Places ==
  {<<"rx">>, <<"rxQueue">>, <<"dispatcher">>, <<"faultQueue">>,
   <<"faultManager">>}
    \cup {<<"queue", d, p>> : d \in Departments, p \in Priorities}
    \cup {<<"vehicle", v>> : v \in Vehicles}

Buffer(event) == IF event = None THEN << >> ELSE <<event>>

Contents(place) ==
  CASE place[1] = "rx"           -> Buffer(rxEvent)
    [] place[1] = "rxQueue"      -> clientRxQueue
    [] place[1] = "dispatcher"   -> Buffer(dispatchEvent)
    [] place[1] = "queue"        -> priorityQueues[place[2]][place[3]]
    [] place[1] = "vehicle"      -> Buffer(message[place[2]])
    [] place[1] = "faultQueue"   -> faultQueue
    [] place[1] = "faultManager" -> Buffer(faultEvent)

\* Every copy of an event in the client: its place, where in that place, and
\* the message itself.
AllCopies ==
  UNION {{<<place, n, Contents(place)[n]>> : n \in DOMAIN Contents(place)} :
           place \in Places}

Copies(id) == {copy \in AllCopies : copy[3].eventId = id}

HeldIds == {copy[3].eventId : copy \in AllCopies}

\* The outcomes reported to the server for event id.
Reported(id) ==
  {replies[id][n].status : n \in {k \in DOMAIN replies[id] :
                                   replies[id][k].type = MESSAGE_COMPLETION}}

ReportedIds == {id \in Ids : Reported(id) # {}}

\* Events already counted as completed or cancelled (by their vehicle) or
\* failed (by the fault manager), with the completion message still to send.
DecidedIds ==
  {message[v].eventId : v \in {w \in Vehicles :
       result[w] \in {STATUS_COMPLETED, STATUS_CANCELLED}}}
    \cup (IF fpc = "report" THEN {faultEvent.eventId} ELSE {})

\* The client holds at most one copy of an event.
OneCopyEach ==
  \A x, y \in AllCopies : x[3].eventId = y[3].eventId => x = y

(***************************************************************************)
(* No event is duplicated or vanishes on its way through eight tasks and   *)
(* their queues: the client holds at most one copy of it, and from the     *)
(* acknowledgement on it is either held, or was given up with a log line,  *)
(* or its outcome was reported; never two of these.                        *)
(***************************************************************************)
EventConserved ==
  /\ OneCopyEach
  /\ \A id \in Ids :
       LET held == id \in HeldIds
           reported == Reported(id) # {}
       IN replies[id] # << >> =>
            /\ held \/ id \in dropped \/ reported
            /\ id \in dropped => ~held /\ ~reported
            /\ reported => ~held

(***************************************************************************)
(* What the server hears of an event is one acknowledgement and after it   *)
(* at most one completion, although the acknowledgement and the completion *)
(* come from different tasks and an event may be processed several times.  *)
(***************************************************************************)
AckThenOneCompletion ==
  \A id \in Ids :
    replies[id] \in
      {<< >>, <<Ack(id)>>}
        \cup {<<Ack(id), Completion(id, outcome)>> : outcome \in Outcomes}

(***************************************************************************)
(* The counters of PrintClientStatistics, whenever they are read together: *)
(* "Pending" is the number of events held without a verdict plus those     *)
(* dropped, which stay pending for ever, so it never underflows; the       *)
(* outcome counters add up to the reports sent or just about to be sent.   *)
(***************************************************************************)
StatisticsBalance ==
  /\ received = completed + failed + cancelled
                  + Cardinality(HeldIds \ DecidedIds) + Cardinality(dropped)
  /\ completed + failed + cancelled
       = Cardinality(ReportedIds) + Cardinality(DecidedIds)
  /\ failed >= Cardinality({id \in Ids : STATUS_FAILED \in Reported(id)})
  /\ dispatched <= received + retries
  /\ retries <= MAX_EVENT_RETRIES * received

\* The client implements the life of an event promised by EventLifecycle.
Fate(id) ==
  IF id \in dropped THEN "lost"
  ELSE IF Reported(id) # {} THEN CHOOSE outcome \in Reported(id) : TRUE
  ELSE IF id \in HeldIds THEN "accepted"
  ELSE "unknown"

RetryCount(id) ==
  LET copies == Copies(id)
  IN IF copies = {} THEN 0 ELSE (CHOOSE copy \in copies : TRUE)[3].retryCount

Lifecycle ==
  INSTANCE EventLifecycle WITH
    fate  <- [id \in Ids |-> Fate(id)],
    tries <- [id \in Ids |-> RetryCount(id)]

(***************************************************************************)
(* Seen from outside, an accepted event is retried at most                 *)
(* MAX_EVENT_RETRIES times and then leaves the client once and for all,    *)
(* as failed only when no retry was left.                                  *)
(***************************************************************************)
ImplementsLifecycle == Lifecycle!SafetySpec

(***************************************************************************)
(* The receive task, the dispatcher and the fault manager together do to   *)
(* the departments nothing but what the environment of module Department   *)
(* may do: what holds of the departments there holds in the client.        *)
(***************************************************************************)
ImplementsDepartment == SafetySpec

(***************************************************************************)
(* Every event the client has received leaves it: whatever queues fill up, *)
(* whatever is interrupted, it is reported or dropped in the end.  The     *)
(* queues form a cycle (dispatcher, departments, faults, dispatcher), and  *)
(* only the receive task, outside the cycle, waits without a time limit.   *)
(***************************************************************************)
EveryEventLeaves == Lifecycle!EveryEventLeaves
=============================================================================
