------------------------------- MODULE System -------------------------------
(***************************************************************************)
(* The whole program: the client of module Client and the server of module *)
(* Server, over the two UDP sockets, in the first run of the server.  Its  *)
(* shutdown and restart, during which the client just goes on, are in      *)
(* module Server.                                                          *)
(*                                                                         *)
(* A step is a step of one process.  Where it sends, the datagram joins    *)
(* the other side's socket buffer or is lost.  Each module has an          *)
(* environment of its own that stands for the other side; no step here is  *)
(* taken from it, and that the real other side does what it allows is      *)
(* what ImplementsClient and ImplementsServer say.                         *)
(***************************************************************************)
EXTENDS Client, SequencesExt

CONSTANTS SERVER_TX_QUEUE_LENGTH, Templates, DatabaseMayFail, UintRange,
          MaxEvents

\* The constants of module Server; the client's events are those its generator
\* can make.
ASSUME SystemAssumption ==
  /\ SERVER_TX_QUEUE_LENGTH \in Nat \ {0}
  /\ Templates \subseteq Departments \X Priorities
  /\ DatabaseMayFail \in BOOLEAN
  /\ UintRange \in Nat \ {0}
  /\ MaxEvents \in Nat
  /\ Events = {[eventId |-> id, type |-> t[1], priority |-> t[2],
                retryCount |-> 0] : id \in 1 .. MaxEvents, t \in Templates}
  /\ None \notin ClientMessage \cup ({1} \X ClientMessage)

VARIABLES
  stage, nextEventId, gpc, event, serverUdpTxQueue, txEvent, rxCompletion,
  eventsGenerated, acksReceived, completionsReceived, outcomeCount, rows, missed,
  serverSocket   \* datagrams in the server's socket buffer

serverVars == <<stage, nextEventId, gpc, event, serverUdpTxQueue, txEvent,
                rxCompletion, eventsGenerated, acksReceived,
                completionsReceived, outcomeCount, rows, missed>>

systemVars == <<clientVars, serverVars, serverSocket>>

\* Module Server pairs a datagram with the run it belongs to: always the first.
FirstRun(datagrams) == [n \in DOMAIN datagrams |-> <<1, datagrams[n]>>]

\* Received, and the acknowledgement still to be sent.
Unacknowledged == IF rxpc = "ack" THEN {<<1, rxEvent.eventId>>} ELSE {}

\* Acknowledged, and a completion may still be sent.
InWork == {<<1, id>> : id \in {k \in Ids \ dropped : replies[k] = <<Ack(k)>>}}

Srv == INSTANCE Server WITH
         MaxRuns        <- 1,
         run            <- 1,
         toClient       <- FirstRun(clientSocket),
         toServer       <- FirstRun(serverSocket),
         unacknowledged <- Unacknowledged,
         inWork         <- InWork

SystemInit ==
  /\ ClientInit
  /\ serverSocket = << >>
  /\ Srv!Init

\* What a step of the client has sent: nothing or one datagram.
Sent == {Last(replies'[id]) : id \in {k \in Ids : replies'[k] # replies[k]}}

\* What the server sees of a step of the client.
ServerHears ==
  /\ UNCHANGED serverVars
  /\ IF Sent = {}
     THEN UNCHANGED serverSocket
     ELSE \E datagram \in Sent :
            serverSocket' \in AfterSendto(serverSocket, datagram)

\* The tasks of the server; what the client sees of them is at most a datagram.
ServerGenerates ==
  /\ UNCHANGED <<clientVars, serverSocket>>
  /\ Srv!ServerEventGeneratorTask

ServerTakes ==
  /\ UNCHANGED <<clientVars, serverSocket>>
  /\ Srv!TakeEvent

ServerTransmits ==
  /\ txEvent # None
  /\ clientSocket' \in AfterSendto(clientSocket, txEvent)
  /\ sent' = IF clientSocket' = clientSocket THEN sent ELSE sent \cup {txEvent}
  /\ UNCHANGED <<departmentVars, rxpc, rxEvent, clientRxQueue, dispatchEvent,
                 faultVars, clientCounters, historyVars, serverSocket>>
  /\ Srv!ServerUdpSendMessage

ServerReceives ==
  /\ serverSocket # << >>
  /\ serverSocket' = Tail(serverSocket)
  /\ UNCHANGED clientVars
  /\ Srv!ReceiveAck \/ Srv!ReceiveCompletion

ServerRecords ==
  /\ UNCHANGED <<clientVars, serverSocket>>
  /\ Srv!DatabaseUpdateCompletion

SystemNext ==
  \/ ClientTasks /\ ServerHears
  \/ ServerGenerates
  \/ ServerTakes \/ ServerTransmits
  \/ ServerReceives \/ ServerRecords

\* The tasks of both processes are scheduled as those of the client are in
\* module Client.  Nothing is assumed of the network.
SystemFairness ==
  /\ WF_systemVars(ServerGenerates)
  /\ WF_systemVars(ServerTakes \/ ServerTransmits)
  /\ WF_systemVars(ServerReceives \/ ServerRecords)
  /\ WF_systemVars(ClientUdpRxTask /\ ServerHears)
  /\ WF_systemVars(ClientDispatcherTask /\ ServerHears)
  /\ WF_systemVars(FaultManagerTask /\ ServerHears)
  /\ \A v \in Vehicles :
       /\ WF_systemVars(Vehicle(v) /\ ServerHears)
       /\ SF_systemVars(CheckStatus(v) /\ DriveVehicle(v) /\ ServerHears)
  /\ \A d \in Departments : WF_systemVars(ShiftManager(d) /\ ServerHears)

SystemSpec == SystemInit /\ [][SystemNext]_systemVars /\ SystemFairness
-----------------------------------------------------------------------------
(* Properties *)

(***************************************************************************)
(* What the table says happened to an event is what the client reported,   *)
(* though the report was decided three tasks, a queue and a datagram       *)
(* earlier, and rows are found by number alone.                            *)
(***************************************************************************)
RecordedOutcomeIsReported ==
  \A id \in DOMAIN rows :
    rows[id] # STATUS_PENDING => rows[id] \in Reported(id)

(***************************************************************************)
(* The statistics of the two processes fit together at any moment: nothing *)
(* is acknowledged before it is received or received before it is          *)
(* generated, and of each outcome the server has counted no more than the  *)
(* client; what is missing was lost or is under way.                       *)
(***************************************************************************)
StatisticsAgree ==
  /\ acksReceived <= received
  /\ received <= eventsGenerated
  /\ outcomeCount[STATUS_COMPLETED] <= completed
  /\ outcomeCount[STATUS_FAILED] <= failed
  /\ outcomeCount[STATUS_CANCELLED] <= cancelled

(***************************************************************************)
(* The server's transmit task does to the client only what the network of  *)
(* module Client does: no event comes twice, whatever is queued or lost.   *)
(***************************************************************************)
ImplementsClient == ClientInit /\ [][ClientNext]_clientVars

(***************************************************************************)
(* The client is the client module Server assumes: it acknowledges what it *)
(* has received, then completes or drops it, once, although six tasks and  *)
(* the fault manager's retries are behind that.                            *)
(***************************************************************************)
ImplementsServer == Srv!Spec

\* Where an event, or a message about it, can be between the two tables.
UnderWay ==
  {m.eventId : m \in Range(serverUdpTxQueue) \cup Range(clientSocket)
                     \cup Range(serverSocket)
                     \cup ({event, txEvent} \ {None})}
    \cup HeldIds
    \cup (IF rxCompletion = None THEN {} ELSE {rxCompletion[2].eventId})

(***************************************************************************)
(* Every event comes to rest: generated, queued, sent, dispatched, tried   *)
(* again, reported and recorded, or dropped or lost anywhere on that way,  *)
(* nothing about it stays in a queue, a socket or a task for ever.         *)
(***************************************************************************)
EveryEventComesToRest == \A id \in Ids : [](<>(id \notin UnderWay))
=============================================================================
