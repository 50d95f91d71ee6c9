------------------------------- MODULE Server -------------------------------
(***************************************************************************)
(* The server process (Src/server.c, Src/database.c and                    *)
(* Src/event_generator.c): the generator, transmit and receive tasks, the  *)
(* events table, the statistics, shutdown by SIGINT and restart.           *)
(*                                                                         *)
(* The client is an environment that does what module Client is shown to   *)
(* do: it acknowledges an event it has received, and then sends at most    *)
(* one completion for it.  It goes on while the server is down.            *)
(*                                                                         *)
(* Event identifiers start from 1 again in each run of the server.  The    *)
(* number of the run, which no datagram carries, is paired with it here as *)
(* a history, to tell which event a datagram really is about.              *)
(***************************************************************************)
EXTENDS Messages, FiniteSets

CONSTANTS
  SERVER_TX_QUEUE_LENGTH,
  Templates,         \* <<type, priority>> of the templates events are made of
  DatabaseMayFail,   \* whether an SQLite statement may fail
  UintRange,         \* number of values of a uint32_t counter
  MaxEvents,         \* bound: events generated per run
  MaxRuns,           \* bound: times the server is started
  None

ASSUME ServerAssumption ==
  /\ SERVER_TX_QUEUE_LENGTH \in Nat \ {0}
  /\ Templates \subseteq Departments \X Priorities
  /\ DatabaseMayFail \in BOOLEAN
  /\ UintRange \in Nat \ {0}
  /\ MaxEvents \in Nat
  /\ MaxRuns \in Nat \ {0}
  /\ None \notin EventMessage \cup ClientMessage \cup ((1 .. MaxRuns) \X ClientMessage)

VARIABLES
  \* the process and its signal handler
  stage,             \* running, closing or closed (its database) or down
  run,               \* history: how often the server was started
  \* ServerEventGeneratorTask
  nextEventId,       \* g_nextEventId
  gpc,               \* where the task is
  event,             \* its event
  \* ServerUdpTxTask
  serverUdpTxQueue,  \* g_serverUdpTxQueue
  txEvent,           \* the message it has taken
  \* ServerUdpRxTask
  rxCompletion,      \* a completion counted and still to be recorded
  \* statistics
  eventsGenerated, acksReceived, completionsReceived,
  outcomeCount,      \* g_serverCompleted, g_serverFailed, g_serverCancelled
  \* the events table: [event_id] -> status
  rows,
  missed,            \* history: events whose last statement left no trace in it
  \* the network and the client: <<run, message>> and <<run, event id>>
  toClient, toServer, unacknowledged, inWork

processVars == <<stage, run>>
generatorVars == <<nextEventId, gpc, event, eventsGenerated>>
txVars == <<serverUdpTxQueue, txEvent>>
rxVars == <<rxCompletion, acksReceived, completionsReceived, outcomeCount>>
tableVars == <<rows, missed>>
networkVars == <<toClient, toServer>>
clientVars == <<unacknowledged, inWork>>
vars == <<processVars, generatorVars, txVars, rxVars, tableVars, networkVars,
          clientVars>>

NoRows == [id \in {} |-> STATUS_PENDING]

Init ==
  /\ stage = "running"
  /\ run = 1
  /\ nextEventId = 1
  /\ gpc = "create"
  /\ event = None
  /\ serverUdpTxQueue = << >>
  /\ txEvent = None
  /\ rxCompletion = None
  /\ eventsGenerated = 0
  /\ acksReceived = 0
  /\ completionsReceived = 0
  /\ outcomeCount = [outcome \in Outcomes |-> 0]
  /\ rows = NoRows
  /\ missed = {}
  /\ toClient = << >>
  /\ toServer = << >>
  /\ unacknowledged = {}
  /\ inWork = {}

Up == stage # "down"
DatabaseOpen == stage = "running"

\* A statement about event id: it has its effect on the table, or none if it
\* fails or g_database is NULL.  No caller looks at the result.  Of a statement
\* that meets sqlite3_close either may come: one already prepared keeps SQLite
\* from closing, one prepared later uses a handle that is gone (see Exit).
Statement(id, effect) ==
  /\ rows' \in IF stage = "closed" THEN {rows}
               ELSE IF DatabaseMayFail \/ stage = "closing" THEN {rows, effect}
               ELSE {effect}
  /\ missed' = IF rows' = rows THEN missed \cup {id} ELSE missed \ {id}

-----------------------------------------------------------------------------
(* Slips a programmer could make in the code below. *)

\* DatabaseInsertEvent left out.
CreateWithoutRow ==
  /\ Up
  /\ gpc = "create"
  /\ nextEventId <= MaxEvents
  /\ \E template \in Templates :
       event' = [eventId |-> nextEventId, type |-> template[1],
                 priority |-> template[2], retryCount |-> 0]
  /\ nextEventId' = nextEventId + 1
  /\ eventsGenerated' = (eventsGenerated + 1) % UintRange
  /\ gpc' = "queue"
  /\ UNCHANGED <<processVars, txVars, rxVars, tableVars, networkVars, clientVars>>

\* The queue has no bound.
QueueEventAlways ==
  /\ Up
  /\ gpc = "queue"
  /\ serverUdpTxQueue' = Append(serverUdpTxQueue, event)
  /\ event' = None
  /\ gpc' = "create"
  /\ UNCHANGED <<processVars, nextEventId, eventsGenerated, txEvent, rxVars,
                 tableVars, networkVars, clientVars>>

\* xQueuePeek for xQueueReceive: the event stays in the queue.
PeekAtEvent ==
  /\ Up
  /\ txEvent = None
  /\ serverUdpTxQueue # << >>
  /\ txEvent' = Head(serverUdpTxQueue)
  /\ UNCHANGED <<processVars, generatorVars, serverUdpTxQueue, rxVars, tableVars,
                 networkVars, clientVars>>

\* g_serverCompletionsReceived++ under case STATUS_COMPLETED only.
CountOnlyCompleted ==
  /\ Up
  /\ rxCompletion = None
  /\ toServer # << >>
  /\ Head(toServer)[2].type = MESSAGE_COMPLETION
  /\ rxCompletion' = Head(toServer)
  /\ completionsReceived' =
       IF Head(toServer)[2].status = STATUS_COMPLETED
       THEN (completionsReceived + 1) % UintRange ELSE completionsReceived
  /\ outcomeCount' = [outcomeCount EXCEPT ![Head(toServer)[2].status] = @ + 1]
  /\ toServer' = Tail(toServer)
  /\ UNCHANGED <<processVars, generatorVars, txVars, acksReceived, tableVars,
                 toClient, clientVars>>

\* UPDATE without its WHERE clause.
UpdateEveryRow ==
  /\ Up
  /\ rxCompletion # None
  /\ Statement(rxCompletion[2].eventId,
               [id \in DOMAIN rows |-> rxCompletion[2].status])
  /\ rxCompletion' = None
  /\ UNCHANGED <<processVars, generatorVars, txVars, acksReceived,
                 completionsReceived, outcomeCount, networkVars, clientVars>>

\* DatabaseInit without ClearEventsTable.
RestartWithOldTable ==
  /\ stage = "down"
  /\ run < MaxRuns
  /\ stage' = "running"
  /\ run' = run + 1
  /\ nextEventId' = 1
  /\ eventsGenerated' = 0
  /\ acksReceived' = 0
  /\ completionsReceived' = 0
  /\ outcomeCount' = [outcome \in Outcomes |-> 0]
  /\ UNCHANGED <<gpc, event, txVars, rxCompletion, tableVars,
                 networkVars, clientVars>>

-----------------------------------------------------------------------------
(* ServerEventGeneratorTask *)

CreateRandomEvent ==
  /\ Up
  /\ gpc = "create"
  /\ nextEventId <= MaxEvents
  /\ \E template \in Templates :
       event' = [eventId |-> nextEventId, type |-> template[1],
                 priority |-> template[2], retryCount |-> 0]
  /\ nextEventId' = nextEventId + 1
  /\ eventsGenerated' = (eventsGenerated + 1) % UintRange
  /\ gpc' = "insert"
  /\ UNCHANGED <<processVars, txVars, rxVars, tableVars, networkVars, clientVars>>

DatabaseInsertEvent ==
  /\ Up
  /\ gpc = "insert"
  /\ Statement(event.eventId, [id \in DOMAIN rows \cup {event.eventId} |->
                 IF id = event.eventId THEN STATUS_PENDING ELSE rows[id]])
  /\ gpc' = "queue"
  /\ UNCHANGED <<processVars, nextEventId, event, eventsGenerated, txVars,
                 rxVars, networkVars, clientVars>>

QueueEvent ==
  /\ Up
  /\ gpc = "queue"
  /\ Len(serverUdpTxQueue) < SERVER_TX_QUEUE_LENGTH
  /\ serverUdpTxQueue' = Append(serverUdpTxQueue, event)
  /\ event' = None
  /\ gpc' = "create"
  /\ UNCHANGED <<processVars, nextEventId, eventsGenerated, txEvent, rxVars,
                 tableVars, networkVars, clientVars>>

\* The queue stays full for 100 ms; the row stays pending for ever.
DropEvent ==
  /\ Up
  /\ gpc = "queue"
  /\ Len(serverUdpTxQueue) = SERVER_TX_QUEUE_LENGTH
  /\ event' = None
  /\ gpc' = "create"
  /\ UNCHANGED <<processVars, nextEventId, eventsGenerated, txVars, rxVars,
                 tableVars, networkVars, clientVars>>

ServerEventGeneratorTask ==
  CreateRandomEvent \/ DatabaseInsertEvent \/ QueueEvent \/ DropEvent

-----------------------------------------------------------------------------
(* ServerUdpTxTask *)

TakeEvent ==
  /\ Up
  /\ txEvent = None
  /\ serverUdpTxQueue # << >>
  /\ txEvent' = Head(serverUdpTxQueue)
  /\ serverUdpTxQueue' = Tail(serverUdpTxQueue)
  /\ UNCHANGED <<processVars, generatorVars, rxVars, tableVars, networkVars,
                 clientVars>>

\* Sent once: nothing waits for the acknowledgement or sends again.
ServerUdpSendMessage ==
  /\ Up
  /\ txEvent # None
  /\ toClient' \in AfterSendto(toClient, <<run, txEvent>>)
  /\ txEvent' = None
  /\ UNCHANGED <<processVars, generatorVars, serverUdpTxQueue, rxVars, tableVars,
                 toServer, clientVars>>

ServerUdpTxTask == TakeEvent \/ ServerUdpSendMessage

-----------------------------------------------------------------------------
(* ServerUdpRxTask *)

ReceiveAck ==
  /\ Up
  /\ rxCompletion = None
  /\ toServer # << >>
  /\ Head(toServer)[2].type = MESSAGE_ACK
  /\ acksReceived' = (acksReceived + 1) % UintRange
  /\ toServer' = Tail(toServer)
  /\ UNCHANGED <<processVars, generatorVars, txVars, rxCompletion,
                 completionsReceived, outcomeCount, tableVars, toClient,
                 clientVars>>

\* The counters first ...
ReceiveCompletion ==
  /\ Up
  /\ rxCompletion = None
  /\ toServer # << >>
  /\ Head(toServer)[2].type = MESSAGE_COMPLETION
  /\ rxCompletion' = Head(toServer)
  /\ completionsReceived' = (completionsReceived + 1) % UintRange
  /\ outcomeCount' = [outcomeCount EXCEPT ![Head(toServer)[2].status] =
                        (@ + 1) % UintRange]
  /\ toServer' = Tail(toServer)
  /\ UNCHANGED <<processVars, generatorVars, txVars, acksReceived, tableVars,
                 toClient, clientVars>>

\* ... then the row, if there is one with this identifier.
DatabaseUpdateCompletion ==
  /\ Up
  /\ rxCompletion # None
  /\ Statement(rxCompletion[2].eventId, [id \in DOMAIN rows |->
                 IF id = rxCompletion[2].eventId THEN rxCompletion[2].status
                                                 ELSE rows[id]])
  /\ rxCompletion' = None
  /\ UNCHANGED <<processVars, generatorVars, txVars, acksReceived,
                 completionsReceived, outcomeCount, networkVars, clientVars>>

ServerUdpRxTask == ReceiveAck \/ ReceiveCompletion \/ DatabaseUpdateCompletion

-----------------------------------------------------------------------------
(* ServerSignalHandler runs on the main thread, beside the tasks, which go  *)
(* on until the process exits.  It prints the statistics, which changes     *)
(* nothing, closes the database and exits.  RunServer starts the next run.  *)

\* The "Pending" line of PrintServerStatistics.
Pending == (eventsGenerated + UintRange - completionsReceived) % UintRange

\* sqlite3_close, then g_database = NULL: in between the tasks find a handle.
DatabaseClose ==
  /\ \/ stage = "running" /\ stage' = "closing"
     \/ stage = "closing" /\ stage' = "closed"
  /\ UNCHANGED <<run, generatorVars, txVars, rxVars, tableVars,
                 networkVars, clientVars>>

\* A task is about to use the database or uses it.
UsesDatabase == gpc = "insert" \/ rxCompletion # None

\* The process ends, by exit() or by the use of a handle that SQLite has freed;
\* its memory and its socket buffer are gone.
Exit ==
  /\ stage = "closed" \/ (stage = "closing" /\ UsesDatabase)
  /\ stage' = "down"
  /\ gpc' = "create"
  /\ event' = None
  /\ serverUdpTxQueue' = << >>
  /\ txEvent' = None
  /\ rxCompletion' = None
  /\ toServer' = << >>
  /\ UNCHANGED <<run, nextEventId, eventsGenerated, acksReceived,
                 completionsReceived, outcomeCount, tableVars, toClient, clientVars>>

\* ServerUdpInit and DatabaseInit, which clears the table; static variables
\* have their initial values.
RunServer ==
  /\ stage = "down"
  /\ run < MaxRuns
  /\ stage' = "running"
  /\ run' = run + 1
  /\ nextEventId' = 1
  /\ eventsGenerated' = 0
  /\ acksReceived' = 0
  /\ completionsReceived' = 0
  /\ outcomeCount' = [outcome \in Outcomes |-> 0]
  /\ rows' = NoRows
  /\ missed' = {}
  /\ UNCHANGED <<gpc, event, txVars, rxCompletion,
                 networkVars, clientVars>>

-----------------------------------------------------------------------------
(* The client, as the server sees it *)

\* A datagram to a server that is down goes nowhere.
SendToServer(datagram) ==
  IF Up THEN toServer' \in AfterSendto(toServer, datagram)
        ELSE UNCHANGED toServer

ClientReceives ==
  /\ toClient # << >>
  /\ toClient' = Tail(toClient)
  /\ LET received == Head(toClient)
     IN unacknowledged' =
          unacknowledged \cup {<<received[1], received[2].eventId>>}
  /\ UNCHANGED <<processVars, generatorVars, txVars, rxVars, tableVars, toServer,
                 inWork>>

ClientAcknowledges(e) ==
  /\ SendToServer(<<e[1], Ack(e[2])>>)
  /\ unacknowledged' = unacknowledged \ {e}
  /\ inWork' = inWork \cup {e}
  /\ UNCHANGED <<processVars, generatorVars, txVars, rxVars, tableVars, toClient>>

ClientCompletes(e, outcome) ==
  /\ SendToServer(<<e[1], Completion(e[2], outcome)>>)
  /\ inWork' = inWork \ {e}
  /\ UNCHANGED <<processVars, generatorVars, txVars, rxVars, tableVars, toClient,
                 unacknowledged>>

\* One of the client's queues was full.
ClientDrops(e) ==
  /\ inWork' = inWork \ {e}
  /\ UNCHANGED <<processVars, generatorVars, txVars, rxVars, tableVars, networkVars,
                 unacknowledged>>

Client ==
  \/ ClientReceives
  \/ \E e \in unacknowledged : ClientAcknowledges(e)
  \/ \E e \in inWork :
       \/ \E outcome \in Outcomes : ClientCompletes(e, outcome)
       \/ ClientDrops(e)

-----------------------------------------------------------------------------
Next ==
  \/ ServerEventGeneratorTask
  \/ ServerUdpTxTask
  \/ ServerUdpRxTask
  \/ DatabaseClose
  \/ Exit
  \/ RunServer
  \/ Client

Spec == Init /\ [][Next]_vars
-----------------------------------------------------------------------------
(* Properties *)

ServerTypeOK ==
  /\ stage \in {"running", "closing", "closed", "down"}
  /\ run \in 1 .. MaxRuns
  /\ nextEventId \in EventIds
  /\ gpc \in {"create", "insert", "queue"}
  /\ event \in EventMessage \cup {None}
  /\ serverUdpTxQueue \in Seq(EventMessage)
  /\ Len(serverUdpTxQueue) <= SERVER_TX_QUEUE_LENGTH
  /\ txEvent \in EventMessage \cup {None}
  /\ rxCompletion \in ((1 .. MaxRuns) \X ClientMessage) \cup {None}
  /\ eventsGenerated \in 0 .. UintRange - 1
  /\ acksReceived \in 0 .. UintRange - 1
  /\ completionsReceived \in 0 .. UintRange - 1
  /\ outcomeCount \in [Outcomes -> 0 .. UintRange - 1]
  /\ DOMAIN rows \subseteq EventIds
  /\ \A id \in DOMAIN rows : rows[id] \in Outcomes \cup {STATUS_PENDING}
  /\ missed \subseteq EventIds
  /\ toClient \in Seq((1 .. MaxRuns) \X EventMessage)
  /\ toServer \in Seq((1 .. MaxRuns) \X ClientMessage)
  /\ unacknowledged \subseteq (1 .. MaxRuns) \X EventIds
  /\ inWork \subseteq (1 .. MaxRuns) \X EventIds

RowsWith(value) == {id \in DOMAIN rows : rows[id] = value}

\* The events of this run that are outside the generator.
OnTheirWay ==
  {m.eventId : m \in {serverUdpTxQueue[n] : n \in DOMAIN serverUdpTxQueue}
                       \cup ({txEvent} \ {None})}
    \cup {m[2].eventId : m \in {n \in {toClient[k] : k \in DOMAIN toClient}
                                  \cup {toServer[k] : k \in DOMAIN toServer}
                                  \cup ({rxCompletion} \ {None}) : n[1] = run}}
    \cup {e[2] : e \in {f \in unacknowledged \cup inWork : f[1] = run}}

(***************************************************************************)
(* An event is in the table before anybody else hears of it: no completion *)
(* ever arrives for an event of this run that has no row to record it in,  *)
(* unless a statement about that event has failed.                         *)
(***************************************************************************)
RowBeforeEvent == DatabaseOpen => OnTheirWay \subseteq DOMAIN rows \cup missed

(***************************************************************************)
(* While the server runs, its statistics and the table tell the same, up   *)
(* to the event being inserted and the completion being recorded: exactly  *)
(* as long as no statement fails, and otherwise the table lags behind by   *)
(* the events it missed.  Of the first run, that is: later ones may hear   *)
(* of their predecessors' events.                                          *)
(***************************************************************************)
StatisticsMatchTable ==
  LET recording == IF rxCompletion # None THEN 1 ELSE 0
      inserting == IF gpc = "insert" THEN 1 ELSE 0
      counted(outcome) ==
        outcomeCount[outcome]
          - (IF rxCompletion # None /\ rxCompletion[2].status = outcome
             THEN 1 ELSE 0)
  IN DatabaseOpen /\ run = 1 =>
       /\ missed = {} =>
            Pending + recording = Cardinality(RowsWith(STATUS_PENDING)) + inserting
       /\ \A outcome \in Outcomes :
            counted(outcome) - Cardinality(RowsWith(outcome))
              \in 0 .. Cardinality(missed)

(***************************************************************************)
(* Whatever statements fail and however late answers to an earlier run     *)
(* arrive, the table has rows only of events this run has generated and    *)
(* inserted: a restart starts from an empty table and UPDATE adds nothing. *)
(***************************************************************************)
RowsAreThisRuns ==
  DatabaseOpen =>
    DOMAIN rows \subseteq (1 .. nextEventId - 1)
                          \ (IF gpc = "insert" THEN {event.eventId} ELSE {})

(***************************************************************************)
(* The outcome of an event, once recorded, is final: no second completion  *)
(* and no completion of another event changes it in the first run.         *)
(***************************************************************************)
OutcomeIsFinal ==
  [][run' = 1 => \A id \in DOMAIN rows \ RowsWith(STATUS_PENDING) :
                   id \in DOMAIN rows' /\ rows'[id] = rows[id]]_vars

-----------------------------------------------------------------------------
(* What the documentation says and the code does not do *)

(***************************************************************************)
(* database.c:184: DatabaseUpdateCompletion "updates the corresponding     *)
(* event entry".  After a restart of the server alone, the completion of   *)
(* an event of the previous run finds the row of another event under the   *)
(* same identifier.                                                        *)
(***************************************************************************)
CompletionUpdatesItsOwnEvent ==
  [][\A id \in DOMAIN rows :
       stage = "running" /\ id \in DOMAIN rows' /\ rows'[id] # rows[id]
         => rxCompletion[1] = run]_vars
=============================================================================
