---------------------------- MODULE ServerProofs ----------------------------
(***************************************************************************)
(* Proofs about module Server, for any templates, queue length, number of  *)
(* events and runs, with and without failing statements.  What holds in    *)
(* every run of the server (types, the table and the events outside the    *)
(* generator) comes first; then the first run, in which no datagram of an  *)
(* earlier one arrives and therefore every event is in one place at a      *)
(* time; from that follow the table and the statistics.                    *)
(***************************************************************************)
EXTENDS Server, FiniteSetTheorems, SequenceTheorems, TLAPS

-----------------------------------------------------------------------------
(* The inductive invariants *)

Statuses == Outcomes \cup {STATUS_PENDING}

\* What ServerUdpRxTask stops at.
CompletionMessage == {m \in ClientMessage : m.type = MESSAGE_COMPLETION}

\* The event the generator has made and not yet inserted into the table.
Inserting == IF gpc = "insert" THEN {event.eventId} ELSE {}

\* What there is, and that nothing of the process outlives it: the generator
\* has an event, the last one numbered, whenever it is to do something with it,
\* no datagram is from a run still to come, rows are of events inserted.
ServerInv ==
  /\ stage \in {"running", "closing", "closed", "down"}
  /\ run \in 1 .. MaxRuns
  /\ nextEventId \in 1 .. MaxEvents + 1
  /\ gpc \in {"create", "insert", "queue"}
  /\ event \in EventMessage \cup {None}
  /\ gpc = "create" <=> event = None
  /\ event # None => event.eventId = nextEventId - 1
  /\ serverUdpTxQueue \in Seq(EventMessage)
  /\ Len(serverUdpTxQueue) <= SERVER_TX_QUEUE_LENGTH
  /\ txEvent \in EventMessage \cup {None}
  /\ rxCompletion \in ((1 .. run) \X CompletionMessage) \cup {None}
  /\ eventsGenerated \in 0 .. UintRange - 1
  /\ acksReceived \in 0 .. UintRange - 1
  /\ completionsReceived \in 0 .. UintRange - 1
  /\ outcomeCount \in [Outcomes -> 0 .. UintRange - 1]
  /\ rows \in [DOMAIN rows -> Statuses]
  /\ DOMAIN rows \subseteq (1 .. nextEventId - 1) \ Inserting
  /\ missed \subseteq EventIds
  /\ toClient \in Seq((1 .. run) \X EventMessage)
  /\ toServer \in Seq((1 .. run) \X ClientMessage)
  /\ unacknowledged \subseteq (1 .. run) \X EventIds
  /\ inWork \subseteq (1 .. run) \X EventIds
  /\ stage = "down" =>
       /\ event = None
       /\ serverUdpTxQueue = << >>
       /\ txEvent = None
       /\ rxCompletion = None
       /\ toServer = << >>

\* The event the generator is about to queue.
Queueing == IF gpc = "queue" THEN {event.eventId} ELSE {}

\* RowBeforeEvent, and before that a row for the event about to be queued.
RowInv == DatabaseOpen => OnTheirWay \cup Queueing \subseteq DOMAIN rows \cup missed

-----------------------------------------------------------------------------
(* Sequences, and statements *)

\* The two ends of a sequence.
LEMMA Ends ==
  ASSUME NEW S, NEW q \in Seq(S)
  PROVE  /\ q # << >> => /\ Head(q) \in S /\ Tail(q) \in Seq(S)
                         /\ Len(Tail(q)) = Len(q) - 1
         /\ \A m \in S : /\ Append(q, m) \in Seq(S)
                          /\ Len(Append(q, m)) = Len(q) + 1
OBVIOUS

\* A datagram joins the buffer or is lost.
LEMMA SocketAfterSendto ==
  ASSUME NEW S, NEW q \in Seq(S), NEW m \in S, NEW r \in AfterSendto(q, m)
  PROVE  /\ r \in Seq(S)
         /\ r = q \/ r = Append(q, m)
BY DEF AfterSendto

\* A uint32_t counter stays one.
LEMMA Wraps ==
  ASSUME NEW n \in Nat, NEW width \in Nat \ {0}
  PROVE  n % width \in 0 .. width - 1
OBVIOUS

LEMMA CounterNext ==
  ASSUME NEW n \in 0 .. UintRange - 1
  PROVE  (n + 1) % UintRange \in 0 .. UintRange - 1
<1>1. n + 1 \in Nat /\ UintRange \in Nat \ {0}
  BY ServerAssumption
<1> QED BY <1>1, Wraps

\* The number of the next event.
LEMMA NextIsNumber == ServerInv => nextEventId \in Nat \ {0}
<1> SUFFICES ASSUME ServerInv PROVE nextEventId \in Nat \ {0}
  OBVIOUS
<1>1. nextEventId \in 1 .. MaxEvents + 1 /\ MaxEvents \in Nat
  BY ServerAssumption DEF ServerInv
<1> QED BY <1>1

\* The number of the run.
LEMMA RunIsNumber == ServerInv => run \in Nat \ {0} /\ run \in 1 .. MaxRuns
<1> SUFFICES ASSUME ServerInv PROVE run \in Nat \ {0} /\ run \in 1 .. MaxRuns
  OBVIOUS
<1>1. run \in 1 .. MaxRuns /\ MaxRuns \in Nat
  BY ServerAssumption DEF ServerInv
<1> QED BY <1>1

\* More runs, more datagrams.
LEMMA LaterRun ==
  ASSUME NEW r \in Nat, NEW S
  PROVE  /\ (1 .. r) \X S \subseteq (1 .. r + 1) \X S
         /\ Seq((1 .. r) \X S) \subseteq Seq((1 .. r + 1) \X S)
<1>1. (1 .. r) \X S \subseteq (1 .. r + 1) \X S
  OBVIOUS
<1> QED BY <1>1

\* The table misses the statement, or the statement has its effect.
LEMMA StatementEffect ==
  ASSUME NEW id, NEW effect, Statement(id, effect)
  PROVE  \/ UNCHANGED rows /\ missed' = missed \cup {id}
         \/ /\ rows' = effect /\ rows' # rows
            /\ missed' = missed \ {id}
BY DEF Statement

\* Ack and completion datagrams, what the client makes of an event.
LEMMA ClientMessages ==
  /\ \A id \in EventIds : Ack(id) \in ClientMessage /\ Ack(id).type = MESSAGE_ACK
  /\ \A id \in EventIds, outcome \in Outcomes :
       /\ Completion(id, outcome) \in CompletionMessage
       /\ Completion(id, outcome).eventId = id
       /\ Completion(id, outcome).status = outcome
  /\ CompletionMessage \subseteq ClientMessage
  /\ \A m \in CompletionMessage : m.eventId \in EventIds /\ m.status \in Outcomes
  /\ \A m \in ClientMessage : m.type = MESSAGE_COMPLETION => m \in CompletionMessage
  /\ MESSAGE_ACK # MESSAGE_COMPLETION
BY DEF Ack, Completion, ClientMessage, CompletionMessage, MESSAGE_ACK,
       MESSAGE_COMPLETION

-----------------------------------------------------------------------------
(* ServerInv is inductive *)

\* ServerInv holds to begin with.
LEMMA ServerInitInv == Init => ServerInv
BY ServerAssumption DEF Init, ServerInv, Inserting, NoRows, EventIds

\* ServerEventGeneratorTask (event_generator.c) preserves it, ...
LEMMA GeneratorInv ==
  ASSUME ServerInv, ServerEventGeneratorTask
  PROVE  ServerInv'
<1> USE DEF ServerInv, Inserting, processVars, generatorVars, txVars, rxVars,
            tableVars, networkVars, clientVars
<1>0. None \notin EventMessage
  BY ServerAssumption
<1>1. CASE CreateRandomEvent
  <2>1. PICK template \in Templates :
          event' = [eventId |-> nextEventId, type |-> template[1],
                    priority |-> template[2], retryCount |-> 0]
    BY <1>1 DEF CreateRandomEvent
  <2>2. template[1] \in Departments /\ template[2] \in Priorities
    BY ServerAssumption
  <2>3. event' \in EventMessage /\ event'.eventId = nextEventId
    BY <2>1, <2>2, MessagesAssumption DEF EventMessage, EventIds
  <2>4. (eventsGenerated + 1) % UintRange \in 0 .. UintRange - 1
    BY CounterNext
  <2>5. nextEventId' \in 1 .. MaxEvents + 1 /\ nextEventId' = nextEventId + 1
    <3>1. nextEventId' = nextEventId + 1 /\ nextEventId <= MaxEvents
      BY <1>1 DEF CreateRandomEvent
    <3>2. nextEventId \in 1 .. MaxEvents + 1 /\ MaxEvents \in Nat
      BY ServerAssumption
    <3> HIDE DEF ServerInv
    <3> QED BY <3>1, <3>2
  <2>6. DOMAIN rows \subseteq (1 .. nextEventId' - 1) \ {nextEventId}
    <3>1. DOMAIN rows \subseteq 1 .. nextEventId - 1
      OBVIOUS
    <3>2. nextEventId \in Nat \ {0}
      BY NextIsNumber
    <3> HIDE DEF ServerInv
    <3> QED BY <2>5, <3>1, <3>2
  <2>7. event'.eventId = nextEventId' - 1 /\ gpc' = "insert" /\ UNCHANGED rows
    BY <1>1, <2>3, <2>5 DEF CreateRandomEvent
  <2>8. DOMAIN rows' \subseteq (1 .. nextEventId' - 1) \ Inserting'
    BY <2>3, <2>6, <2>7
  <2> QED BY <1>0, <1>1, <2>3, <2>4, <2>5, <2>7, <2>8 DEF CreateRandomEvent, Up
<1>2. CASE DatabaseInsertEvent
  <2> DEFINE effect == [id \in DOMAIN rows \cup {event.eventId} |->
                          IF id = event.eventId THEN STATUS_PENDING ELSE rows[id]]
  <2>1. /\ event \in EventMessage /\ gpc = "insert" /\ gpc' = "queue" /\ Up
        /\ event.eventId \in EventIds /\ event.eventId = nextEventId - 1
    BY <1>2 DEF DatabaseInsertEvent, EventMessage
  <2>2. DOMAIN effect \subseteq 1 .. nextEventId - 1
    BY <2>1 DEF EventIds
  <2>3. effect \in [DOMAIN effect -> Statuses]
    BY DEF Statuses
  <2>4. \/ UNCHANGED rows /\ missed' = missed \cup {event.eventId}
        \/ rows' = effect /\ missed' = missed \ {event.eventId}
    BY <1>2, StatementEffect DEF DatabaseInsertEvent
  <2> HIDE DEF effect
  <2>5. /\ rows' \in [DOMAIN rows' -> Statuses]
        /\ DOMAIN rows' \subseteq 1 .. nextEventId - 1
        /\ missed' \subseteq EventIds
    BY <2>1, <2>2, <2>3, <2>4
  <2> QED BY <1>2, <2>1, <2>5 DEF DatabaseInsertEvent, Up
<1>3. CASE QueueEvent
  <2>1. event \in EventMessage
    BY <1>3 DEF QueueEvent
  <2>2. /\ serverUdpTxQueue' \in Seq(EventMessage)
        /\ Len(serverUdpTxQueue') = Len(serverUdpTxQueue) + 1
    BY <1>3, <2>1, Ends DEF QueueEvent
  <2>3. Len(serverUdpTxQueue') <= SERVER_TX_QUEUE_LENGTH
    <3>1. /\ Len(serverUdpTxQueue) \in Nat /\ SERVER_TX_QUEUE_LENGTH \in Nat
          /\ Len(serverUdpTxQueue) < SERVER_TX_QUEUE_LENGTH
      BY <1>3, ServerAssumption DEF QueueEvent
    <3> HIDE DEF ServerInv
    <3> QED BY <2>2, <3>1
  <2> QED BY <1>3, <2>2, <2>3 DEF QueueEvent, Up
<1>4. CASE DropEvent
  BY <1>4 DEF DropEvent, Up
<1> QED BY <1>1, <1>2, <1>3, <1>4 DEF ServerEventGeneratorTask

\* ... ServerUdpTxTask does, ...
LEMMA TransmitInv ==
  ASSUME ServerInv, ServerUdpTxTask
  PROVE  ServerInv'
<1> USE DEF ServerInv, Inserting, processVars, generatorVars, txVars, rxVars,
            tableVars, networkVars, clientVars
<1>1. CASE TakeEvent
  <2>1. /\ Head(serverUdpTxQueue) \in EventMessage
        /\ Tail(serverUdpTxQueue) \in Seq(EventMessage)
        /\ Len(Tail(serverUdpTxQueue)) = Len(serverUdpTxQueue) - 1
    BY <1>1, Ends DEF TakeEvent
  <2>2. /\ serverUdpTxQueue' \in Seq(EventMessage)
        /\ Len(serverUdpTxQueue') <= SERVER_TX_QUEUE_LENGTH
    BY <1>1, <2>1, ServerAssumption DEF TakeEvent
  <2> QED BY <1>1, <2>1, <2>2 DEF TakeEvent, Up
<1>2. CASE ServerUdpSendMessage
  <2>1. <<run, txEvent>> \in (1 .. run) \X EventMessage
    BY <1>2 DEF ServerUdpSendMessage
  <2>2. toClient' \in Seq((1 .. run) \X EventMessage)
    BY <1>2, <2>1, SocketAfterSendto DEF ServerUdpSendMessage
  <2> QED BY <1>2, <2>2 DEF ServerUdpSendMessage, Up
<1> QED BY <1>1, <1>2 DEF ServerUdpTxTask

\* ... ServerUdpRxTask, ...
LEMMA ReceiveInv ==
  ASSUME ServerInv, ServerUdpRxTask
  PROVE  ServerInv'
<1> USE DEF ServerInv, Inserting, processVars, generatorVars, txVars, rxVars,
            tableVars, networkVars, clientVars
<1>0. toServer # << >> => /\ Head(toServer) \in (1 .. run) \X ClientMessage
                          /\ Tail(toServer) \in Seq((1 .. run) \X ClientMessage)
  BY Ends
<1>1. \A n \in 0 .. UintRange - 1 : (n + 1) % UintRange \in 0 .. UintRange - 1
  BY CounterNext
<1>2. CASE ReceiveAck
  BY <1>0, <1>1, <1>2 DEF ReceiveAck, Up
<1>3. CASE ReceiveCompletion
  <2>1. /\ Head(toServer) \in (1 .. run) \X CompletionMessage
        /\ Head(toServer)[2].status \in Outcomes
    BY <1>0, <1>3, ClientMessages DEF ReceiveCompletion
  <2>2. outcomeCount' \in [Outcomes -> 0 .. UintRange - 1]
    BY <1>1, <1>3, <2>1 DEF ReceiveCompletion
  <2> QED BY <1>0, <1>1, <1>3, <2>1, <2>2 DEF ReceiveCompletion, Up
<1>4. CASE DatabaseUpdateCompletion
  <2> DEFINE effect == [id \in DOMAIN rows |->
                          IF id = rxCompletion[2].eventId
                          THEN rxCompletion[2].status ELSE rows[id]]
  <2>1. /\ rxCompletion[2].eventId \in EventIds
        /\ rxCompletion[2].status \in Outcomes
    BY <1>4, ClientMessages DEF DatabaseUpdateCompletion
  <2>2. effect \in [DOMAIN effect -> Statuses] /\ DOMAIN effect = DOMAIN rows
    BY <2>1 DEF Statuses
  <2>3. \/ UNCHANGED rows /\ missed' = missed \cup {rxCompletion[2].eventId}
        \/ rows' = effect /\ missed' = missed \ {rxCompletion[2].eventId}
    BY <1>4, StatementEffect DEF DatabaseUpdateCompletion
  <2> HIDE DEF effect
  <2>4. /\ rows' \in [DOMAIN rows' -> Statuses]
        /\ DOMAIN rows' = DOMAIN rows
        /\ missed' \subseteq EventIds
    BY <2>1, <2>2, <2>3
  <2> QED BY <1>4, <2>4 DEF DatabaseUpdateCompletion, Up
<1> QED BY <1>2, <1>3, <1>4 DEF ServerUdpRxTask

\* ... shutdown and restart, ...
LEMMA LifeInv ==
  ASSUME ServerInv, DatabaseClose \/ Exit \/ RunServer
  PROVE  ServerInv'
<1> USE DEF ServerInv, Inserting, processVars, generatorVars, txVars, rxVars,
            tableVars, networkVars, clientVars
<1>1. CASE DatabaseClose
  BY <1>1 DEF DatabaseClose
<1>2. CASE Exit
  <2>1. /\ << >> \in Seq(EventMessage) /\ Len(<< >>) = 0 /\ 0 <= SERVER_TX_QUEUE_LENGTH
        /\ << >> \in Seq((1 .. run) \X ClientMessage)
    BY ServerAssumption
  <2>2. /\ stage' = "down" /\ gpc' = "create" /\ event' = None
        /\ serverUdpTxQueue' = << >> /\ txEvent' = None /\ rxCompletion' = None
        /\ toServer' = << >>
        /\ UNCHANGED <<run, nextEventId, eventsGenerated, acksReceived,
                       completionsReceived, outcomeCount, rows, missed, toClient,
                       unacknowledged, inWork>>
    BY <1>2 DEF Exit
  <2> QED BY <2>1, <2>2
<1>3. CASE RunServer
  <2>1. run \in Nat /\ run' = run + 1 /\ run' \in 1 .. MaxRuns
    <3>1. run < MaxRuns /\ run' = run + 1 /\ MaxRuns \in Nat
      BY <1>3, ServerAssumption DEF RunServer
    <3> QED BY <3>1, RunIsNumber
  <2>2. /\ toClient \in Seq((1 .. run') \X EventMessage)
        /\ unacknowledged \subseteq (1 .. run') \X EventIds
        /\ inWork \subseteq (1 .. run') \X EventIds
    BY <2>1, LaterRun
  <2>3. outcomeCount' \in [Outcomes -> 0 .. UintRange - 1] /\ 0 \in 0 .. UintRange - 1
    BY <1>3, ServerAssumption DEF RunServer
  <2>4. rows' \in [DOMAIN rows' -> Statuses] /\ DOMAIN rows' = {}
    BY <1>3 DEF RunServer, NoRows
  <2>5. 1 \in 1 .. MaxEvents + 1
    BY ServerAssumption
  <2>6. /\ event' = None /\ gpc' = "create" /\ serverUdpTxQueue' = << >>
        /\ txEvent' = None /\ rxCompletion' = None /\ toServer' = << >>
    BY <1>3 DEF RunServer
  <2> QED BY <1>3, <2>1, <2>2, <2>3, <2>4, <2>5, <2>6, ServerAssumption
          DEF RunServer
<1> QED BY <1>1, <1>2, <1>3

\* ... the client ...
LEMMA ClientInv ==
  ASSUME ServerInv, Client
  PROVE  ServerInv'
<1> USE DEF ServerInv, Inserting, processVars, generatorVars, txVars, rxVars,
            tableVars, networkVars, clientVars
<1>0. ASSUME NEW m \in (1 .. run) \X ClientMessage, SendToServer(m)
      PROVE  /\ toServer' \in Seq((1 .. run) \X ClientMessage)
             /\ stage = "down" => toServer' = toServer
  BY <1>0, SocketAfterSendto DEF SendToServer, Up
<1>1. CASE ClientReceives
  <2>1. /\ Head(toClient) \in (1 .. run) \X EventMessage
        /\ Tail(toClient) \in Seq((1 .. run) \X EventMessage)
    BY <1>1, Ends DEF ClientReceives
  <2>2. <<Head(toClient)[1], Head(toClient)[2].eventId>> \in (1 .. run) \X EventIds
    BY <2>1 DEF EventMessage
  <2> QED BY <1>1, <2>1, <2>2 DEF ClientReceives
<1>2. ASSUME NEW e \in unacknowledged, ClientAcknowledges(e) PROVE ServerInv'
  <2>1. <<e[1], Ack(e[2])>> \in (1 .. run) \X ClientMessage
    BY ClientMessages
  <2> QED BY <1>0, <1>2, <2>1 DEF ClientAcknowledges
<1>3. ASSUME NEW e \in inWork, NEW outcome \in Outcomes, ClientCompletes(e, outcome)
      PROVE  ServerInv'
  <2>1. <<e[1], Completion(e[2], outcome)>> \in (1 .. run) \X ClientMessage
    BY ClientMessages
  <2> QED BY <1>0, <1>3, <2>1 DEF ClientCompletes
<1>4. ASSUME NEW e \in inWork, ClientDrops(e) PROVE ServerInv'
  BY <1>4 DEF ClientDrops
<1> QED BY <1>1, <1>2, <1>3, <1>4 DEF Client

\* ... and so every step.
LEMMA ServerStep == ServerInv /\ [Next]_vars => ServerInv'
<1> SUFFICES ASSUME ServerInv, [Next]_vars PROVE ServerInv'
  OBVIOUS
<1>1. CASE UNCHANGED vars
  BY <1>1 DEF vars, ServerInv, Inserting, processVars, generatorVars, txVars,
              rxVars, tableVars, networkVars, clientVars
<1> QED BY <1>1, GeneratorInv, TransmitInv, ReceiveInv, LifeInv, ClientInv DEF Next

\* ServerInv is an invariant of the server (server.c:43-312, database.c).
THEOREM ServerInvariant == Spec => []ServerInv
BY ServerInitInv, ServerStep, PTL DEF Spec

\* Every variable of the server keeps its type.
THEOREM ServerTypeCorrect == Spec => []ServerTypeOK
<1>1. ServerInv => ServerTypeOK
  <2> SUFFICES ASSUME ServerInv PROVE ServerTypeOK
    OBVIOUS
  <2>1. 1 .. run \subseteq 1 .. MaxRuns
    <3>1. run \in 1 .. MaxRuns /\ MaxRuns \in Nat
      BY RunIsNumber, ServerAssumption
    <3> QED BY <3>1
  <2>2. nextEventId \in EventIds /\ DOMAIN rows \subseteq EventIds
    <3>1. DOMAIN rows \subseteq 1 .. nextEventId - 1
      BY DEF ServerInv
    <3>2. nextEventId \in EventIds /\ 1 .. nextEventId - 1 \subseteq EventIds
      BY NextIsNumber DEF EventIds
    <3> QED BY <3>1, <3>2
  <2>3. /\ Seq((1 .. run) \X EventMessage)
             \subseteq Seq((1 .. MaxRuns) \X EventMessage)
        /\ Seq((1 .. run) \X ClientMessage)
             \subseteq Seq((1 .. MaxRuns) \X ClientMessage)
        /\ (1 .. run) \X EventIds \subseteq (1 .. MaxRuns) \X EventIds
    BY <2>1
  <2>4. rxCompletion \in ((1 .. MaxRuns) \X ClientMessage) \cup {None}
    BY <2>1, ClientMessages DEF ServerInv
  <2> QED BY <2>2, <2>3, <2>4 DEF ServerInv, ServerTypeOK, Statuses
<1> QED BY <1>1, ServerInvariant, PTL

-----------------------------------------------------------------------------
(* A row before anybody else hears of the event *)

\* Event id of this run is outside the generator.
OnItsWay(id) ==
  \/ \E n \in DOMAIN serverUdpTxQueue : serverUdpTxQueue[n].eventId = id
  \/ txEvent # None /\ txEvent.eventId = id
  \/ \E n \in DOMAIN toClient : toClient[n][1] = run /\ toClient[n][2].eventId = id
  \/ \E n \in DOMAIN toServer : toServer[n][1] = run /\ toServer[n][2].eventId = id
  \/ rxCompletion # None /\ rxCompletion[1] = run /\ rxCompletion[2].eventId = id
  \/ \E e \in unacknowledged \cup inWork : e[1] = run /\ e[2] = id

\* The members of OnTheirWay are these, ...
AreOnTheirWay == \A id : id \in OnTheirWay <=> OnItsWay(id)

\* ... now ...
LEMMA OnTheirWayAre == AreOnTheirWay
<1>1. ASSUME NEW id, id \in OnTheirWay PROVE OnItsWay(id)
  BY <1>1 DEF OnTheirWay, OnItsWay
<1>2. ASSUME NEW id, OnItsWay(id) PROVE id \in OnTheirWay
  <2>1. CASE \E n \in DOMAIN serverUdpTxQueue : serverUdpTxQueue[n].eventId = id
    BY <2>1 DEF OnTheirWay
  <2>2. CASE txEvent # None /\ txEvent.eventId = id
    BY <2>2 DEF OnTheirWay
  <2>3. CASE \E n \in DOMAIN toClient :
               toClient[n][1] = run /\ toClient[n][2].eventId = id
    BY <2>3 DEF OnTheirWay
  <2>4. CASE \E n \in DOMAIN toServer :
               toServer[n][1] = run /\ toServer[n][2].eventId = id
    BY <2>4 DEF OnTheirWay
  <2>5. CASE /\ rxCompletion # None /\ rxCompletion[1] = run
             /\ rxCompletion[2].eventId = id
    BY <2>5 DEF OnTheirWay
  <2>6. CASE \E e \in unacknowledged \cup inWork : e[1] = run /\ e[2] = id
    BY <2>6 DEF OnTheirWay
  <2> QED BY <1>2, <2>1, <2>2, <2>3, <2>4, <2>5, <2>6 DEF OnItsWay
<1> QED BY <1>1, <1>2 DEF AreOnTheirWay

\* ... and in the next state.
LEMMA OnTheirWayAreNext == AreOnTheirWay'
BY OnTheirWayAre, PTL

\* Entries of the tail of a sequence and of a longer one.
LEMMA Entries ==
  ASSUME NEW S, NEW q \in Seq(S)
  PROVE  /\ q # << >> =>
              /\ 1 \in DOMAIN q /\ Head(q) = q[1]
              /\ \A n \in DOMAIN Tail(q) :
                   n \in Nat /\ n + 1 \in DOMAIN q /\ Tail(q)[n] = q[n + 1]
              /\ \A n \in DOMAIN q :
                   n = 1 \/ (n - 1 \in DOMAIN Tail(q) /\ q[n] = Tail(q)[n - 1])
         /\ \A m \in S :
              /\ \A n \in DOMAIN Append(q, m) :
                   \/ n \in DOMAIN q /\ Append(q, m)[n] = q[n]
                   \/ n = Len(q) + 1 /\ Append(q, m)[n] = m
              /\ \A n \in DOMAIN q :
                   n \in DOMAIN Append(q, m) /\ Append(q, m)[n] = q[n]
              /\ Len(q) + 1 \in DOMAIN Append(q, m)
              /\ Append(q, m)[Len(q) + 1] = m
OBVIOUS

\* Entries of a socket buffer something was sent to.
LEMMA EntriesAfterSendto ==
  ASSUME NEW S, NEW q \in Seq(S), NEW m \in S, NEW r, r = q \/ r = Append(q, m)
  PROVE  \A n \in DOMAIN r : (n \in DOMAIN q /\ r[n] = q[n]) \/ r[n] = m
BY Entries

\* A statement leaves no event out that was in the table or had missed it.
LEMMA StatementCovers ==
  ASSUME NEW id, NEW effect, Statement(id, effect),
         DOMAIN rows \subseteq DOMAIN effect, id \in DOMAIN effect \/ effect = rows
  PROVE  /\ DOMAIN rows \cup missed \subseteq DOMAIN rows' \cup missed'
         /\ id \in DOMAIN effect => id \in DOMAIN rows' \cup missed'
BY StatementEffect

\* What is in the table or has missed it stays so in a run, and whatever leaves
\* the generator is.
LEMMA RowsStay ==
  ASSUME ServerInv, Next, ~RunServer
  PROVE  /\ DOMAIN rows \cup missed \subseteq DOMAIN rows' \cup missed'
         /\ DatabaseInsertEvent => event.eventId \in DOMAIN rows' \cup missed'
<1>1. CASE DatabaseInsertEvent
  <2> DEFINE effect == [id \in DOMAIN rows \cup {event.eventId} |->
                          IF id = event.eventId THEN STATUS_PENDING ELSE rows[id]]
  <2>1. Statement(event.eventId, effect)
    BY <1>1 DEF DatabaseInsertEvent
  <2>2. DOMAIN rows \subseteq DOMAIN effect /\ event.eventId \in DOMAIN effect
    OBVIOUS
  <2> HIDE DEF effect
  <2> QED BY <2>1, <2>2, StatementCovers
<1>2. CASE DatabaseUpdateCompletion
  <2> DEFINE effect == [id \in DOMAIN rows |->
                          IF id = rxCompletion[2].eventId
                          THEN rxCompletion[2].status ELSE rows[id]]
  <2>1. Statement(rxCompletion[2].eventId, effect)
    BY <1>2 DEF DatabaseUpdateCompletion
  <2>2. DOMAIN rows \subseteq DOMAIN effect
    OBVIOUS
  <2>3. rxCompletion[2].eventId \in DOMAIN effect \/ effect = rows
    <3>1. CASE rxCompletion[2].eventId \in DOMAIN rows
      BY <3>1
    <3>2. CASE rxCompletion[2].eventId \notin DOMAIN rows
      <4>1. effect = [id \in DOMAIN rows |-> rows[id]]
        BY <3>2
      <4>2. rows = [id \in DOMAIN rows |-> rows[id]]
        BY DEF ServerInv
      <4> QED BY <4>1, <4>2
    <3> QED BY <3>1, <3>2
  <2>4. /\ DatabaseInsertEvent => FALSE
    BY <1>2 DEF DatabaseUpdateCompletion, DatabaseInsertEvent, ServerInv, tableVars,
                generatorVars
  <2> HIDE DEF effect
  <2> QED BY <2>1, <2>2, <2>3, <2>4, StatementCovers
<1>3. CASE ~DatabaseInsertEvent /\ ~DatabaseUpdateCompletion
  <2>1. UNCHANGED tableVars
    BY <1>3 DEF Next, ServerEventGeneratorTask, CreateRandomEvent, QueueEvent,
                DropEvent, ServerUdpTxTask, TakeEvent, ServerUdpSendMessage,
                ServerUdpRxTask, ReceiveAck, ReceiveCompletion, DatabaseClose,
                Exit, Client, ClientReceives, ClientAcknowledges,
                ClientCompletes, ClientDrops
  <2> QED BY <1>3, <2>1 DEF tableVars
<1> QED BY <1>1, <1>2, <1>3

\* Every step but the start of a run only moves events on, out of the generator
\* when they have been inserted.
LEMMA OnTheirWayNext ==
  ASSUME ServerInv, Next, ~RunServer, NEW id, OnItsWay(id)'
  PROVE  OnItsWay(id) \/ id \in Queueing
<1> USE DEF OnItsWay, processVars, generatorVars, txVars, rxVars, tableVars,
            networkVars, clientVars
<1>0. /\ serverUdpTxQueue \in Seq(EventMessage)
      /\ toClient \in Seq((1 .. run) \X EventMessage)
      /\ toServer \in Seq((1 .. run) \X ClientMessage)
      /\ event # None => event \in EventMessage
  BY DEF ServerInv
<1>1. CASE \/ CreateRandomEvent \/ DatabaseInsertEvent \/ DropEvent
           \/ DatabaseUpdateCompletion \/ DatabaseClose \/ Exit
  BY <1>1 DEF CreateRandomEvent, DatabaseInsertEvent, DropEvent,
              DatabaseUpdateCompletion, DatabaseClose, Exit
<1>2. CASE QueueEvent
  <2>1. /\ event \in EventMessage /\ gpc = "queue"
        /\ serverUdpTxQueue' = Append(serverUdpTxQueue, event)
        /\ UNCHANGED <<run, txEvent, toClient, toServer, rxCompletion,
                       unacknowledged, inWork>>
    BY <1>2 DEF QueueEvent, ServerInv
  <2>2. \A n \in DOMAIN serverUdpTxQueue' :
          \/ n \in DOMAIN serverUdpTxQueue /\ serverUdpTxQueue'[n] = serverUdpTxQueue[n]
          \/ serverUdpTxQueue'[n] = event
    BY <1>0, <2>1, Entries
  <2> QED BY <2>1, <2>2 DEF Queueing
<1>3. CASE TakeEvent
  <2>1. /\ serverUdpTxQueue # << >> /\ txEvent' = Head(serverUdpTxQueue)
        /\ serverUdpTxQueue' = Tail(serverUdpTxQueue)
        /\ UNCHANGED <<run, toClient, toServer, rxCompletion, unacknowledged, inWork>>
    BY <1>3 DEF TakeEvent
  <2>2. /\ 1 \in DOMAIN serverUdpTxQueue /\ txEvent' = serverUdpTxQueue[1]
        /\ \A n \in DOMAIN serverUdpTxQueue' :
             \E k \in DOMAIN serverUdpTxQueue : serverUdpTxQueue'[n] = serverUdpTxQueue[k]
    BY <1>0, <2>1, Entries
  <2> QED BY <2>1, <2>2
<1>4. CASE ServerUdpSendMessage
  <2>1. /\ txEvent # None /\ txEvent' = None
        /\ toClient' = toClient \/ toClient' = Append(toClient, <<run, txEvent>>)
        /\ UNCHANGED <<run, serverUdpTxQueue, toServer, rxCompletion,
                       unacknowledged, inWork>>
    BY <1>4 DEF ServerUdpSendMessage, AfterSendto
  <2>2. <<run, txEvent>> \in (1 .. run) \X EventMessage
    BY <2>1 DEF ServerInv
  <2>3. \A n \in DOMAIN toClient' :
          \/ n \in DOMAIN toClient /\ toClient'[n] = toClient[n]
          \/ toClient'[n] = <<run, txEvent>>
    <3> DEFINE S == (1 .. run) \X EventMessage
               m == <<run, txEvent>>
    <3>1. /\ toClient \in Seq(S) /\ m \in S
          /\ toClient' = toClient \/ toClient' = Append(toClient, m)
      BY <1>0, <2>1, <2>2
    <3> HIDE DEF S, m
    <3>2. \A n \in DOMAIN toClient' :
            (n \in DOMAIN toClient /\ toClient'[n] = toClient[n]) \/ toClient'[n] = m
      BY <3>1, EntriesAfterSendto
    <3> QED BY <3>2 DEF m
  <2> QED BY <2>1, <2>3
<1>5. CASE ReceiveAck \/ ReceiveCompletion
  <2>1. /\ toServer # << >> /\ toServer' = Tail(toServer)
        /\ rxCompletion' = rxCompletion \/ rxCompletion' = Head(toServer)
        /\ UNCHANGED <<run, serverUdpTxQueue, txEvent, toClient, unacknowledged,
                       inWork>>
    BY <1>5 DEF ReceiveAck, ReceiveCompletion
  <2>2. /\ 1 \in DOMAIN toServer /\ Head(toServer) = toServer[1]
        /\ \A n \in DOMAIN toServer' :
             \E k \in DOMAIN toServer : toServer'[n] = toServer[k]
    BY <1>0, <2>1, Entries
  <2> QED BY <2>1, <2>2
<1>6. CASE ClientReceives
  <2>1. /\ toClient # << >> /\ toClient' = Tail(toClient)
        /\ unacknowledged' = unacknowledged
             \cup {<<Head(toClient)[1], Head(toClient)[2].eventId>>}
        /\ UNCHANGED <<run, serverUdpTxQueue, txEvent, toServer, rxCompletion, inWork>>
    BY <1>6 DEF ClientReceives
  <2>2. /\ 1 \in DOMAIN toClient /\ Head(toClient) = toClient[1]
        /\ \A n \in DOMAIN toClient' :
             \E k \in DOMAIN toClient : toClient'[n] = toClient[k]
    BY <1>0, <2>1, Entries
  <2> QED BY <2>1, <2>2
<1>7. ASSUME NEW e \in unacknowledged \cup inWork, NEW m \in ClientMessage,
             m.eventId = e[2], SendToServer(<<e[1], m>>),
             unacknowledged' \cup inWork' \subseteq unacknowledged \cup inWork,
             UNCHANGED <<run, serverUdpTxQueue, txEvent, toClient, rxCompletion>>
      PROVE  OnItsWay(id) \/ id \in Queueing
  <2>1. <<e[1], m>> \in (1 .. run) \X ClientMessage
    BY <1>7 DEF ServerInv
  <2>2. toServer' = toServer \/ toServer' = Append(toServer, <<e[1], m>>)
    BY <1>7 DEF SendToServer, AfterSendto
  <2>3. \A n \in DOMAIN toServer' :
          \/ n \in DOMAIN toServer /\ toServer'[n] = toServer[n]
          \/ toServer'[n] = <<e[1], m>>
    <3> DEFINE S == (1 .. run) \X ClientMessage
               d == <<e[1], m>>
    <3>1. /\ toServer \in Seq(S) /\ d \in S
          /\ toServer' = toServer \/ toServer' = Append(toServer, d)
      BY <1>0, <2>1, <2>2
    <3> HIDE DEF S, d
    <3>2. \A n \in DOMAIN toServer' :
            (n \in DOMAIN toServer /\ toServer'[n] = toServer[n]) \/ toServer'[n] = d
      BY <3>1, EntriesAfterSendto
    <3> QED BY <3>2 DEF d
  <2> QED BY <1>7, <2>3
<1>8. ASSUME NEW e \in unacknowledged, ClientAcknowledges(e)
      PROVE  OnItsWay(id) \/ id \in Queueing
  <2>1. Ack(e[2]) \in ClientMessage /\ Ack(e[2]).eventId = e[2]
    BY ClientMessages DEF ServerInv, Ack
  <2> QED BY <1>7, <1>8, <2>1 DEF ClientAcknowledges
<1>9. ASSUME NEW e \in inWork, NEW outcome \in Outcomes, ClientCompletes(e, outcome)
      PROVE  OnItsWay(id) \/ id \in Queueing
  <2>1. /\ Completion(e[2], outcome) \in ClientMessage
        /\ Completion(e[2], outcome).eventId = e[2]
    BY ClientMessages DEF ServerInv
  <2> QED BY <1>7, <1>9, <2>1 DEF ClientCompletes
<1>10. ASSUME NEW e \in inWork, ClientDrops(e) PROVE OnItsWay(id)
  BY <1>10 DEF ClientDrops
<1> QED BY <1>1, <1>2, <1>3, <1>4, <1>5, <1>6, <1>8, <1>9, <1>10
        DEF Next, ServerEventGeneratorTask, ServerUdpTxTask, ServerUdpRxTask, Client

\* Every step keeps a row for each event outside the generator.
LEMMA RowStep == ServerInv /\ ServerInv' /\ RowInv /\ [Next]_vars => RowInv'
<1> SUFFICES ASSUME ServerInv, ServerInv', RowInv, [Next]_vars, DatabaseOpen',
                    NEW id, OnItsWay(id)' \/ id \in Queueing'
             PROVE  id \in DOMAIN rows' \cup missed'
  BY OnTheirWayAreNext DEF RowInv, AreOnTheirWay
<1>0. DatabaseOpen /\ (OnItsWay(id) \/ id \in Queueing) => id \in DOMAIN rows \cup missed
  BY OnTheirWayAre DEF RowInv, AreOnTheirWay
<1>1. CASE UNCHANGED vars
  <2>1. OnItsWay(id) \/ id \in Queueing
    BY <1>1 DEF vars, processVars, generatorVars, txVars, rxVars, networkVars,
                clientVars, OnItsWay, Queueing
  <2> QED BY <1>0, <1>1, <2>1 DEF vars, processVars, tableVars, DatabaseOpen
<1>2. CASE RunServer
  <2>1. ~OnItsWay(id)'
    <3>0. /\ stage = "down" /\ run' = run + 1 /\ run \in Nat
          /\ UNCHANGED <<txVars, rxCompletion, networkVars, clientVars>>
      BY <1>2, RunIsNumber DEF RunServer
    <3>1. /\ serverUdpTxQueue' = << >> /\ txEvent' = None /\ rxCompletion' = None
          /\ toServer' = << >> /\ run' = run + 1 /\ run \in Nat
          /\ UNCHANGED <<toClient, unacknowledged, inWork>>
      <4>1. stage = "down" => /\ serverUdpTxQueue = << >> /\ txEvent = None
                              /\ rxCompletion = None /\ toServer = << >>
        BY DEF ServerInv
      <4> QED BY <3>0, <4>1 DEF txVars, networkVars, clientVars
    <3>2. \A n \in DOMAIN toClient : toClient[n][1] \in 1 .. run
      <4>1. toClient \in Seq((1 .. run) \X EventMessage)
        BY DEF ServerInv
      <4>2. \A n \in DOMAIN toClient : toClient[n] \in (1 .. run) \X EventMessage
        BY <4>1
      <4> QED BY <4>2
    <3>3. \A e \in unacknowledged \cup inWork : e[1] \in 1 .. run
      BY DEF ServerInv
    <3> QED BY <3>1, <3>2, <3>3 DEF OnItsWay
  <2>2. gpc' # "queue"
    BY <1>2 DEF RunServer, ServerInv
  <2> QED BY <2>1, <2>2 DEF Queueing
<1>3. CASE Next /\ ~RunServer
  <2>1. DatabaseOpen
    BY <1>3 DEF DatabaseOpen, Next, ServerEventGeneratorTask, CreateRandomEvent,
                DatabaseInsertEvent, QueueEvent, DropEvent, ServerUdpTxTask,
                TakeEvent, ServerUdpSendMessage, ServerUdpRxTask, ReceiveAck,
                ReceiveCompletion, DatabaseUpdateCompletion, DatabaseClose, Exit,
                Client, ClientReceives, ClientAcknowledges, ClientCompletes,
                ClientDrops, processVars
  <2>2. CASE OnItsWay(id)'
    BY <1>0, <1>3, <2>1, <2>2, OnTheirWayNext, RowsStay
  <2>3. CASE id \in Queueing'
    <3>1. id \in Queueing \/ (DatabaseInsertEvent /\ id = event.eventId)
      BY <1>3, <2>3 DEF Queueing, Next, ServerEventGeneratorTask, CreateRandomEvent,
                DatabaseInsertEvent, QueueEvent, DropEvent, ServerUdpTxTask,
                TakeEvent, ServerUdpSendMessage, ServerUdpRxTask, ReceiveAck,
                ReceiveCompletion, DatabaseUpdateCompletion, DatabaseClose, Exit,
                Client, ClientReceives, ClientAcknowledges, ClientCompletes,
                ClientDrops, generatorVars
    <3> QED BY <1>0, <1>3, <2>1, <3>1, RowsStay
  <2> QED BY <2>2, <2>3
<1> QED BY <1>1, <1>2, <1>3

\* An event is in the table before anybody else hears of it, whatever is lost
\* and in every run (event_generator.c, server.c: the insertion comes first).
THEOREM RowComesFirst == Spec => []RowBeforeEvent
<1>1. Init => RowInv
  <2> SUFFICES ASSUME Init PROVE OnTheirWay = {} /\ Queueing = {}
    BY DEF RowInv
  <2>1. \A id : ~OnItsWay(id)
    BY DEF Init, OnItsWay
  <2> QED BY <2>1, OnTheirWayAre DEF AreOnTheirWay, Init, Queueing
<1>2. RowInv => RowBeforeEvent
  BY DEF RowInv, RowBeforeEvent
<1> QED BY <1>1, <1>2, RowStep, ServerInvariant, PTL DEF Spec

\* The table has rows only of events of the present run, and never the one that
\* is about to be inserted.
THEOREM RowsAreOfThisRun == Spec => []RowsAreThisRuns
<1>1. ServerInv => RowsAreThisRuns
  BY DEF ServerInv, RowsAreThisRuns, Inserting
<1> QED BY <1>1, ServerInvariant, PTL

-----------------------------------------------------------------------------
(* The first run *)

\* The parts of the system an event goes through, in that order.
Parts == {"generator", "queue", "transmit", "toClient", "received", "inWork",
          "toServer", "record"}

\* The events in each of them.
At == [part \in Parts |->
  CASE part = "generator" -> IF event = None THEN {} ELSE {event.eventId}
    [] part = "queue"     -> {serverUdpTxQueue[n].eventId :
                                n \in DOMAIN serverUdpTxQueue}
    [] part = "transmit"  -> IF txEvent = None THEN {} ELSE {txEvent.eventId}
    [] part = "toClient"  -> {toClient[n][2].eventId : n \in DOMAIN toClient}
    [] part = "received"  -> {e[2] : e \in unacknowledged}
    [] part = "inWork"    -> {e[2] : e \in inWork}
    [] part = "toServer"  -> {toServer[n][2].eventId : n \in
                                {k \in DOMAIN toServer :
                                   toServer[k][2].type = MESSAGE_COMPLETION}}
    [] part = "record"    -> IF rxCompletion = None THEN {}
                             ELSE {rxCompletion[2].eventId}]

\* An event is in one part ...
Apart(at) == \A p, q \in Parts : p # q => at[p] \cap at[q] = {}

\* ... and there once.  Acknowledgements do not count, they are about an event
\* the client has.
QueuedOnce ==
  \A n, k \in DOMAIN serverUdpTxQueue :
    serverUdpTxQueue[n].eventId = serverUdpTxQueue[k].eventId => n = k

SentOnce ==
  \A n, k \in DOMAIN toClient :
    toClient[n][2].eventId = toClient[k][2].eventId => n = k

CompletedOnce ==
  \A n, k \in DOMAIN toServer :
    /\ toServer[n][2].type = MESSAGE_COMPLETION
    /\ toServer[k][2].type = MESSAGE_COMPLETION
    /\ toServer[n][2].eventId = toServer[k][2].eventId
    => n = k

\* It has been generated.
Generated == \A part \in Parts : At[part] \subseteq 1 .. nextEventId - 1

PlaceInv ==
  run = 1 => Apart(At) /\ QueuedOnce /\ SentOnce /\ CompletedOnce /\ Generated

\* What a step does: no event gets anywhere else, ...
Stays == \A p \in Parts : At'[p] \subseteq At[p]

\* ... the next one is made, ...
Enters ==
  /\ nextEventId' = nextEventId + 1
  /\ \A p \in Parts :
       At'[p] \subseteq IF p = "generator" THEN {nextEventId} ELSE At[p]

\* ... or event x goes on, if it is not lost.
Moves(x, from, to) ==
  /\ from \in Parts /\ to \in Parts /\ from # to
  /\ x \in At[from]
  /\ \A p \in Parts :
       At'[p] \subseteq IF p = from THEN At[p] \ {x}
                        ELSE IF p = to THEN At[p] \cup {x} ELSE At[p]

\* The parts one by one, ...
PartsAre ==
  /\ At["generator"] = IF event = None THEN {} ELSE {event.eventId}
  /\ \A id : id \in At["queue"] <=>
       \E n \in DOMAIN serverUdpTxQueue : serverUdpTxQueue[n].eventId = id
  /\ At["transmit"] = IF txEvent = None THEN {} ELSE {txEvent.eventId}
  /\ \A id : id \in At["toClient"] <=>
       \E n \in DOMAIN toClient : toClient[n][2].eventId = id
  /\ \A id : id \in At["received"] <=> \E e \in unacknowledged : e[2] = id
  /\ \A id : id \in At["inWork"] <=> \E e \in inWork : e[2] = id
  /\ \A id : id \in At["toServer"] <=>
       \E n \in DOMAIN toServer : /\ toServer[n][2].type = MESSAGE_COMPLETION
                                  /\ toServer[n][2].eventId = id
  /\ At["record"] = IF rxCompletion = None THEN {} ELSE {rxCompletion[2].eventId}

\* ... now ...
LEMMA PartsOne == PartsAre
BY DEF PartsAre, At, Parts

\* ... and in the next state.
LEMMA PartsNext == PartsAre'
BY PartsOne, PTL

\* The parts that do not change.
LEMMA PartsUnchanged ==
  /\ UNCHANGED event => At'["generator"] = At["generator"]
  /\ UNCHANGED serverUdpTxQueue => At'["queue"] = At["queue"]
  /\ UNCHANGED txEvent => At'["transmit"] = At["transmit"]
  /\ UNCHANGED toClient => At'["toClient"] = At["toClient"]
  /\ UNCHANGED unacknowledged => At'["received"] = At["received"]
  /\ UNCHANGED inWork => At'["inWork"] = At["inWork"]
  /\ UNCHANGED toServer => At'["toServer"] = At["toServer"]
  /\ UNCHANGED rxCompletion => At'["record"] = At["record"]
BY DEF At, Parts

\* Whatever it does, events stay apart.
LEMMA ApartNext ==
  ASSUME Apart(At), Generated, ServerInv,
         \/ Stays
         \/ Enters
         \/ \E x, from, to : Moves(x, from, to)
  PROVE  Apart(At')
<1>1. CASE Stays
  BY <1>1 DEF Stays, Apart
<1>2. CASE Enters
  <2>1. \A p \in Parts : nextEventId \notin At[p]
    BY DEF Generated, ServerInv
  <2> QED BY <1>2, <2>1 DEF Enters, Apart
<1>3. ASSUME NEW x, NEW from, NEW to, Moves(x, from, to) PROVE Apart(At')
  <2>1. \A p \in Parts : p # from => x \notin At[p]
    BY <1>3 DEF Moves, Apart
  <2> QED BY <1>3, <2>1 DEF Moves, Apart
<1> QED BY <1>1, <1>2, <1>3

\* ... and of those generated.
LEMMA GeneratedNext ==
  ASSUME Generated, ServerInv, nextEventId' \in Nat, nextEventId' >= nextEventId,
         \/ Stays
         \/ Enters
         \/ \E x, from, to : Moves(x, from, to)
  PROVE  Generated'
<1>0. nextEventId \in Nat \ {0} /\ 1 .. nextEventId - 1 \subseteq 1 .. nextEventId' - 1
  BY NextIsNumber
<1>1. CASE Stays
  BY <1>0, <1>1 DEF Stays, Generated
<1>2. CASE Enters
  <2>1. nextEventId \in 1 .. nextEventId' - 1
    BY <1>0, <1>2 DEF Enters
  <2> QED BY <1>0, <1>2, <2>1 DEF Enters, Generated
<1>3. ASSUME NEW x, NEW from, NEW to, Moves(x, from, to) PROVE Generated'
  <2>1. x \in 1 .. nextEventId' - 1
    BY <1>0, <1>3 DEF Moves, Generated
  <2> QED BY <1>0, <1>3, <2>1 DEF Moves, Generated
<1> QED BY <1>1, <1>2, <1>3

\* The next event is made.
LEMMA CreatePlaces ==
  ASSUME ServerInv, CreateRandomEvent
  PROVE  Enters /\ UNCHANGED <<serverUdpTxQueue, toClient, toServer, rxCompletion>>
<1>1. /\ event' # None /\ event'.eventId = nextEventId
      /\ nextEventId' = nextEventId + 1
      /\ UNCHANGED <<serverUdpTxQueue, txEvent, toClient, unacknowledged, inWork,
                     toServer, rxCompletion>>
  <2>1. PICK template \in Templates :
          event' = [eventId |-> nextEventId, type |-> template[1],
                    priority |-> template[2], retryCount |-> 0]
    BY DEF CreateRandomEvent
  <2>2. template[1] \in Departments /\ template[2] \in Priorities
    BY ServerAssumption
  <2>3. event' \in EventMessage /\ event'.eventId = nextEventId
    BY <2>1, <2>2, MessagesAssumption, NextIsNumber DEF EventMessage, EventIds
  <2> QED BY <2>3, ServerAssumption
          DEF CreateRandomEvent, txVars, rxVars, networkVars, clientVars
<1> QED BY <1>1, PartsNext, PartsUnchanged DEF PartsAre, Parts, Enters

\* Steps that move no event, or take one away.
LEMMA StayingPlaces ==
  ASSUME \/ DatabaseInsertEvent \/ DropEvent \/ DatabaseUpdateCompletion
         \/ DatabaseClose \/ UNCHANGED vars \/ \E e \in inWork : ClientDrops(e)
  PROVE  Stays /\ UNCHANGED <<serverUdpTxQueue, toClient, toServer>>
<1>1. /\ event' \in {event, None}
      /\ rxCompletion' \in {rxCompletion, None}
      /\ inWork' \subseteq inWork
      /\ UNCHANGED <<serverUdpTxQueue, txEvent, toClient, unacknowledged, toServer>>
  BY DEF DatabaseInsertEvent, DropEvent, DatabaseUpdateCompletion, DatabaseClose,
         ClientDrops, vars, generatorVars, txVars, rxVars, networkVars, clientVars
<1> QED BY <1>1, PartsOne, PartsNext, PartsUnchanged DEF PartsAre, Parts, Stays

\* The process ends with what it had.
LEMMA ExitPlaces ==
  ASSUME Exit
  PROVE  /\ Stays
         /\ serverUdpTxQueue' = << >> /\ toServer' = << >> /\ UNCHANGED toClient
<1>1. /\ event' = None /\ txEvent' = None /\ rxCompletion' = None
      /\ serverUdpTxQueue' = << >> /\ toServer' = << >>
      /\ UNCHANGED <<toClient, unacknowledged, inWork>>
  BY DEF Exit, clientVars
<1> QED BY <1>1, PartsOne, PartsNext, PartsUnchanged DEF PartsAre, Parts, Stays

\* The generator's event joins the queue.
LEMMA QueuePlaces ==
  ASSUME ServerInv, PlaceInv, run = 1, QueueEvent
  PROVE  /\ Moves(event.eventId, "generator", "queue")
         /\ QueuedOnce' /\ UNCHANGED <<toClient, toServer, rxCompletion>>
<1>1. /\ event # None /\ event \in EventMessage /\ event' = None
      /\ serverUdpTxQueue' = Append(serverUdpTxQueue, event)
      /\ UNCHANGED <<txEvent, toClient, unacknowledged, inWork, toServer,
                     rxCompletion>>
  BY DEF QueueEvent, ServerInv, rxVars, networkVars, clientVars
<1>2. /\ \A n \in DOMAIN serverUdpTxQueue' :
           \/ n \in DOMAIN serverUdpTxQueue /\ serverUdpTxQueue'[n] = serverUdpTxQueue[n]
           \/ n = Len(serverUdpTxQueue) + 1 /\ serverUdpTxQueue'[n] = event
  BY <1>1, Entries DEF ServerInv
<1>3. event.eventId \in At["generator"] /\ event.eventId \notin At["queue"]
  BY <1>1, PartsOne DEF PartsAre, PlaceInv, Apart, Parts
<1>4. QueuedOnce'
  BY <1>2, <1>3, PartsOne DEF PartsAre, PlaceInv, QueuedOnce
<1>5. At'["queue"] \subseteq At["queue"] \cup {event.eventId}
  BY <1>2, PartsOne, PartsNext DEF PartsAre
<1>6. At'["generator"] = {}
  BY <1>1, PartsNext DEF PartsAre
<1> QED BY <1>1, <1>3, <1>4, <1>5, <1>6, PartsUnchanged DEF Parts, Moves

\* The transmit task takes the first one, ...
LEMMA TakePlaces ==
  ASSUME ServerInv, PlaceInv, run = 1, TakeEvent
  PROVE  /\ \E x : Moves(x, "queue", "transmit")
         /\ QueuedOnce' /\ UNCHANGED <<toClient, toServer, rxCompletion>>
<1> DEFINE x == serverUdpTxQueue[1].eventId
<1>1. /\ serverUdpTxQueue # << >> /\ txEvent' = Head(serverUdpTxQueue)
      /\ serverUdpTxQueue' = Tail(serverUdpTxQueue)
      /\ UNCHANGED <<event, toClient, unacknowledged, inWork, toServer, rxCompletion>>
  BY DEF TakeEvent, generatorVars, rxVars, networkVars, clientVars
<1>2. /\ 1 \in DOMAIN serverUdpTxQueue /\ txEvent' = serverUdpTxQueue[1]
      /\ \A n \in DOMAIN serverUdpTxQueue' :
           /\ n \in Nat /\ n + 1 \in DOMAIN serverUdpTxQueue /\ n + 1 # 1
           /\ serverUdpTxQueue'[n] = serverUdpTxQueue[n + 1]
  <2>1. \A n \in DOMAIN serverUdpTxQueue' : n \in Nat /\ n # 0
    BY <1>1 DEF ServerInv
  <2> QED BY <1>1, <2>1, Entries DEF ServerInv
<1>3. QueuedOnce' /\ \A n \in DOMAIN serverUdpTxQueue' : serverUdpTxQueue'[n].eventId # x
  BY <1>2 DEF PlaceInv, QueuedOnce
<1>4. x \in At["queue"] /\ At'["queue"] \subseteq At["queue"] \ {x}
  BY <1>2, <1>3, PartsOne, PartsNext DEF PartsAre
<1>5. At'["transmit"] \subseteq {x}
  BY <1>2, PartsNext DEF PartsAre
<1> HIDE DEF x
<1>6. Moves(x, "queue", "transmit")
  BY <1>1, <1>4, <1>5, PartsUnchanged DEF Parts, Moves
<1> QED BY <1>1, <1>3, <1>6

\* ... and sends it.
LEMMA TransmitPlaces ==
  ASSUME ServerInv, PlaceInv, run = 1, ServerUdpSendMessage
  PROVE  /\ \E x : Moves(x, "transmit", "toClient")
         /\ SentOnce' /\ UNCHANGED <<serverUdpTxQueue, toServer, rxCompletion>>
<1> DEFINE x == txEvent.eventId
           m == <<run, txEvent>>
           S == (1 .. run) \X EventMessage
<1>1. /\ txEvent # None /\ txEvent \in EventMessage /\ txEvent' = None
      /\ toClient' = toClient \/ toClient' = Append(toClient, m)
      /\ UNCHANGED <<event, serverUdpTxQueue, unacknowledged, inWork, toServer,
                     rxCompletion>>
  BY DEF ServerUdpSendMessage, AfterSendto, ServerInv, generatorVars, rxVars,
         clientVars
<1>2. m \in S /\ toClient \in Seq(S) /\ m[2].eventId = x
  BY <1>1 DEF ServerInv
<1>3. x \in At["transmit"] /\ x \notin At["toClient"]
  BY <1>1, PartsOne DEF PartsAre, PlaceInv, Apart, Parts
<1> HIDE DEF m, S, x
<1>4. \A n \in DOMAIN toClient' :
        \/ n \in DOMAIN toClient /\ toClient'[n] = toClient[n]
        \/ n = Len(toClient) + 1 /\ toClient'[n] = m
  BY <1>1, <1>2, Entries
<1>5. SentOnce'
  BY <1>2, <1>3, <1>4, PartsOne DEF PartsAre, PlaceInv, SentOnce
<1>6. At'["toClient"] \subseteq At["toClient"] \cup {x} /\ At'["transmit"] = {}
  BY <1>1, <1>2, <1>4, PartsOne, PartsNext DEF PartsAre
<1>7. Moves(x, "transmit", "toClient")
  BY <1>1, <1>3, <1>6, PartsUnchanged DEF Parts, Moves
<1> QED BY <1>1, <1>5, <1>7

\* The receive task takes a datagram from the socket: ...
LEMMA ServerTakes ==
  ASSUME ServerInv, PlaceInv, run = 1, toServer # << >>, toServer' = Tail(toServer)
  PROVE  /\ 1 \in DOMAIN toServer /\ Head(toServer) = toServer[1]
         /\ CompletedOnce'
         /\ At'["toServer"] \subseteq At["toServer"]
         /\ Head(toServer)[2].type = MESSAGE_COMPLETION =>
              /\ Head(toServer)[2].eventId \in At["toServer"]
              /\ Head(toServer)[2].eventId \notin At'["toServer"]
<1>1. /\ 1 \in DOMAIN toServer /\ Head(toServer) = toServer[1]
      /\ \A n \in DOMAIN toServer' :
           /\ n \in Nat /\ n + 1 \in DOMAIN toServer /\ n + 1 # 1
           /\ toServer'[n] = toServer[n + 1]
  <2> DEFINE S == (1 .. run) \X ClientMessage
  <2>1. toServer \in Seq(S)
    BY DEF ServerInv
  <2> HIDE DEF S
  <2>2. \A n \in DOMAIN toServer' : n \in Nat /\ n # 0
    BY <2>1
  <2> QED BY <2>1, <2>2, Entries
<1>2. CompletedOnce'
  BY <1>1 DEF PlaceInv, CompletedOnce
<1>3. At'["toServer"] \subseteq At["toServer"]
  BY <1>1, PartsOne, PartsNext DEF PartsAre
<1>4. ASSUME Head(toServer)[2].type = MESSAGE_COMPLETION
      PROVE  /\ Head(toServer)[2].eventId \in At["toServer"]
             /\ Head(toServer)[2].eventId \notin At'["toServer"]
  BY <1>1, <1>4, PartsOne, PartsNext DEF PartsAre, PlaceInv, CompletedOnce
<1> QED BY <1>1, <1>2, <1>3, <1>4

\* ... an acknowledgement is not about an event that still has to be completed, ...
LEMMA AckPlaces ==
  ASSUME ServerInv, PlaceInv, run = 1, ReceiveAck
  PROVE  /\ Stays /\ CompletedOnce'
         /\ UNCHANGED <<serverUdpTxQueue, toClient, rxCompletion>>
<1>1. /\ toServer # << >> /\ toServer' = Tail(toServer)
      /\ UNCHANGED <<event, serverUdpTxQueue, txEvent, toClient, unacknowledged,
                     inWork, rxCompletion>>
  BY DEF ReceiveAck, generatorVars, txVars, clientVars
<1> QED BY <1>1, ServerTakes, PartsUnchanged DEF Parts, Stays

\* ... a completion is.
LEMMA CompletionPlaces ==
  ASSUME ServerInv, PlaceInv, run = 1, ReceiveCompletion
  PROVE  /\ Moves(rxCompletion'[2].eventId, "toServer", "record")
         /\ CompletedOnce' /\ UNCHANGED <<serverUdpTxQueue, toClient>>
<1>1. /\ toServer # << >> /\ toServer' = Tail(toServer)
      /\ rxCompletion' = Head(toServer)
      /\ Head(toServer)[2].type = MESSAGE_COMPLETION
      /\ UNCHANGED <<event, serverUdpTxQueue, txEvent, toClient, unacknowledged,
                     inWork>>
  BY DEF ReceiveCompletion, generatorVars, txVars, clientVars
<1>2. /\ At'["toServer"] \subseteq At["toServer"] \ {rxCompletion'[2].eventId}
      /\ rxCompletion'[2].eventId \in At["toServer"]
      /\ CompletedOnce'
  BY <1>1, ServerTakes
<1>3. At'["record"] \subseteq {rxCompletion'[2].eventId}
  BY PartsNext DEF PartsAre
<1> QED BY <1>1, <1>2, <1>3, PartsUnchanged DEF Parts, Moves

\* The client receives an event, ...
LEMMA ReceivingPlaces ==
  ASSUME ServerInv, PlaceInv, run = 1, ClientReceives
  PROVE  /\ \E x : Moves(x, "toClient", "received")
         /\ SentOnce' /\ UNCHANGED <<serverUdpTxQueue, toServer, rxCompletion>>
<1> DEFINE x == toClient[1][2].eventId
<1>1. /\ toClient # << >> /\ toClient' = Tail(toClient)
      /\ unacknowledged' = unacknowledged
           \cup {<<Head(toClient)[1], Head(toClient)[2].eventId>>}
      /\ UNCHANGED <<event, serverUdpTxQueue, txEvent, inWork, toServer, rxCompletion>>
  BY DEF ClientReceives, generatorVars, txVars, rxVars
<1>2. /\ 1 \in DOMAIN toClient /\ Head(toClient) = toClient[1]
      /\ \A n \in DOMAIN toClient' :
           /\ n \in Nat /\ n + 1 \in DOMAIN toClient /\ n + 1 # 1
           /\ toClient'[n] = toClient[n + 1]
  <2> DEFINE S == (1 .. run) \X EventMessage
  <2>1. toClient \in Seq(S)
    BY DEF ServerInv
  <2> HIDE DEF S
  <2>2. \A n \in DOMAIN toClient' : n \in Nat /\ n # 0
    BY <1>1, <2>1
  <2> QED BY <1>1, <2>1, <2>2, Entries
<1>3. SentOnce' /\ \A n \in DOMAIN toClient' : toClient'[n][2].eventId # x
  BY <1>2 DEF PlaceInv, SentOnce
<1>4. x \in At["toClient"] /\ At'["toClient"] \subseteq At["toClient"] \ {x}
  BY <1>2, <1>3, PartsOne, PartsNext DEF PartsAre
<1>5. At'["received"] \subseteq At["received"] \cup {x}
  BY <1>1, <1>2, PartsOne, PartsNext DEF PartsAre
<1> HIDE DEF x
<1>6. Moves(x, "toClient", "received")
  BY <1>1, <1>4, <1>5, PartsUnchanged DEF Parts, Moves
<1> QED BY <1>1, <1>3, <1>6

\* What a datagram of the client does to the server's socket.
LEMMA ClientSends ==
  ASSUME ServerInv, PlaceInv, run = 1, NEW m \in (1 .. run) \X ClientMessage,
         SendToServer(m),
         m[2].type = MESSAGE_COMPLETION => m[2].eventId \notin At["toServer"]
  PROVE  /\ CompletedOnce'
         /\ At'["toServer"] \subseteq At["toServer"]
              \cup IF m[2].type = MESSAGE_COMPLETION THEN {m[2].eventId} ELSE {}
<1> DEFINE S == (1 .. run) \X ClientMessage
<1>1. /\ toServer \in Seq(S) /\ m \in S
      /\ toServer' = toServer \/ toServer' = Append(toServer, m)
  BY DEF ServerInv, SendToServer, AfterSendto
<1> HIDE DEF S
<1>2. \A n \in DOMAIN toServer' :
        \/ n \in DOMAIN toServer /\ toServer'[n] = toServer[n]
        \/ n = Len(toServer) + 1 /\ toServer'[n] = m
  BY <1>1, Entries
<1>3. CompletedOnce'
  BY <1>2, PartsOne DEF PartsAre, PlaceInv, CompletedOnce
<1> QED BY <1>2, <1>3, PartsOne, PartsNext DEF PartsAre

\* There is only one run to be from.
LEMMA OneRun ==
  ASSUME ServerInv, run = 1, NEW e \in unacknowledged \cup inWork,
         NEW f \in unacknowledged \cup inWork, f[2] = e[2]
  PROVE  f = e
<1>1. \A g \in (1 .. 1) \X EventIds : g = <<1, g[2]>>
  OBVIOUS
<1>2. e \in (1 .. 1) \X EventIds /\ f \in (1 .. 1) \X EventIds
  BY DEF ServerInv
<1>3. e = <<1, e[2]>> /\ f = <<1, f[2]>>
  BY <1>1, <1>2
<1> QED BY <1>3

\* ... acknowledges it, ...
LEMMA AcknowledgingPlaces ==
  ASSUME ServerInv, PlaceInv, run = 1, NEW e \in unacknowledged, ClientAcknowledges(e)
  PROVE  /\ Moves(e[2], "received", "inWork")
         /\ CompletedOnce' /\ UNCHANGED <<serverUdpTxQueue, toClient, rxCompletion>>
<1> DEFINE m == <<e[1], Ack(e[2])>>
<1>1. /\ SendToServer(m)
      /\ unacknowledged' = unacknowledged \ {e} /\ inWork' = inWork \cup {e}
      /\ UNCHANGED <<event, serverUdpTxQueue, txEvent, toClient, rxCompletion>>
  BY DEF ClientAcknowledges, generatorVars, txVars, rxVars
<1>2. /\ e \in (1 .. run) \X EventIds
      /\ m \in (1 .. run) \X ClientMessage /\ m[2].type # MESSAGE_COMPLETION
  BY ClientMessages DEF ServerInv
<1> HIDE DEF m
<1>3. CompletedOnce' /\ At'["toServer"] \subseteq At["toServer"]
  BY <1>1, <1>2, ClientSends
<1>4. \A f \in unacknowledged : f[2] = e[2] => f = e
  BY OneRun
<1>5. /\ e[2] \in At["received"]
      /\ At'["received"] \subseteq At["received"] \ {e[2]}
      /\ At'["inWork"] \subseteq At["inWork"] \cup {e[2]}
  BY <1>1, <1>4, PartsOne, PartsNext DEF PartsAre
<1> QED BY <1>1, <1>3, <1>5, PartsUnchanged DEF Parts, Moves

\* ... and completes it.
LEMMA CompletingPlaces ==
  ASSUME ServerInv, PlaceInv, run = 1, NEW e \in inWork, NEW outcome \in Outcomes,
         ClientCompletes(e, outcome)
  PROVE  /\ Moves(e[2], "inWork", "toServer")
         /\ CompletedOnce' /\ UNCHANGED <<serverUdpTxQueue, toClient, rxCompletion>>
<1> DEFINE m == <<e[1], Completion(e[2], outcome)>>
<1>1. /\ SendToServer(m) /\ inWork' = inWork \ {e}
      /\ UNCHANGED <<event, serverUdpTxQueue, txEvent, toClient, unacknowledged,
                     rxCompletion>>
  BY DEF ClientCompletes, generatorVars, txVars, rxVars
<1>2. /\ e \in (1 .. run) \X EventIds
      /\ m \in (1 .. run) \X ClientMessage
      /\ m[2].eventId = e[2]
  BY ClientMessages DEF ServerInv
<1>3. e[2] \in At["inWork"] /\ e[2] \notin At["toServer"]
  BY PartsOne DEF PartsAre, PlaceInv, Apart, Parts
<1> HIDE DEF m
<1>4. CompletedOnce' /\ At'["toServer"] \subseteq At["toServer"] \cup {e[2]}
  BY <1>1, <1>2, <1>3, ClientSends
<1>5. \A f \in inWork : f[2] = e[2] => f = e
  BY OneRun
<1>6. At'["inWork"] \subseteq At["inWork"] \ {e[2]}
  BY <1>1, <1>5, PartsOne, PartsNext DEF PartsAre
<1> QED BY <1>1, <1>3, <1>4, <1>6, PartsUnchanged DEF Parts, Moves

\* The start of another run is the only step out of the first.
LEMMA FirstRun ==
  ASSUME ServerInv, [Next]_vars, run' = 1
  PROVE  run = 1 /\ ~RunServer
<1>1. run \in Nat \ {0}
  BY RunIsNumber
<1>2. ~RunServer
  BY <1>1 DEF RunServer
<1> QED BY <1>2 DEF Next, vars, processVars, ServerEventGeneratorTask, CreateRandomEvent,
                DatabaseInsertEvent, QueueEvent, DropEvent, ServerUdpTxTask,
                TakeEvent, ServerUdpSendMessage, ServerUdpRxTask, ReceiveAck,
                ReceiveCompletion, DatabaseUpdateCompletion, DatabaseClose, Exit,
                Client, ClientReceives, ClientAcknowledges, ClientCompletes,
                ClientDrops

\* In a run the events generated only become more.
LEMMA MoreEvents ==
  ASSUME ServerInv, [Next]_vars, ~RunServer
  PROVE  nextEventId' \in Nat /\ nextEventId' >= nextEventId
<1>1. nextEventId' \in {nextEventId, nextEventId + 1}
  BY DEF Next, vars, generatorVars, ServerEventGeneratorTask, CreateRandomEvent,
              DatabaseInsertEvent, QueueEvent, DropEvent, ServerUdpTxTask,
              TakeEvent, ServerUdpSendMessage, ServerUdpRxTask, ReceiveAck,
              ReceiveCompletion, DatabaseUpdateCompletion, DatabaseClose, Exit,
              Client, ClientReceives, ClientAcknowledges, ClientCompletes,
              ClientDrops
<1> QED BY <1>1, NextIsNumber

\* What a step of the first run does to the places of the events.
LEMMA PlacesNext ==
  ASSUME ServerInv, PlaceInv, run = 1, [Next]_vars, ~RunServer
  PROVE  /\ Stays \/ Enters \/ \E x, from, to : Moves(x, from, to)
         /\ QueuedOnce' /\ SentOnce' /\ CompletedOnce'
<1>1. Apart(At) /\ QueuedOnce /\ SentOnce /\ CompletedOnce /\ Generated
  BY DEF PlaceInv
<1>2. /\ UNCHANGED serverUdpTxQueue \/ serverUdpTxQueue' = << >> => QueuedOnce'
      /\ UNCHANGED toClient => SentOnce'
      /\ UNCHANGED toServer \/ toServer' = << >> => CompletedOnce'
  BY <1>1 DEF QueuedOnce, SentOnce, CompletedOnce
<1> QED BY <1>2, CreatePlaces, StayingPlaces, ExitPlaces, QueuePlaces, TakePlaces,
           TransmitPlaces, AckPlaces, CompletionPlaces, ReceivingPlaces,
           AcknowledgingPlaces, CompletingPlaces
        DEF Next, ServerEventGeneratorTask, ServerUdpTxTask, ServerUdpRxTask, Client

\* Whatever happens in the first run, every event remains in one place.
LEMMA PlaceStep ==
  ServerInv /\ ServerInv' /\ PlaceInv /\ [Next]_vars => PlaceInv'
<1> SUFFICES ASSUME ServerInv, PlaceInv, [Next]_vars, run' = 1
             PROVE  PlaceInv'
  BY DEF PlaceInv
<1>1. run = 1 /\ ~RunServer
  BY FirstRun
<1>2. Apart(At) /\ Generated
  BY <1>1 DEF PlaceInv
<1> QED BY <1>1, <1>2, MoreEvents, PlacesNext, ApartNext, GeneratedNext DEF PlaceInv

\* There is no event to begin with.
LEMMA PlaceInit == Init => PlaceInv
<1> SUFFICES ASSUME Init PROVE PlaceInv
  OBVIOUS
<1>1. \A p \in Parts : At[p] = {}
  <2>1. /\ event = None /\ serverUdpTxQueue = << >> /\ txEvent = None
        /\ toClient = << >> /\ unacknowledged = {} /\ inWork = {}
        /\ toServer = << >> /\ rxCompletion = None
    BY DEF Init
  <2> QED BY <2>1, PartsOne DEF PartsAre, Parts
<1>2. QueuedOnce /\ SentOnce /\ CompletedOnce
  BY DEF Init, QueuedOnce, SentOnce, CompletedOnce
<1> QED BY <1>1, <1>2 DEF PlaceInv, Apart, Generated

-----------------------------------------------------------------------------
(* The table and the statistics, in the first run *)

\* What the server makes of the completions it has counted, answered[o] the
\* events it counted outcome o for: each is counted once, nobody is still to
\* answer it, and the table has its outcome unless it missed that or the
\* receive task is about to record it.
Accounts(answered) ==
  /\ answered \in [Outcomes -> SUBSET (1 .. nextEventId - 1)]
  /\ \A o, p \in Outcomes : o # p => answered[o] \cap answered[p] = {}
  /\ \A o \in Outcomes, part \in Parts \ {"record"} : answered[o] \cap At[part] = {}
  /\ rxCompletion # None =>
       rxCompletion[2].eventId \in answered[rxCompletion[2].status]
  /\ \A o \in Outcomes :
       /\ RowsWith(o) \subseteq answered[o] \ At["record"]
       /\ answered[o] \ At["record"] \subseteq RowsWith(o) \cup missed
  /\ missed \subseteq 1 .. nextEventId - 1
  /\ (1 .. nextEventId - 1) \ Inserting \subseteq DOMAIN rows \cup missed

\* Outcome s has been counted for event x.
Answer(answered, s, x, after) == after = [answered EXCEPT ![s] = @ \cup {x}]

\* What the statistics count, until a counter wraps.
Counted(answered) ==
  /\ eventsGenerated = nextEventId - 1
  /\ completionsReceived = Cardinality(UNION {answered[o] : o \in Outcomes})
  /\ \A o \in Outcomes : outcomeCount[o] = Cardinality(answered[o])

AccountsInv ==
  run = 1 /\ Up =>
    \E answered \in [Outcomes -> SUBSET (1 .. nextEventId - 1)] :
      Accounts(answered) /\ (MaxEvents < UintRange => Counted(answered))

\* Steps that neither count nor record anything: an event that is not answered
\* gets nowhere but where it is not answered.
LEMMA ElsewhereAccounts ==
  ASSUME ServerInv, NEW answered, Accounts(answered),
         Stays \/ Enters \/ \E x, from, to : Moves(x, from, to),
         UNCHANGED rxCompletion, nextEventId' \in Nat, nextEventId' >= nextEventId,
         NEW o \in Outcomes, NEW part \in Parts \ {"record"}
  PROVE  answered[o] \cap At'[part] = {}
<1>0. nextEventId \in Nat \ {0} /\ answered[o] \subseteq 1 .. nextEventId - 1
  BY NextIsNumber DEF Accounts
<1>1. answered[o] \cap At[part] = {}
  BY DEF Accounts
<1>2. CASE Stays
  BY <1>1, <1>2 DEF Stays
<1>3. CASE Enters
  <2>1. nextEventId \notin answered[o]
    BY <1>0
  <2> QED BY <1>1, <1>3, <2>1 DEF Enters
<1>4. ASSUME NEW x, NEW from, NEW to, Moves(x, from, to)
      PROVE  answered[o] \cap At'[part] = {}
  <2>1. from # "record"
    BY <1>4, PartsUnchanged DEF Moves
  <2>2. x \notin answered[o]
    BY <1>4, <2>1 DEF Moves, Accounts
  <2> QED BY <1>1, <1>4, <2>2 DEF Moves
<1> QED BY <1>2, <1>3, <1>4

\* An event is inserted, or the table misses it.
LEMMA InsertAccounts ==
  ASSUME ServerInv, PlaceInv, run = 1, DatabaseInsertEvent,
         NEW answered, Accounts(answered)
  PROVE  Accounts(answered)'
<1> DEFINE x == event.eventId
           effect == [id \in DOMAIN rows \cup {x} |->
                        IF id = x THEN STATUS_PENDING ELSE rows[id]]
<1>1. /\ gpc = "insert" /\ gpc' = "queue" /\ event # None
      /\ UNCHANGED <<nextEventId, rxCompletion>>
      /\ Statement(x, effect)
  BY DEF DatabaseInsertEvent, ServerInv, rxVars
<1>2. Stays /\ At'["record"] = At["record"]
  BY <1>1, StayingPlaces, PartsUnchanged
<1>3. x \in At["generator"] /\ x \in 1 .. nextEventId - 1
  BY <1>1, PartsOne DEF PartsAre, PlaceInv, Generated, Parts
<1>4. \A o \in Outcomes : x \notin answered[o]
  BY <1>3 DEF Accounts, Parts
<1>5. /\ \A o \in Outcomes : RowsWith(o)' = RowsWith(o)
      /\ missed' \in {missed \cup {x}, missed \ {x}}
      /\ DOMAIN rows \cup missed \cup {x} \subseteq DOMAIN rows' \cup missed'
  <2>1. CASE UNCHANGED rows /\ missed' = missed \cup {x}
    BY <2>1 DEF RowsWith
  <2>2. CASE rows' = effect /\ missed' = missed \ {x}
    <3>1. DOMAIN rows' = DOMAIN rows \cup {x}
      BY <2>2
    <3>2. \A id \in DOMAIN rows' :
            rows'[id] = IF id = x THEN STATUS_PENDING ELSE rows[id]
      BY <2>2
    <3>3. STATUS_PENDING \notin Outcomes
      BY DEF STATUS_PENDING, Outcomes, STATUS_COMPLETED, STATUS_FAILED,
             STATUS_CANCELLED
    <3>4. \A o \in Outcomes : x \notin RowsWith(o)
      BY <1>4 DEF Accounts
    <3> HIDE DEF effect, x
    <3>5. \A o \in Outcomes : RowsWith(o)' = RowsWith(o)
      BY <3>1, <3>2, <3>3, <3>4 DEF RowsWith
    <3> QED BY <2>2, <3>1, <3>5
  <2> HIDE DEF effect
  <2> QED BY <1>1, <2>1, <2>2, StatementEffect
<1> HIDE DEF effect, x
<1>6. \A o \in Outcomes, part \in Parts \ {"record"} : answered[o] \cap At'[part] = {}
  BY <1>2 DEF Accounts, Stays
<1>7. Inserting = {x} /\ Inserting' = {}
  BY <1>1 DEF Inserting, x
<1> QED BY <1>1, <1>2, <1>3, <1>4, <1>5, <1>6, <1>7 DEF Accounts

\* The receive task records an outcome, or the table misses it.
LEMMA UpdateAccounts ==
  ASSUME ServerInv, PlaceInv, run = 1, DatabaseUpdateCompletion,
         NEW answered, Accounts(answered)
  PROVE  Accounts(answered)'
<1> DEFINE x == rxCompletion[2].eventId
           s == rxCompletion[2].status
           effect == [id \in DOMAIN rows |-> IF id = x THEN s ELSE rows[id]]
<1>1. /\ rxCompletion # None /\ rxCompletion' = None
      /\ UNCHANGED <<nextEventId, gpc, event>>
      /\ Statement(x, effect)
  BY DEF DatabaseUpdateCompletion, generatorVars
<1>2. Stays /\ At["record"] = {x} /\ At'["record"] = {}
  BY <1>1, StayingPlaces, PartsOne, PartsNext DEF PartsAre
<1>3. s \in Outcomes /\ x \in answered[s] /\ x \in 1 .. nextEventId - 1
  BY <1>1, <1>2, ClientMessages DEF Accounts, ServerInv, PlaceInv, Generated, Parts
<1>4. \A o \in Outcomes : x \in answered[o] => o = s
  BY <1>3 DEF Accounts
<1>5. /\ \A o \in Outcomes : /\ x \notin RowsWith(o)
                             /\ RowsWith(o) \subseteq answered[o]
                             /\ answered[o] \ {x} \subseteq RowsWith(o) \cup missed
  BY <1>2 DEF Accounts
<1>6. \/ UNCHANGED rows /\ missed' = missed \cup {x}
      \/ /\ DOMAIN rows' = DOMAIN rows /\ x \in DOMAIN rows
         /\ \A id \in DOMAIN rows : rows'[id] = IF id = x THEN s ELSE rows[id]
         /\ missed' = missed \ {x}
  <2>1. x \notin DOMAIN rows => effect = rows
    <3>1. rows = [id \in DOMAIN rows |-> rows[id]]
      BY DEF ServerInv
    <3>2. x \notin DOMAIN rows => effect = [id \in DOMAIN rows |-> rows[id]]
      OBVIOUS
    <3> QED BY <3>1, <3>2
  <2>2. /\ DOMAIN effect = DOMAIN rows
        /\ \A id \in DOMAIN rows : effect[id] = IF id = x THEN s ELSE rows[id]
    OBVIOUS
  <2> HIDE DEF effect, x, s
  <2> QED BY <1>1, <2>1, <2>2, StatementEffect
<1> HIDE DEF effect, x, s
<1>7. \A o \in Outcomes : /\ RowsWith(o)' \subseteq answered[o]
                          /\ answered[o] \subseteq RowsWith(o)' \cup missed'
  <2>1. CASE UNCHANGED rows /\ missed' = missed \cup {x}
    BY <1>5, <2>1 DEF RowsWith
  <2>2. CASE /\ DOMAIN rows' = DOMAIN rows /\ x \in DOMAIN rows
             /\ \A id \in DOMAIN rows : rows'[id] = IF id = x THEN s ELSE rows[id]
             /\ missed' = missed \ {x}
    <3> SUFFICES ASSUME NEW o \in Outcomes
                 PROVE  /\ RowsWith(o)' \subseteq answered[o]
                        /\ answered[o] \subseteq RowsWith(o)' \cup missed'
      OBVIOUS
    <3>1. RowsWith(o)' = IF o = s THEN RowsWith(o) \cup {x} ELSE RowsWith(o) \ {x}
      BY <2>2 DEF RowsWith
    <3> QED BY <1>3, <1>4, <1>5, <2>2, <3>1
  <2> QED BY <1>6, <2>1, <2>2
<1>8. \A o \in Outcomes, part \in Parts \ {"record"} : answered[o] \cap At'[part] = {}
  BY <1>2 DEF Accounts, Stays
<1>9. /\ missed' \subseteq 1 .. nextEventId - 1
      /\ DOMAIN rows \cup missed \subseteq DOMAIN rows' \cup missed'
  <2>1. missed \subseteq 1 .. nextEventId - 1
    BY DEF Accounts
  <2> QED BY <1>3, <1>6, <2>1
<1>10. Inserting' = Inserting
  BY <1>1 DEF Inserting
<1> QED BY <1>1, <1>2, <1>7, <1>8, <1>9, <1>10 DEF Accounts

\* The events numbered so far.
LEMMA MoreNumbers ==
  ASSUME NEW n \in Nat \ {0}, NEW k \in Nat, k >= n
  PROVE  1 .. n - 1 \subseteq 1 .. k - 1
OBVIOUS

\* A completion is counted: of an event that nobody has answered before.
LEMMA ReceiveAccounts ==
  ASSUME ServerInv, PlaceInv, run = 1, ReceiveCompletion,
         NEW answered, Accounts(answered),
         NEW x, x = rxCompletion'[2].eventId, NEW s, s = rxCompletion'[2].status,
         NEW after, Answer(answered, s, x, after)
  PROVE  /\ s \in Outcomes
         /\ \A o \in Outcomes : x \notin answered[o]
         /\ after \in [Outcomes -> SUBSET (1 .. nextEventId' - 1)]
         /\ Accounts(after)'
<1>1. /\ rxCompletion = None /\ rxCompletion' = Head(toServer) /\ toServer # << >>
      /\ Head(toServer)[2].type = MESSAGE_COMPLETION
      /\ UNCHANGED <<nextEventId, gpc, event, rows, missed>>
  BY DEF ReceiveCompletion, generatorVars, tableVars
<1>2. rxCompletion' # None /\ s \in Outcomes
  <2>1. Head(toServer) \in (1 .. run) \X ClientMessage
    BY <1>1, Ends DEF ServerInv
  <2>2. s \in Outcomes
    BY <1>1, <2>1, ClientMessages
  <2>3. rxCompletion' # None
    <3>1. 1 .. run \subseteq 1 .. MaxRuns
      BY ServerAssumption DEF ServerInv
    <3> QED BY <1>1, <2>1, <3>1, ServerAssumption
  <2> QED BY <2>2, <2>3
<1>3. Moves(x, "toServer", "record")
  BY CompletionPlaces
<1>4. At["record"] = {} /\ At'["record"] = {x}
  BY <1>1, <1>2, PartsOne, PartsNext DEF PartsAre
<1>5. x \in At["toServer"] /\ x \in 1 .. nextEventId - 1
  BY <1>3 DEF Moves, PlaceInv, Generated
<1>6. \A o \in Outcomes : x \notin answered[o]
  BY <1>5 DEF Accounts, Parts
<1>7. /\ after \in [Outcomes -> SUBSET (1 .. nextEventId - 1)]
      /\ \A o \in Outcomes :
           after[o] = IF o = s THEN answered[o] \cup {x} ELSE answered[o]
  <2> DEFINE numbers == 1 .. nextEventId - 1
  <2>1. answered \in [Outcomes -> SUBSET numbers] /\ x \in numbers /\ s \in Outcomes
    BY <1>2, <1>5 DEF Accounts
  <2> HIDE DEF numbers
  <2>2. /\ after \in [Outcomes -> SUBSET numbers]
        /\ \A o \in Outcomes :
             after[o] = IF o = s THEN answered[o] \cup {x} ELSE answered[o]
    BY <2>1 DEF Answer
  <2> QED BY <2>2 DEF numbers
<1>8. \A o, p \in Outcomes : o # p => after[o] \cap after[p] = {}
  BY <1>6, <1>7 DEF Accounts
<1>9. \A o \in Outcomes, part \in Parts \ {"record"} : after[o] \cap At'[part] = {}
  <2>1. \A part \in Parts \ {"record"} : At'[part] \subseteq At[part] \ {x}
    BY <1>3 DEF Moves, PlaceInv, Apart
  <2> QED BY <1>7, <2>1 DEF Accounts
<1>10. x \in after[s]
  BY <1>2, <1>7
<1>11. \A o \in Outcomes :
         /\ RowsWith(o)' \subseteq after[o] \ {x}
         /\ after[o] \ {x} \subseteq RowsWith(o)' \cup missed'
  <2>1. \A o : RowsWith(o)' = RowsWith(o)
    BY <1>1 DEF RowsWith
  <2> QED BY <1>1, <1>4, <1>6, <1>7, <2>1 DEF Accounts
<1>12. Inserting' = Inserting
  BY <1>1 DEF Inserting
<1>13. Accounts(after)'
  BY <1>1, <1>4, <1>7, <1>8, <1>9, <1>10, <1>11, <1>12 DEF Accounts
<1> QED BY <1>1, <1>2, <1>6, <1>7, <1>13

\* Every other step of the running server.
LEMMA OtherAccounts ==
  ASSUME ServerInv, PlaceInv, run = 1, [Next]_vars, ~RunServer, Up',
         ~DatabaseInsertEvent, ~DatabaseUpdateCompletion, ~ReceiveCompletion,
         NEW answered, Accounts(answered)
  PROVE  Accounts(answered)'
<1>1. ~Exit
  BY DEF Exit, Up
<1>2. UNCHANGED <<rxCompletion, rows, missed>>
  <2>1. ASSUME ServerEventGeneratorTask PROVE UNCHANGED <<rxVars, tableVars>>
    BY <2>1 DEF ServerEventGeneratorTask, CreateRandomEvent, QueueEvent, DropEvent
  <2>2. ASSUME ServerUdpTxTask PROVE UNCHANGED <<rxVars, tableVars>>
    BY <2>2 DEF ServerUdpTxTask, TakeEvent, ServerUdpSendMessage
  <2>3. ASSUME ServerUdpRxTask PROVE UNCHANGED <<rxCompletion, tableVars>>
    BY <2>3 DEF ServerUdpRxTask, ReceiveAck
  <2>4. ASSUME DatabaseClose \/ Client PROVE UNCHANGED <<rxVars, tableVars>>
    BY <2>4 DEF DatabaseClose, Client, ClientReceives, ClientAcknowledges,
                ClientCompletes, ClientDrops
  <2> QED BY <1>1, <2>1, <2>2, <2>3, <2>4 DEF Next, vars, rxVars, tableVars
<1>3. nextEventId \in Nat \ {0} /\ nextEventId' \in Nat /\ nextEventId' >= nextEventId
  BY MoreEvents, NextIsNumber
<1>4. 1 .. nextEventId - 1 \subseteq 1 .. nextEventId' - 1
  BY <1>3, MoreNumbers
<1>5. \A o \in Outcomes, part \in Parts \ {"record"} : answered[o] \cap At'[part] = {}
  BY <1>2, <1>3, PlacesNext, ElsewhereAccounts
<1>6. At'["record"] = At["record"] /\ \A o : RowsWith(o)' = RowsWith(o)
  BY <1>2, PartsUnchanged DEF RowsWith
<1>7. (1 .. nextEventId' - 1) \ Inserting' \subseteq (1 .. nextEventId - 1) \ Inserting
  <2>1. CASE CreateRandomEvent
    <3>1. /\ gpc = "create" /\ gpc' = "insert" /\ nextEventId' = nextEventId + 1
          /\ event' # None /\ event'.eventId = nextEventId' - 1
      <4>1. ServerInv'
        BY GeneratorInv, <2>1 DEF ServerEventGeneratorTask
      <4>2. gpc = "create" /\ gpc' = "insert" /\ nextEventId' = nextEventId + 1
        BY <2>1 DEF CreateRandomEvent
      <4> QED BY <4>1, <4>2 DEF ServerInv
    <3>2. Inserting = {} /\ Inserting' = {nextEventId}
      BY <1>3, <3>1 DEF Inserting
    <3> QED BY <1>3, <3>1, <3>2
  <2>2. CASE ~CreateRandomEvent
    <3>1. UNCHANGED nextEventId /\ (gpc = "insert" => UNCHANGED <<gpc, event>>)
      BY <1>1, <2>2 DEF Next, vars, generatorVars, ServerEventGeneratorTask,
              QueueEvent, DropEvent, ServerUdpTxTask,
              TakeEvent, ServerUdpSendMessage, ServerUdpRxTask, ReceiveAck,
              DatabaseClose, Client, ClientReceives, ClientAcknowledges,
              ClientCompletes, ClientDrops
    <3>2. Inserting \subseteq Inserting'
      BY <3>1 DEF Inserting
    <3> QED BY <3>1, <3>2
  <2> QED BY <2>1, <2>2
<1> QED BY <1>2, <1>4, <1>5, <1>6, <1>7 DEF Accounts

\* A counter that has not wrapped.
LEMMA NoWrap ==
  ASSUME NEW width \in Nat \ {0}, NEW n \in 0 .. width - 1
  PROVE  n % width = n /\ (n + width) % width = n
<1>1. n = width * 0 + n /\ n + width = width * 1 + n
  OBVIOUS
<1> QED BY <1>1

\* How many events can have been answered.
LEMMA AnsweredBound ==
  ASSUME ServerInv, NEW answered \in [Outcomes -> SUBSET (1 .. nextEventId - 1)]
  PROVE  LET all == UNION {answered[o] : o \in Outcomes}
         IN  /\ IsFiniteSet(all) /\ Cardinality(all) \in 0 .. nextEventId - 1
             /\ all \subseteq 1 .. nextEventId - 1
             /\ \A o \in Outcomes : /\ IsFiniteSet(answered[o])
                                    /\ Cardinality(answered[o]) \in 0 .. nextEventId - 1
<1> DEFINE numbers == 1 .. nextEventId - 1
           all == UNION {answered[o] : o \in Outcomes}
<1>1. nextEventId - 1 \in Nat
  BY NextIsNumber
<1>2. IsFiniteSet(numbers) /\ Cardinality(numbers) = nextEventId - 1
  <2>1. /\ IsFiniteSet(1 .. nextEventId - 1)
        /\ Cardinality(1 .. nextEventId - 1) =
             IF 1 > nextEventId - 1 THEN 0 ELSE nextEventId - 1 - 1 + 1
    BY <1>1, FS_Interval
  <2> QED BY <1>1, <2>1
<1>3. all \in SUBSET numbers /\ \A o \in Outcomes : answered[o] \in SUBSET numbers
  OBVIOUS
<1> HIDE DEF all, numbers
<1>4. \A S \in SUBSET numbers : IsFiniteSet(S) /\ Cardinality(S) \in 0 .. nextEventId - 1
  <2> SUFFICES ASSUME NEW S \in SUBSET numbers
               PROVE  IsFiniteSet(S) /\ Cardinality(S) \in 0 .. nextEventId - 1
    OBVIOUS
  <2>1. IsFiniteSet(S) /\ Cardinality(S) <= nextEventId - 1
    BY <1>2, FS_Subset
  <2>2. Cardinality(S) \in Nat
    BY <2>1, FS_CardinalityType
  <2> QED BY <1>1, <2>1, <2>2
<1>5. all \subseteq numbers
  BY <1>3
<1> QED BY <1>3, <1>4, <1>5 DEF all, numbers

\* The counters a step of the first run leaves alone.
LEMMA CountersUnchanged ==
  ASSUME [Next]_vars, ~RunServer
  PROVE  /\ ~ReceiveCompletion => UNCHANGED <<completionsReceived, outcomeCount>>
         /\ ~CreateRandomEvent => UNCHANGED <<nextEventId, eventsGenerated>>
<1>1. ASSUME ServerEventGeneratorTask
      PROVE  /\ UNCHANGED <<completionsReceived, outcomeCount>>
             /\ ~CreateRandomEvent => UNCHANGED <<nextEventId, eventsGenerated>>
  BY <1>1 DEF ServerEventGeneratorTask, CreateRandomEvent, DatabaseInsertEvent,
              QueueEvent, DropEvent, rxVars
<1>2. ASSUME ServerUdpTxTask \/ DatabaseClose \/ Exit \/ Client
      PROVE  /\ UNCHANGED <<completionsReceived, outcomeCount>>
             /\ UNCHANGED <<nextEventId, eventsGenerated>>
  BY <1>2 DEF ServerUdpTxTask, TakeEvent, ServerUdpSendMessage, DatabaseClose, Exit,
              Client, ClientReceives, ClientAcknowledges, ClientCompletes, ClientDrops,
              rxVars, generatorVars
<1>3. ASSUME ServerUdpRxTask
      PROVE  /\ ~ReceiveCompletion => UNCHANGED <<completionsReceived, outcomeCount>>
             /\ UNCHANGED <<nextEventId, eventsGenerated>>
  BY <1>3 DEF ServerUdpRxTask, ReceiveAck, ReceiveCompletion, DatabaseUpdateCompletion,
              generatorVars
<1> QED BY <1>1, <1>2, <1>3 DEF Next, vars, rxVars, generatorVars

\* The generator counts the event it makes.
LEMMA GeneratedCounted ==
  ASSUME ServerInv, MaxEvents < UintRange, CreateRandomEvent,
         eventsGenerated = nextEventId - 1
  PROVE  eventsGenerated' = nextEventId' - 1
<1>1. /\ nextEventId \in Nat \ {0} /\ nextEventId <= MaxEvents
      /\ nextEventId' = nextEventId + 1
      /\ eventsGenerated' = (eventsGenerated + 1) % UintRange
      /\ MaxEvents \in Nat /\ UintRange \in Nat \ {0}
  BY NextIsNumber, ServerAssumption DEF CreateRandomEvent
<1>2. eventsGenerated + 1 \in 0 .. UintRange - 1
  BY <1>1
<1> QED BY <1>1, <1>2, NoWrap

\* The receive task counts the completion it takes.
LEMMA ReceiveCounted ==
  ASSUME ServerInv, MaxEvents < UintRange, ReceiveCompletion,
         NEW answered \in [Outcomes -> SUBSET (1 .. nextEventId - 1)],
         Counted(answered),
         NEW x, NEW s, s = rxCompletion'[2].status, s \in Outcomes,
         \A o \in Outcomes : x \notin answered[o],
         NEW after \in [Outcomes -> SUBSET (1 .. nextEventId - 1)],
         Answer(answered, s, x, after)
  PROVE  Counted(after)'
<1> DEFINE all == UNION {answered[o] : o \in Outcomes}
           allAfter == UNION {after[o] : o \in Outcomes}
<1>1. /\ completionsReceived' = (completionsReceived + 1) % UintRange
      /\ outcomeCount' = [outcomeCount EXCEPT ![s] = (@ + 1) % UintRange]
      /\ UNCHANGED <<nextEventId, eventsGenerated>>
  BY DEF ReceiveCompletion, generatorVars
<1>2. /\ IsFiniteSet(all) /\ Cardinality(all) \in 0 .. nextEventId - 1
      /\ IsFiniteSet(answered[s]) /\ Cardinality(answered[s]) \in 0 .. nextEventId - 1
  BY AnsweredBound
<1>3. /\ Cardinality(allAfter) \in 0 .. nextEventId - 1
      /\ Cardinality(after[s]) \in 0 .. nextEventId - 1
  BY AnsweredBound
<1>4. \A o \in Outcomes :
        after[o] = IF o = s THEN answered[o] \cup {x} ELSE answered[o]
  BY DEF Answer
<1>5. allAfter = all \cup {x} /\ x \notin all
  <2>1. \A y : y \in all <=> \E o \in Outcomes : y \in answered[o]
    OBVIOUS
  <2>2. \A y : y \in allAfter <=> \E o \in Outcomes : y \in after[o]
    OBVIOUS
  <2> HIDE DEF all, allAfter
  <2> QED BY <1>4, <2>1, <2>2
<1> HIDE DEF all, allAfter
<1>6. /\ Cardinality(allAfter) = Cardinality(all) + 1
      /\ Cardinality(after[s]) = Cardinality(answered[s]) + 1
  <2>1. after[s] = answered[s] \cup {x} /\ x \notin answered[s]
    BY <1>4
  <2> QED BY <1>2, <1>5, <2>1, FS_AddElement
<1>7. nextEventId - 1 <= UintRange - 1 /\ UintRange \in Nat \ {0}
  <2>1. nextEventId \in 1 .. MaxEvents + 1 /\ MaxEvents \in Nat /\ UintRange \in Nat \ {0}
    BY ServerAssumption DEF ServerInv
  <2> HIDE DEF ServerInv
  <2> QED BY <2>1
<1>8. \A n \in 0 .. nextEventId - 1 : n % UintRange = n
  <2>1. \A n \in 0 .. nextEventId - 1 : n \in 0 .. UintRange - 1
    BY <1>7, NextIsNumber
  <2> QED BY <1>7, <2>1, NoWrap
<1>9. completionsReceived' = Cardinality(allAfter)
  BY <1>1, <1>3, <1>6, <1>8 DEF Counted, all
<1>10. /\ outcomeCount[s] = Cardinality(answered[s])
       /\ outcomeCount \in [Outcomes -> 0 .. UintRange - 1]
  BY DEF Counted, ServerInv
<1>11. outcomeCount'[s] = Cardinality(after[s])
  BY <1>1, <1>3, <1>6, <1>8, <1>10
<1>12. \A o \in Outcomes \ {s} : outcomeCount'[o] = Cardinality(after[o])
  BY <1>1, <1>4, <1>10 DEF Counted
<1>13. eventsGenerated' = nextEventId' - 1
  BY <1>1 DEF Counted
<1> QED BY <1>9, <1>11, <1>12, <1>13 DEF Counted, allAfter

\* The table and the statistics go together whatever happens.
LEMMA AccountsStep ==
  ServerInv /\ PlaceInv /\ AccountsInv /\ [Next]_vars => AccountsInv'
<1> SUFFICES ASSUME ServerInv, PlaceInv, AccountsInv, [Next]_vars, run' = 1, Up'
             PROVE  \E after \in [Outcomes -> SUBSET (1 .. nextEventId' - 1)] :
                      /\ Accounts(after)'
                      /\ MaxEvents < UintRange => Counted(after)'
  BY DEF AccountsInv
<1>1. run = 1 /\ ~RunServer
  BY FirstRun
<1>2. Up
  BY <1>1 DEF Up, Next, vars, processVars, ServerEventGeneratorTask,
              ServerUdpTxTask, ServerUdpRxTask, DatabaseClose, Exit, Client,
              CreateRandomEvent, DatabaseInsertEvent, QueueEvent, DropEvent, TakeEvent,
              ServerUdpSendMessage, ReceiveAck, ReceiveCompletion,
              DatabaseUpdateCompletion, ClientReceives, ClientAcknowledges,
              ClientCompletes, ClientDrops
<1>3. PICK answered \in [Outcomes -> SUBSET (1 .. nextEventId - 1)] :
        Accounts(answered) /\ (MaxEvents < UintRange => Counted(answered))
  BY <1>1, <1>2 DEF AccountsInv
<1>4. CASE ReceiveCompletion
  <2>1. PICK x, s : x = rxCompletion'[2].eventId /\ s = rxCompletion'[2].status
    OBVIOUS
  <2>a. PICK after : Answer(answered, s, x, after)
    BY DEF Answer
  <2>2. /\ s \in Outcomes /\ \A o \in Outcomes : x \notin answered[o]
        /\ after \in [Outcomes -> SUBSET (1 .. nextEventId' - 1)]
        /\ Accounts(after)'
    BY <1>1, <1>3, <1>4, <2>1, <2>a, ReceiveAccounts
  <2>3. UNCHANGED nextEventId
    BY <1>4 DEF ReceiveCompletion, generatorVars
  <2>4. MaxEvents < UintRange => Counted(after)'
    BY <1>3, <1>4, <2>1, <2>2, <2>3, <2>a, ReceiveCounted
  <2> QED BY <2>2, <2>4
<1>5. CASE ~ReceiveCompletion
  <2>1. Accounts(answered)'
    BY <1>1, <1>3, <1>5, InsertAccounts, UpdateAccounts, OtherAccounts
  <2>2. answered \in [Outcomes -> SUBSET (1 .. nextEventId' - 1)]
    BY <2>1 DEF Accounts
  <2>3. MaxEvents < UintRange => Counted(answered)'
    <3> SUFFICES ASSUME MaxEvents < UintRange PROVE Counted(answered)'
      OBVIOUS
    <3>1. eventsGenerated' = nextEventId' - 1
      BY <1>1, <1>3, CountersUnchanged, GeneratedCounted DEF Counted
    <3> QED BY <1>1, <1>3, <1>5, <3>1, CountersUnchanged DEF Counted
  <2> QED BY <2>1, <2>2, <2>3
<1> QED BY <1>4, <1>5

\* Nothing has been generated or counted to begin with.
LEMMA AccountsInit == Init => AccountsInv
<1> SUFFICES ASSUME Init
             PROVE  \E answered \in [Outcomes -> SUBSET (1 .. nextEventId - 1)] :
                      Accounts(answered) /\ Counted(answered)
  BY DEF AccountsInv
<1> DEFINE none == [o \in Outcomes |-> {}]
<1>1. none \in [Outcomes -> SUBSET (1 .. nextEventId - 1)]
  OBVIOUS
<1>2. \A o \in Outcomes : none[o] = {}
  OBVIOUS
<1> HIDE DEF none
<1>3. rxCompletion = None /\ rows = NoRows /\ missed = {} /\ nextEventId = 1
  BY DEF Init
<1>4. \A o : RowsWith(o) = {}
  BY <1>3 DEF RowsWith, NoRows
<1>5. Accounts(none)
  BY <1>1, <1>2, <1>3, <1>4 DEF Accounts
<1>6. UNION {none[o] : o \in Outcomes} = {}
  BY <1>2
<1>7. Counted(none)
  <2>1. /\ nextEventId = 1 /\ eventsGenerated = 0 /\ completionsReceived = 0
        /\ \A o \in Outcomes : outcomeCount[o] = 0
    BY DEF Init
  <2>2. Cardinality(UNION {none[o] : o \in Outcomes}) = 0
    BY <1>6, FS_EmptySet
  <2>3. \A o \in Outcomes : Cardinality(none[o]) = 0
    BY <1>2, FS_EmptySet
  <2> QED BY <2>1, <2>2, <2>3 DEF Counted
<1> QED BY <1>1, <1>5, <1>7

\* Every event of the first run is in one place, and the table and the
\* statistics account for the answers (server.c:164-312,
\* database.c:192).
THEOREM FirstRunInvariant == Spec => [](ServerInv /\ PlaceInv /\ AccountsInv)
BY ServerInitInv, PlaceInit, AccountsInit, ServerStep, PlaceStep, AccountsStep, PTL
   DEF Spec

\* A recorded outcome is final (database.c: UPDATE by event id): the receive task
\* never is to record a second one for the same event.
THEOREM OutcomesAreFinal == Spec => OutcomeIsFinal
<1> DEFINE Final == \A id \in DOMAIN rows \ RowsWith(STATUS_PENDING) :
                      id \in DOMAIN rows' /\ rows'[id] = rows[id]
<1>1. ASSUME ServerInv, PlaceInv, AccountsInv, [Next]_vars, run' = 1
      PROVE  Final
  <2>1. run = 1 /\ ~RunServer
    BY <1>1, FirstRun
  <2> SUFFICES ASSUME NEW id \in DOMAIN rows \ RowsWith(STATUS_PENDING)
               PROVE  id \in DOMAIN rows' /\ rows'[id] = rows[id]
    OBVIOUS
  <2>2. CASE DatabaseInsertEvent
    <3> DEFINE x == event.eventId
               effect == [n \in DOMAIN rows \cup {x} |->
                            IF n = x THEN STATUS_PENDING ELSE rows[n]]
    <3>1. x \notin DOMAIN rows
      BY <1>1, <2>2 DEF DatabaseInsertEvent, ServerInv, Inserting
    <3>2. Statement(x, effect)
      BY <2>2 DEF DatabaseInsertEvent
    <3>3. \A n \in DOMAIN rows : n \in DOMAIN effect /\ effect[n] = rows[n]
      BY <3>1
    <3> HIDE DEF effect, x
    <3> QED BY <3>2, <3>3, StatementEffect
  <2>3. CASE DatabaseUpdateCompletion
    <3> DEFINE x == rxCompletion[2].eventId
               s == rxCompletion[2].status
               effect == [n \in DOMAIN rows |-> IF n = x THEN s ELSE rows[n]]
    <3>1. Statement(x, effect) /\ Up /\ rxCompletion # None
      BY <2>3 DEF DatabaseUpdateCompletion
    <3>2. DOMAIN effect = DOMAIN rows /\ (id # x => effect[id] = rows[id])
      OBVIOUS
    <3>3. id # x
      <4>1. PICK answered : Accounts(answered)
        BY <1>1, <2>1, <3>1 DEF AccountsInv
      <4>2. rows[id] \in Outcomes /\ id \in RowsWith(rows[id])
        BY <1>1 DEF ServerInv, Statuses, RowsWith
      <4>3. id \notin At["record"]
        BY <4>1, <4>2 DEF Accounts
      <4> QED BY <3>1, <4>3, PartsOne DEF PartsAre
    <3> HIDE DEF effect, x, s
    <3> QED BY <3>1, <3>2, <3>3, StatementEffect
  <2>4. CASE ~DatabaseInsertEvent /\ ~DatabaseUpdateCompletion
    <3>1. UNCHANGED rows
      BY <1>1, <2>1, <2>4
      DEF Next, vars, tableVars, ServerEventGeneratorTask, CreateRandomEvent, QueueEvent,
          DropEvent, ServerUdpTxTask, TakeEvent, ServerUdpSendMessage,
          ServerUdpRxTask, ReceiveAck, ReceiveCompletion, DatabaseClose,
          Exit, Client, ClientReceives, ClientAcknowledges,
          ClientCompletes, ClientDrops
    <3> QED BY <3>1
  <2> QED BY <2>2, <2>3, <2>4
<1>2. ServerInv /\ PlaceInv /\ AccountsInv /\ [Next]_vars => [run' = 1 => Final]_vars
  BY <1>1
<1> QED BY <1>2, FirstRunInvariant, PTL DEF Spec, OutcomeIsFinal

-----------------------------------------------------------------------------
(* What the statistics say of the table *)

\* The completion being recorded, if it has outcome o.
Recording(o) == IF rxCompletion # None /\ rxCompletion[2].status = o
                THEN {rxCompletion[2].eventId} ELSE {}

\* A part of a set, and what is left.
LEMMA Remainder ==
  ASSUME NEW S, IsFiniteSet(S), NEW T \in SUBSET S
  PROVE  /\ IsFiniteSet(T) /\ IsFiniteSet(S \ T)
         /\ Cardinality(S) \in Nat /\ Cardinality(T) \in Nat
         /\ Cardinality(S \ T) = Cardinality(S) - Cardinality(T)
<1>1. S \cap T = T
  OBVIOUS
<1>2. IsFiniteSet(T) /\ IsFiniteSet(S \ T)
  BY FS_Subset, FS_Difference
<1>3. Cardinality(S \ T) = Cardinality(S) - Cardinality(T)
  BY <1>1, FS_Difference
<1> QED BY <1>2, <1>3, FS_CardinalityType

\* The table lags behind a count by no more than the events it missed.
LEMMA OutcomesMatch ==
  ASSUME ServerInv, NEW answered, Accounts(answered), Counted(answered),
         NEW o \in Outcomes
  PROVE  outcomeCount[o] - Cardinality(Recording(o)) - Cardinality(RowsWith(o))
           \in 0 .. Cardinality(missed)
<1> DEFINE rest == answered[o] \ At["record"]
<1>0. answered \in [Outcomes -> SUBSET (1 .. nextEventId - 1)]
  BY DEF Accounts
<1>1. IsFiniteSet(answered[o]) /\ outcomeCount[o] = Cardinality(answered[o])
  BY <1>0, AnsweredBound DEF Counted
<1>2. Recording(o) = answered[o] \cap At["record"]
  <2>1. CASE rxCompletion = None
    BY <2>1, PartsOne DEF Recording, PartsAre
  <2>2. CASE rxCompletion # None
    <3>1. /\ At["record"] = {rxCompletion[2].eventId}
          /\ rxCompletion[2].status \in Outcomes
          /\ rxCompletion[2].eventId \in answered[rxCompletion[2].status]
      BY <2>2, PartsOne, ClientMessages DEF PartsAre, Accounts, ServerInv
    <3>2. rxCompletion[2].eventId \in answered[o] => rxCompletion[2].status = o
      BY <3>1 DEF Accounts
    <3> QED BY <2>2, <3>1, <3>2 DEF Recording
  <2> QED BY <2>1, <2>2
<1>3. Cardinality(rest) = outcomeCount[o] - Cardinality(Recording(o)) /\ IsFiniteSet(rest)
  <2>1. Recording(o) \in SUBSET answered[o] /\ rest = answered[o] \ Recording(o)
    BY <1>2
  <2> HIDE DEF rest
  <2> QED BY <1>1, <2>1, Remainder
<1>4. RowsWith(o) \subseteq rest /\ rest \ RowsWith(o) \subseteq missed
  BY DEF Accounts
<1> HIDE DEF rest
<1>5. IsFiniteSet(missed)
  <2>1. IsFiniteSet(1 .. nextEventId - 1)
    BY NextIsNumber, FS_Interval
  <2> QED BY <2>1, FS_Subset DEF Accounts
<1>6. /\ Cardinality(rest \ RowsWith(o)) = Cardinality(rest) - Cardinality(RowsWith(o))
      /\ IsFiniteSet(rest \ RowsWith(o))
  BY <1>3, <1>4, Remainder
<1>7. /\ Cardinality(rest \ RowsWith(o)) <= Cardinality(missed)
      /\ Cardinality(rest \ RowsWith(o)) \in Nat /\ Cardinality(missed) \in Nat
  BY <1>4, <1>5, <1>6, FS_Subset, FS_CardinalityType
<1> QED BY <1>3, <1>6, <1>7

\* Without a failed statement the events nobody has answered are the pending
\* rows, the event being inserted and the completion being recorded.
LEMMA PendingMatch ==
  ASSUME ServerInv, PlaceInv, run = 1, MaxEvents < UintRange, missed = {},
         NEW answered, Accounts(answered), Counted(answered)
  PROVE  Pending + Cardinality(At["record"])
           = Cardinality(RowsWith(STATUS_PENDING)) + Cardinality(Inserting)
<1> DEFINE numbers == 1 .. nextEventId - 1
           all == UNION {answered[o] : o \in Outcomes}
           record == At["record"]
           pending == RowsWith(STATUS_PENDING)
<1>0. answered \in [Outcomes -> SUBSET numbers]
  BY DEF Accounts
<1>1. /\ IsFiniteSet(all) /\ Cardinality(all) \in 0 .. nextEventId - 1
      /\ all \in SUBSET numbers
  BY <1>0, AnsweredBound
<1>2. IsFiniteSet(numbers) /\ Cardinality(numbers) = nextEventId - 1
  <2>1. nextEventId - 1 \in Nat
    BY NextIsNumber
  <2>2. /\ IsFiniteSet(1 .. nextEventId - 1)
        /\ Cardinality(1 .. nextEventId - 1) =
             IF 1 > nextEventId - 1 THEN 0 ELSE nextEventId - 1 - 1 + 1
    BY <2>1, FS_Interval
  <2> QED BY <2>1, <2>2
<1>3. Pending = Cardinality(numbers) - Cardinality(all)
  <2>1. eventsGenerated = nextEventId - 1 /\ completionsReceived = Cardinality(all)
    BY DEF Counted
  <2>2. nextEventId \in 1 .. MaxEvents + 1 /\ MaxEvents \in Nat /\ UintRange \in Nat \ {0}
    BY ServerAssumption DEF ServerInv
  <2> HIDE DEF ServerInv, all, numbers
  <2>3. nextEventId - 1 - Cardinality(all) \in 0 .. UintRange - 1
    BY <1>1, <2>2
  <2>4. (nextEventId - 1 - Cardinality(all) + UintRange) % UintRange
          = nextEventId - 1 - Cardinality(all)
    BY <2>2, <2>3, NoWrap
  <2>5. nextEventId - 1 - Cardinality(all) + UintRange
          = eventsGenerated + UintRange - completionsReceived
    BY <1>1, <2>1, <2>2
  <2> QED BY <1>2, <2>4, <2>5 DEF Pending
<1>4. record \in SUBSET all
  <2>1. CASE rxCompletion = None
    BY <2>1, PartsOne DEF PartsAre
  <2>2. CASE rxCompletion # None
    BY <2>2, PartsOne, ClientMessages DEF PartsAre, Accounts, ServerInv
  <2> QED BY <2>1, <2>2
<1>5. Inserting \in SUBSET (numbers \ all)
  <2>1. Inserting \subseteq At["generator"]
    BY PartsOne DEF PartsAre, Inserting, ServerInv
  <2>2. At["generator"] \subseteq numbers
    BY DEF PlaceInv, Generated, Parts
  <2>3. \A o \in Outcomes : answered[o] \cap At["generator"] = {}
    BY DEF Accounts, Parts
  <2> QED BY <2>1, <2>2, <2>3
<1>6. pending = (numbers \ Inserting) \ (all \ record)
  <2>1. DOMAIN rows = numbers \ Inserting
    BY DEF Accounts, ServerInv
  <2>2. \A o \in Outcomes : RowsWith(o) = answered[o] \ record
    BY DEF Accounts
  <2>3. \A id \in DOMAIN rows : rows[id] \in Outcomes \/ rows[id] = STATUS_PENDING
    BY DEF ServerInv, Statuses
  <2>4. STATUS_PENDING \notin Outcomes
    BY DEF STATUS_PENDING, Outcomes, STATUS_COMPLETED, STATUS_FAILED, STATUS_CANCELLED
  <2>5. \A id : id \in all <=> \E o \in Outcomes : id \in answered[o]
    OBVIOUS
  <2>6. \A id : id \in pending <=>
          id \in DOMAIN rows /\ ~ \E o \in Outcomes : id \in RowsWith(o)
    BY <2>3, <2>4 DEF RowsWith
  <2> HIDE DEF numbers, all, record, pending
  <2> QED BY <2>1, <2>2, <2>5, <2>6
<1> HIDE DEF numbers, all, record, pending
<1>7. /\ pending = ((numbers \ all) \ Inserting) \cup record
      /\ ((numbers \ all) \ Inserting) \cap record = {}
      /\ record \in SUBSET numbers
  BY <1>1, <1>4, <1>5, <1>6
<1>8. /\ Cardinality(numbers \ all) = Cardinality(numbers) - Cardinality(all)
      /\ IsFiniteSet(numbers \ all) /\ IsFiniteSet(record)
  BY <1>1, <1>2, <1>4, Remainder
<1>9. /\ Cardinality((numbers \ all) \ Inserting)
           = Cardinality(numbers) - Cardinality(all) - Cardinality(Inserting)
      /\ IsFiniteSet((numbers \ all) \ Inserting) /\ Cardinality(Inserting) \in Nat
  BY <1>5, <1>8, Remainder
<1>10. Cardinality(pending)
         = Cardinality((numbers \ all) \ Inserting) + Cardinality(record)
  <2> DEFINE rest == (numbers \ all) \ Inserting
  <2>1. pending = rest \cup record /\ rest \cap record = {} /\ IsFiniteSet(rest)
    BY <1>7, <1>9
  <2> HIDE DEF rest
  <2>2. /\ Cardinality(rest) \in Nat /\ Cardinality(record) \in Nat
        /\ Cardinality(rest \cup record)
             = Cardinality(rest) + Cardinality(record) - Cardinality({})
    BY <1>8, <2>1, FS_Union, FS_CardinalityType
  <2> QED BY <2>1, <2>2, FS_EmptySet DEF rest
<1>11. /\ Cardinality(record) \in Nat /\ Cardinality(numbers) \in Nat
       /\ Cardinality(all) \in Nat
  BY <1>1, <1>2, <1>8, FS_CardinalityType
<1> QED BY <1>3, <1>9, <1>10, <1>11 DEF record, pending

\* The statistics of the first run and the table tell the same (server.c:43,
\* PrintServerStatistics), as long as no 32-bit counter has wrapped.
THEOREM StatisticsAndTable ==
  ASSUME MaxEvents < UintRange
  PROVE  Spec => []StatisticsMatchTable
<1>1. ASSUME ServerInv, PlaceInv, AccountsInv
      PROVE  StatisticsMatchTable
  <2> DEFINE recording == IF rxCompletion # None THEN 1 ELSE 0
             inserting == IF gpc = "insert" THEN 1 ELSE 0
  <2> SUFFICES ASSUME DatabaseOpen, run = 1
      PROVE  /\ missed = {} =>
                  Pending + recording
                    = Cardinality(RowsWith(STATUS_PENDING)) + inserting
             /\ \A outcome \in Outcomes :
                  outcomeCount[outcome]
                    - (IF rxCompletion # None /\ rxCompletion[2].status = outcome
                       THEN 1 ELSE 0)
                    - Cardinality(RowsWith(outcome)) \in 0 .. Cardinality(missed)
    BY DEF StatisticsMatchTable
  <2>1. PICK answered : Accounts(answered) /\ Counted(answered)
    BY <1>1 DEF AccountsInv, Up, DatabaseOpen
  <2>2. Cardinality(At["record"]) = recording
    <3>1. CASE rxCompletion = None
      BY <3>1, PartsOne, FS_EmptySet DEF PartsAre
    <3>2. CASE rxCompletion # None
      <4>1. At["record"] = {rxCompletion[2].eventId}
        BY <3>2, PartsOne DEF PartsAre
      <4> QED BY <3>2, <4>1, FS_Singleton
    <3> QED BY <3>1, <3>2
  <2>3. Cardinality(Inserting) = inserting
    BY FS_EmptySet, FS_Singleton DEF Inserting
  <2>4. \A o \in Outcomes : Cardinality(Recording(o)) =
          IF rxCompletion # None /\ rxCompletion[2].status = o THEN 1 ELSE 0
    BY FS_EmptySet, FS_Singleton DEF Recording
  <2> QED BY <1>1, <2>1, <2>2, <2>3, <2>4, PendingMatch, OutcomesMatch
<1> QED BY <1>1, FirstRunInvariant, PTL
=============================================================================
