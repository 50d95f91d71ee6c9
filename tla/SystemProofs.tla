---------------------------- MODULE SystemProofs ----------------------------
(***************************************************************************)
(* Proofs about the whole program.                                         *)
(*                                                                         *)
(* Module System lets the real client and the real server exchange         *)
(* datagrams over two lossy sockets.  Each of the two was proved correct   *)
(* against a small model of the other side; here these models are shown to *)
(* be right: every step of one process is a step the other side's model    *)
(* allows, so that the theorems of both modules hold of the program.       *)
(*                                                                         *)
(* The server numbers its events and keeps them in order up to the socket, *)
(* hence sends none twice (Numbered); a step of the client is seen by the  *)
(* server as receiving, acknowledging, dropping or completing one event    *)
(* (ServerSeesClient).  What relates the two sides' data is what the       *)
(* client has said: all the server has is among it (Heard), and a counter  *)
(* of the server is bounded by the datagrams of its kind that have left    *)
(* the socket (Counted).                                                   *)
(***************************************************************************)
EXTENDS System, StatisticsProofs

-----------------------------------------------------------------------------
(* What a step of the client looks like from the server *)

\* The sockets of module Server hold the client's datagrams in their order.
LEMMA FirstRunOf ==
  ASSUME NEW S, NEW q \in Seq(S)
  PROVE  /\ FirstRun(q) \in Seq({1} \X S)
         /\ Len(FirstRun(q)) = Len(q)
         /\ DOMAIN FirstRun(q) = DOMAIN q
         /\ \A n \in DOMAIN q : FirstRun(q)[n] = <<1, q[n]>>
         /\ FirstRun(q) # << >> <=> q # << >>
BY DEF FirstRun

\* Sequences with the same entries: all but the first, ...
LEMMA IsTail ==
  ASSUME NEW T, NEW f \in Seq(T), NEW g \in Seq(T), f # << >>,
         Len(g) = Len(f) - 1, \A n \in 1 .. Len(f) - 1 : g[n] = f[n + 1]
  PROVE  g = Tail(f)
OBVIOUS

\* ... and with one more.
LEMMA IsAppend ==
  ASSUME NEW T, NEW f \in Seq(T), NEW g \in Seq(T), NEW t \in T,
         Len(g) = Len(f) + 1, g[Len(f) + 1] = t,
         \A n \in 1 .. Len(f) : g[n] = f[n]
  PROVE  g = Append(f, t)
OBVIOUS

\* Taking the first one ...
LEMMA FirstRunTail ==
  ASSUME NEW S, NEW q \in Seq(S), q # << >>
  PROVE  /\ FirstRun(Tail(q)) = Tail(FirstRun(q))
         /\ Head(FirstRun(q)) = <<1, Head(q)>>
<1>1. /\ Tail(q) \in Seq(S) /\ DOMAIN Tail(q) = 1 .. Len(q) - 1
      /\ Len(Tail(q)) = Len(q) - 1
      /\ DOMAIN q = 1 .. Len(q) /\ Len(q) \in Nat \ {0}
      /\ \A n \in 1 .. Len(q) - 1 : Tail(q)[n] = q[n + 1]
  OBVIOUS
<1> DEFINE f == FirstRun(q)
           g == FirstRun(Tail(q))
<1>2. /\ f \in Seq({1} \X S) /\ f # << >> /\ Len(f) = Len(q)
      /\ \A n \in 1 .. Len(q) : f[n] = <<1, q[n]>>
  BY <1>1, FirstRunOf
<1>3. /\ g \in Seq({1} \X S) /\ Len(g) = Len(q) - 1
      /\ \A n \in 1 .. Len(q) - 1 : g[n] = <<1, Tail(q)[n]>>
  BY <1>1, FirstRunOf
<1> HIDE DEF f, g
<1>4. ASSUME NEW n \in 1 .. Len(q) - 1 PROVE g[n] = f[n + 1]
  <2>1. n + 1 \in 1 .. Len(q)
    BY <1>1
  <2>2. f[n + 1] = <<1, q[n + 1]>> /\ g[n] = <<1, Tail(q)[n]>>
    BY <1>2, <1>3, <2>1
  <2> QED BY <1>1, <2>2, Zenon
<1>5. g = Tail(f)
  <2>1. Len(g) = Len(f) - 1 /\ \A n \in 1 .. Len(f) - 1 : g[n] = f[n + 1]
    BY <1>2, <1>3, <1>4
  <2> QED BY <1>2, <1>3, <2>1, IsTail, Zenon
<1>6. Head(f) = <<1, Head(q)>>
  <2>1. Head(f) = f[1] /\ Head(q) = q[1] /\ 1 \in 1 .. Len(q)
    BY <1>1, <1>2
  <2> QED BY <1>2, <2>1, Zenon
<1> QED BY <1>5, <1>6 DEF f, g

\* ... and sending another.
LEMMA FirstRunSend ==
  ASSUME NEW S, NEW q \in Seq(S), NEW m \in S,
         NEW r \in AfterSendto(q, m)
  PROVE  FirstRun(r) \in Srv!AfterSendto(FirstRun(q), <<1, m>>)
<1>1. Len(FirstRun(q)) = Len(q) /\ FirstRun(q) \in Seq({1} \X S)
  BY FirstRunOf
<1>2. CASE r = q
  BY <1>2 DEF Srv!AfterSendto
<1>3. CASE Len(q) < SocketCapacity /\ r = Append(q, m)
  <2>1. /\ r \in Seq(S) /\ Len(r) = Len(q) + 1 /\ Len(q) \in Nat
        /\ DOMAIN r = 1 .. Len(q) + 1 /\ DOMAIN q = 1 .. Len(q)
        /\ r[Len(q) + 1] = m /\ \A n \in 1 .. Len(q) : r[n] = q[n]
    BY <1>3
  <2> DEFINE f == FirstRun(q)
             g == FirstRun(r)
  <2>2. /\ f \in Seq({1} \X S) /\ Len(f) = Len(q)
        /\ \A n \in 1 .. Len(q) : f[n] = <<1, q[n]>>
    BY <2>1, FirstRunOf
  <2>3. /\ g \in Seq({1} \X S) /\ Len(g) = Len(q) + 1
        /\ \A n \in 1 .. Len(q) + 1 : g[n] = <<1, r[n]>>
    BY <2>1, FirstRunOf
  <2> HIDE DEF f, g
  <2>4. g = Append(f, <<1, m>>)
    <3>1. ASSUME NEW n \in 1 .. Len(q) PROVE g[n] = f[n]
      <4>1. n \in 1 .. Len(q) + 1
        BY <2>1
      <4>2. g[n] = <<1, r[n]>> /\ f[n] = <<1, q[n]>>
        BY <2>2, <2>3, <4>1
      <4> QED BY <2>1, <4>2, Zenon
    <3>2. g[Len(q) + 1] = <<1, m>>
      <4>1. Len(q) + 1 \in 1 .. Len(q) + 1
        BY <2>1
      <4> QED BY <2>1, <2>3, <4>1, Zenon
    <3>3. <<1, m>> \in {1} \X S
      OBVIOUS
    <3> QED BY <2>2, <2>3, <3>1, <3>2, <3>3, IsAppend
  <2>5. Len(f) < SocketCapacity
    BY <1>3, <2>2
  <2> QED BY <2>4, <2>5 DEF Srv!AfterSendto, f, g
<1> QED BY <1>2, <1>3 DEF AfterSendto

\* The client's socket, and what the receive task has taken out of it, stay.
SocketStays ==
  /\ UNCHANGED clientSocket
  /\ rxpc' = "ack" <=> rxpc = "ack"
  /\ rxpc = "ack" => UNCHANGED rxEvent

\* What a task of the client does that the server can notice.
LEMMA WhatTheServerNotices ==
  ASSUME ConservationInv, ClientInv', ClientTasks
  PROVE  \/ ClientUdpReceiveMessage
         \/ SendAck
         \/ SocketStays /\ (LosesOne \/ ReportsOne \/ UNCHANGED historyVars)
<1>1. CASE EnqueueEvent
  BY <1>1 DEF EnqueueEvent, SocketStays
<1>2. CASE ClientDispatcherTask
  <2>1. CASE ReceiveForDispatch \/ (ForwardEvent /\ Dispatch)
    BY <2>1 DEF ReceiveForDispatch, Dispatch, SocketStays, rxVars
  <2>2. CASE ForwardEvent /\ DropUndispatched
    <3>1. LosesOne
      BY <2>2, Dropping DEF ForwardEvent
    <3> QED BY <2>2, <3>1 DEF DropUndispatched, SocketStays, rxVars
  <2> QED BY <1>2, <2>1, <2>2 DEF ClientDispatcherTask, ForwardEvent
<1>3. CASE FaultManagerTask
  <2>1. CASE RetryEvent \/ RequeueEvent \/ GiveUp
    BY <2>1 DEF RetryEvent, RequeueEvent, GiveUp, SocketStays, rxVars
  <2>2. CASE DropRetry
    BY <2>2, Dropping DEF DropRetry, SocketStays, rxVars
  <2>3. CASE SendFailureCompletion
    BY <2>3, Reporting DEF SendFailureCompletion, SocketStays, rxVars
  <2> QED BY <1>3, <2>1, <2>2, <2>3 DEF FaultManagerTask
<1>4. ASSUME NEW v \in Vehicles, Vehicle(v)
      PROVE  SocketStays /\ (LosesOne \/ ReportsOne \/ UNCHANGED historyVars)
  <2>1. CASE DriveVehicle(v) \/ CancelEvent(v) \/ FinishEvent(v)
    BY <2>1 DEF DriveVehicle, CancelEvent, FinishEvent, SocketStays, rxVars
  <2>2. CASE DropFailed(v)
    <3>1. LosesOne
      BY <2>2, Dropping
    <3> QED BY <2>2, <3>1 DEF DropFailed, SocketStays, rxVars
  <2>3. CASE ReportOutcome(v)
    <3>1. ReportsOne
      BY <2>3, Reporting
    <3> QED BY <2>3, <3>1 DEF ReportOutcome, SocketStays, rxVars
  <2> QED BY <1>4, <2>1, <2>2, <2>3 DEF Vehicle
<1>5. ASSUME NEW d \in Departments, ShiftManager(d)
      PROVE  SocketStays /\ UNCHANGED historyVars
  BY <1>5 DEF ShiftManager, SocketStays, rxVars
<1> QED BY <1>1, <1>2, <1>3, <1>4, <1>5 DEF ClientTasks, ClientUdpRxTask

\* What a step of the client has sent is seen in the replies.
LEMMA WhatIsSent ==
  ASSUME ClientInv, NEW m \in ClientMessage, m.eventId \in Ids, Send(m)
  PROVE  Sent = {m}
<1> DEFINE id == m.eventId
<1>1. /\ replies \in [Ids -> Seq(ClientMessage)]
      /\ replies' = [replies EXCEPT ![id] = Append(@, m)]
  BY DEF ClientInv, Send
<1>2. PICK q \in Seq(ClientMessage) : q = replies[id]
  BY <1>1
<1>3. Len(Append(q, m)) = Len(q) + 1 /\ Append(q, m) # q /\ Last(Append(q, m)) = m
  BY DEF Last
<1>4. replies'[id] = Append(q, m) /\ \A k \in Ids \ {id} : replies'[k] = replies[k]
  BY <1>1, <1>2
<1>5. {k \in Ids : replies'[k] # replies[k]} = {id}
  BY <1>2, <1>3, <1>4
<1>6. Sent = {Last(replies'[id])}
  BY <1>5 DEF Sent
<1> QED BY <1>3, <1>4, <1>6

\* Nothing is sent without it.
LEMMA NothingIsSent ==
  ASSUME UNCHANGED replies
  PROVE  Sent = {}
BY DEF Sent

-----------------------------------------------------------------------------
(* A step of a client is one of the client of module Server *)

\* Its tasks leave the variables of the server alone, but for its socket.
ServerStands ==
  /\ UNCHANGED serverVars
  /\ Srv!processVars' = Srv!processVars
  /\ Srv!generatorVars' = Srv!generatorVars
  /\ Srv!txVars' = Srv!txVars
  /\ Srv!rxVars' = Srv!rxVars
  /\ Srv!tableVars' = Srv!tableVars

\* That is, all of module Server's tuples of them.
LEMMA ServerStandsStill ==
  ASSUME UNCHANGED serverVars
  PROVE  ServerStands
BY DEF ServerStands, serverVars, Srv!processVars, Srv!generatorVars, Srv!txVars,
       Srv!rxVars, Srv!tableVars

\* The run is the first, and the server up.
Running == stage = "running"

\* Whatever is sent joins the server's socket or is lost.
LEMMA DatagramArrives ==
  ASSUME ServerHears, serverSocket \in Seq(ClientMessage),
         NEW m \in ClientMessage, Sent = {m}, Running
  PROVE  Srv!SendToServer(<<1, m>>)
<1>1. serverSocket' \in AfterSendto(serverSocket, m)
  BY DEF ServerHears
<1>2. PICK r \in AfterSendto(serverSocket, m) : serverSocket' = r
  BY <1>1
<1>3. FirstRun(r) \in Srv!AfterSendto(FirstRun(serverSocket), <<1, m>>)
  BY FirstRunSend
<1> QED BY <1>2, <1>3 DEF Srv!SendToServer, Srv!Up, Running

\* ClientUdpReceiveMessage
LEMMA ServerSeesReceiving ==
  ASSUME ClientInv, ClientUdpReceiveMessage, ServerHears
  PROVE  Srv!ClientReceives
<1>1. /\ clientSocket \in Seq(Events) /\ clientSocket # << >>
      /\ clientSocket' = Tail(clientSocket) /\ rxEvent' = Head(clientSocket)
      /\ rxpc = "receive" /\ rxpc' = "ack"
      /\ UNCHANGED <<dropped, replies>>
  BY DEF ClientInv, ClientUdpReceiveMessage, historyVars
<1>2. UNCHANGED serverSocket /\ ServerStands
  BY <1>1, NothingIsSent, ServerStandsStill DEF ServerHears
<1>3. /\ FirstRun(clientSocket) # << >>
      /\ FirstRun(clientSocket)' = Tail(FirstRun(clientSocket))
      /\ Head(FirstRun(clientSocket)) = <<1, Head(clientSocket)>>
  BY <1>1, FirstRunOf, FirstRunTail
<1>4. Unacknowledged' = Unacknowledged \cup {<<1, Head(clientSocket).eventId>>}
  BY <1>1 DEF Unacknowledged
<1>5. InWork' = InWork
  BY <1>1 DEF InWork
<1> QED BY <1>2, <1>3, <1>4, <1>5 DEF Srv!ClientReceives, ServerStands

\* SendAck
LEMMA ServerSeesAck ==
  ASSUME ConservationInv, SendAck, ServerHears,
         serverSocket \in Seq(ClientMessage), Running
  PROVE  /\ <<1, rxEvent.eventId>> \in Unacknowledged
         /\ Srv!ClientAcknowledges(<<1, rxEvent.eventId>>)
<1>0. ClientInv
  BY DEF ConservationInv
<1>1. /\ rxpc = "ack" /\ rxpc' = "enqueue" /\ rxEvent \in Events
      /\ UNCHANGED <<clientSocket, dropped>>
      /\ Send(Ack(rxEvent.eventId))
      /\ replies \in [Ids -> Seq(ClientMessage)]
  BY <1>0 DEF ClientInv, SendAck
<1>2. PICK id \in Ids : id = rxEvent.eventId
  BY <1>1 DEF Ids
<1>3. Ack(id) \in ClientMessage /\ Ack(id).eventId = id
  BY Datagrams DEF Outcomes
<1>4. Sent = {Ack(id)} /\ Srv!SendToServer(<<1, Ack(id)>>)
  BY <1>0, <1>1, <1>2, <1>3, WhatIsSent, DatagramArrives
<1>5. replies[id] = << >> /\ id \notin dropped
  <2>1. New(id)
    BY <1>1, <1>2 DEF New
  <2> QED BY <2>1 DEF ConservationInv, Phase, Unanswered, Accepted, Answered
<1>6. /\ replies'[id] = <<Ack(id)>>
      /\ \A k \in Ids \ {id} : replies'[k] = replies[k]
  <2>1. replies' = [replies EXCEPT ![id] = Append(@, Ack(id))]
    BY <1>1, <1>2, <1>3 DEF Send
  <2>2. replies'[id] = Append(<< >>, Ack(id))
    BY <1>1, <1>5, <2>1
  <2> QED BY <1>1, <2>1, <2>2
<1>7. InWork' = InWork \cup {<<1, id>>}
  <2>1. \A k \in Ids : k \notin dropped' /\ replies'[k] = <<Ack(k)>> <=>
          \/ k \notin dropped /\ replies[k] = <<Ack(k)>>
          \/ k = id
    BY <1>1, <1>5, <1>6
  <2> QED BY <2>1 DEF InWork
<1>8. Unacknowledged = {<<1, id>>} /\ Unacknowledged' = {}
  BY <1>1, <1>2 DEF Unacknowledged
<1>9. ServerStands /\ FirstRun(clientSocket)' = FirstRun(clientSocket)
  BY <1>1, ServerStandsStill DEF ServerHears
<1>10. Srv!ClientAcknowledges(<<1, id>>)
  BY <1>4, <1>7, <1>8, <1>9
  DEF Srv!ClientAcknowledges, ServerStands, Srv!Ack, Ack, Srv!MESSAGE_ACK,
      MESSAGE_ACK
<1> QED BY <1>2, <1>8, <1>10

\* A queue of the client is full.
LEMMA ServerSeesDrop ==
  ASSUME ConservationInv, LosesOne, SocketStays, ServerHears
  PROVE  \E e \in InWork : Srv!ClientDrops(e)
<1>1. PICK id \in Ids :
        /\ Accepted(id) /\ Holds(Content, id)
        /\ dropped' = dropped \cup {id} /\ UNCHANGED replies
  BY DEF LosesOne
<1>2. id \notin dropped /\ replies[id] = <<Ack(id)>>
  BY <1>1 DEF Accepted
<1>3. <<1, id>> \in InWork
  BY <1>2 DEF InWork
<1>4. InWork' = InWork \ {<<1, id>>}
  <2>1. \A k \in Ids : k \notin dropped' /\ replies'[k] = <<Ack(k)>> <=>
          k \notin dropped /\ replies[k] = <<Ack(k)>> /\ k # id
    BY <1>1
  <2> QED BY <2>1 DEF InWork
<1>5. /\ Unacknowledged' = Unacknowledged
      /\ FirstRun(clientSocket)' = FirstRun(clientSocket)
  BY DEF SocketStays, Unacknowledged
<1>6. ServerStands /\ UNCHANGED serverSocket
  BY <1>1, NothingIsSent, ServerStandsStill DEF ServerHears
<1>7. Srv!ClientDrops(<<1, id>>)
  BY <1>4, <1>5, <1>6 DEF Srv!ClientDrops, ServerStands, Srv!networkVars
<1> QED BY <1>3, <1>7

\* ReportOutcome of a vehicle, or SendFailureCompletion
LEMMA ServerSeesReport ==
  ASSUME ConservationInv, ReportsOne, SocketStays, ServerHears,
         serverSocket \in Seq(ClientMessage), Running
  PROVE  \E e \in InWork, outcome \in Srv!Outcomes : Srv!ClientCompletes(e, outcome)
<1>1. PICK id \in Ids, outcome \in Outcomes :
        /\ Accepted(id) /\ Holds(Content, id)
        /\ Send(Completion(id, outcome)) /\ UNCHANGED dropped
  BY DEF ReportsOne
<1>0. ClientInv
  BY DEF ConservationInv
<1>2. /\ id \notin dropped /\ replies[id] = <<Ack(id)>>
      /\ replies \in [Ids -> Seq(ClientMessage)]
  BY <1>0, <1>1 DEF Accepted, ClientInv
<1>3. /\ Completion(id, outcome) \in ClientMessage
      /\ Completion(id, outcome).eventId = id
  BY Datagrams
<1>4. Sent = {Completion(id, outcome)}
      /\ Srv!SendToServer(<<1, Completion(id, outcome)>>)
  BY <1>0, <1>1, <1>3, WhatIsSent, DatagramArrives
<1>5. /\ replies'[id] = <<Ack(id), Completion(id, outcome)>>
      /\ \A k \in Ids \ {id} : replies'[k] = replies[k]
  <2>1. replies' = [replies EXCEPT ![id] = Append(@, Completion(id, outcome))]
    BY <1>1, <1>3 DEF Send
  <2>2. replies'[id] = Append(<<Ack(id)>>, Completion(id, outcome))
    BY <1>2, <2>1
  <2> QED BY <1>2, <2>1, <2>2, SecondAppended
<1>6. <<1, id>> \in InWork /\ InWork' = InWork \ {<<1, id>>}
  <2>1. replies'[id] # <<Ack(id)>>
    <3>1. Len(<<Ack(id), Completion(id, outcome)>>) # Len(<<Ack(id)>>)
      OBVIOUS
    <3> QED BY <1>5, <3>1
  <2>2. \A k \in Ids : k \notin dropped' /\ replies'[k] = <<Ack(k)>> <=>
          k \notin dropped /\ replies[k] = <<Ack(k)>> /\ k # id
    BY <1>1, <1>5, <2>1
  <2> QED BY <1>2, <2>2 DEF InWork
<1>7. /\ Unacknowledged' = Unacknowledged
      /\ FirstRun(clientSocket)' = FirstRun(clientSocket)
  BY DEF SocketStays, Unacknowledged
<1>8. ServerStands
  BY ServerStandsStill DEF ServerHears
<1>9. Srv!ClientCompletes(<<1, id>>, outcome)
  BY <1>4, <1>6, <1>7, <1>8
  DEF Srv!ClientCompletes, ServerStands, Srv!Completion, Completion,
      Srv!MESSAGE_COMPLETION, MESSAGE_COMPLETION
<1>10. outcome \in Srv!Outcomes
  BY DEF Outcomes, Srv!Outcomes, STATUS_COMPLETED, Srv!STATUS_COMPLETED,
         STATUS_FAILED, Srv!STATUS_FAILED, STATUS_CANCELLED, Srv!STATUS_CANCELLED
<1> QED BY <1>6, <1>9, <1>10

\* Any step.
LEMMA ServerSeesClient ==
  ASSUME ConservationInv, ClientInv', ClientTasks, ServerHears,
         serverSocket \in Seq(ClientMessage), Running
  PROVE  [Srv!Next]_(Srv!vars)
<1>0. ClientInv
  BY DEF ConservationInv
<1>1. CASE ClientUdpReceiveMessage
  BY <1>0, <1>1, ServerSeesReceiving DEF Srv!Next, Srv!Client
<1>2. CASE SendAck
  BY <1>2, ServerSeesAck DEF Srv!Next, Srv!Client
<1>3. CASE SocketStays /\ LosesOne
  BY <1>3, ServerSeesDrop DEF Srv!Next, Srv!Client
<1>4. CASE SocketStays /\ ReportsOne
  BY <1>4, ServerSeesReport DEF Srv!Next, Srv!Client
<1>5. CASE SocketStays /\ UNCHANGED historyVars
  <2>1. ServerStands /\ UNCHANGED serverSocket
    BY <1>5, NothingIsSent, ServerStandsStill DEF ServerHears, historyVars
  <2>2. /\ Unacknowledged' = Unacknowledged
        /\ FirstRun(clientSocket)' = FirstRun(clientSocket)
    BY <1>5 DEF SocketStays, Unacknowledged
  <2>3. InWork' = InWork
    BY <1>5 DEF InWork, historyVars
  <2> QED BY <2>1, <2>2, <2>3 DEF ServerStands, Srv!vars, Srv!networkVars, Srv!clientVars
<1> QED BY <1>1, <1>2, <1>3, <1>4, <1>5, WhatTheServerNotices

-----------------------------------------------------------------------------
(* The server numbers its events, so that none is sent twice *)

\* The events on their way to the client's socket are the server's and are in
\* the order of their numbers: those sent, the one being sent, the queue, the
\* generator's, and the next.
Numbered ==
  /\ gpc \in {"create", "insert", "queue"}
  /\ gpc = "create" <=> event = None
  /\ nextEventId \in 1 .. MaxEvents + 1
  /\ event \in Events \cup {None}
  /\ serverUdpTxQueue \in Seq(Events)
  /\ txEvent \in Events \cup {None}
  /\ \A m \in sent : m.eventId < nextEventId
  /\ event # None =>
       /\ event.eventId < nextEventId
       /\ \A m \in sent : m.eventId < event.eventId
  /\ txEvent # None =>
       /\ txEvent.eventId < nextEventId
       /\ event # None => txEvent.eventId < event.eventId
       /\ \A m \in sent : m.eventId < txEvent.eventId
  /\ \A n \in DOMAIN serverUdpTxQueue :
       /\ serverUdpTxQueue[n].eventId < nextEventId
       /\ event # None => serverUdpTxQueue[n].eventId < event.eventId
       /\ txEvent # None => txEvent.eventId < serverUdpTxQueue[n].eventId
       /\ \A m \in sent : m.eventId < serverUdpTxQueue[n].eventId
       /\ \A k \in DOMAIN serverUdpTxQueue :
            k < n => serverUdpTxQueue[k].eventId < serverUdpTxQueue[n].eventId

\* Events have numbers.
LEMMA EventNumbers ==
  /\ None \notin Events
  /\ \A m \in Events : m.eventId \in 1 .. MaxEvents
  /\ \A id \in 1 .. MaxEvents, t \in Templates :
       [eventId |-> id, type |-> t[1], priority |-> t[2], retryCount |-> 0]
         \in Events
  /\ Ids \subseteq 1 .. MaxEvents
<1>1. \A m \in Events : m.eventId \in 1 .. MaxEvents
  BY SystemAssumption
<1>2. Ids \subseteq 1 .. MaxEvents
  BY <1>1 DEF Ids
<1>3. None \notin Events
  BY RetriedAreArrivals
<1> QED BY <1>1, <1>2, <1>3, SystemAssumption

\* The transmit task sends what was not sent before, or the datagram is lost.
LEMMA TransmitsOnce ==
  ASSUME Numbered, ServerTransmits
  PROVE  [\E m \in Events : ServerSends(m)]_clientVars
<1>1. /\ txEvent \in Events
      /\ \A m \in sent : m.eventId < txEvent.eventId /\ m.eventId # txEvent.eventId
      /\ clientSocket' \in AfterSendto(clientSocket, txEvent)
      /\ sent' = IF clientSocket' = clientSocket THEN sent ELSE sent \cup {txEvent}
      /\ UNCHANGED <<departmentVars, rxpc, rxEvent, clientRxQueue, dispatchEvent,
                     faultVars, clientCounters, historyVars>>
  <2>1. txEvent \in Events
    BY DEF ServerTransmits, Numbered
  <2>2. \A m \in sent : m.eventId < txEvent.eventId /\ m.eventId # txEvent.eventId
    <3>1. txEvent.eventId \in 1 .. MaxEvents /\ txEvent # None
      BY <2>1, EventNumbers
    <3>2. \A m \in sent : m.eventId < txEvent.eventId
      BY <3>1 DEF Numbered
    <3> QED BY <3>1, <3>2
  <2> QED BY <2>1, <2>2 DEF ServerTransmits
<1>2. CASE clientSocket' = clientSocket
  BY <1>1, <1>2 DEF clientVars, rxVars
<1>3. CASE clientSocket' # clientSocket
  BY <1>1, <1>3 DEF AfterSendto, ServerSends
<1> QED BY <1>2, <1>3

\* So every step of the system is one the client knows,
LEMMA ClientSide ==
  ASSUME Numbered, [SystemNext]_systemVars
  PROVE  [ClientNext]_clientVars
<1>1. CASE ServerTransmits
  BY <1>1, TransmitsOnce DEF ClientNext
<1>2. CASE UNCHANGED systemVars
  BY <1>2 DEF systemVars
<1> QED BY <1>1, <1>2 DEF SystemNext, ClientNext, ServerGenerates, ServerTakes,
                          ServerReceives, ServerRecords

\* and one the server knows.
LEMMA ServerSide ==
  ASSUME ConservationInv, Numbered, serverSocket \in Seq(ClientMessage), Running,
         [SystemNext]_systemVars
  PROVE  [Srv!Next]_(Srv!vars)
<1>1. CASE ClientTasks /\ ServerHears
  <2>1. ClientInv'
    BY <1>1, ClientStep DEF ConservationInv, ClientNext
  <2> QED BY <1>1, <2>1, ServerSeesClient
<1>2. CASE ServerGenerates
  BY <1>2 DEF ServerGenerates, Srv!Next
<1>3. CASE ServerTakes \/ ServerTransmits
  BY <1>3 DEF ServerTakes, ServerTransmits, Srv!Next, Srv!ServerUdpTxTask
<1>4. CASE ServerReceives \/ ServerRecords
  BY <1>4 DEF ServerReceives, ServerRecords, Srv!Next, Srv!ServerUdpRxTask
<1>5. CASE UNCHANGED systemVars
  <2>1. ServerStands
    BY <1>5, ServerStandsStill DEF systemVars
  <2>2. /\ UNCHANGED <<clientSocket, serverSocket>>
        /\ Unacknowledged' = Unacknowledged /\ InWork' = InWork
    BY <1>5 DEF systemVars, clientVars, rxVars, historyVars, Unacknowledged, InWork
  <2> QED BY <2>1, <2>2 DEF ServerStands, Srv!vars, Srv!networkVars, Srv!clientVars
<1> QED BY <1>1, <1>2, <1>3, <1>4, <1>5 DEF SystemNext

\* The numbers stay in order.
LEMMA NumberedStep ==
  ASSUME ClientInv, Numbered, [SystemNext]_systemVars
  PROVE  Numbered'
<1>0. /\ None \notin Events
      /\ \A m \in Events : m.eventId \in 1 .. MaxEvents
      /\ MaxEvents \in Nat /\ sent \subseteq Events
  BY EventNumbers, SystemAssumption DEF ClientInv
<1>1. CASE UNCHANGED <<gpc, event, nextEventId, serverUdpTxQueue, txEvent, sent>>
  BY <1>1 DEF Numbered
<1>2. CASE Srv!CreateRandomEvent /\ UNCHANGED clientVars
  <2>1. /\ gpc = "create" /\ nextEventId <= MaxEvents /\ event = None
        /\ nextEventId' = nextEventId + 1 /\ gpc' = "insert"
        /\ UNCHANGED <<serverUdpTxQueue, txEvent, sent>>
        /\ nextEventId \in 1 .. MaxEvents
    BY <1>2 DEF Srv!CreateRandomEvent, Srv!txVars, clientVars, rxVars, Numbered
  <2>2. PICK template \in Templates :
          event' = [eventId |-> nextEventId, type |-> template[1],
                    priority |-> template[2], retryCount |-> 0]
    BY <1>2 DEF Srv!CreateRandomEvent
  <2>3. event' \in Events /\ event'.eventId = nextEventId
    BY <2>1, <2>2, EventNumbers
  <2> QED BY <1>0, <2>1, <2>3 DEF Numbered
<1>3. CASE Srv!QueueEvent /\ UNCHANGED clientVars
  <2>1. /\ gpc = "queue" /\ event # None /\ event' = None /\ gpc' = "create"
        /\ serverUdpTxQueue' = Append(serverUdpTxQueue, event)
        /\ UNCHANGED <<nextEventId, txEvent, sent>>
    BY <1>3 DEF Srv!QueueEvent, clientVars, rxVars, Numbered
  <2>2. /\ \A n \in DOMAIN serverUdpTxQueue' :
             \/ /\ n \in DOMAIN serverUdpTxQueue
                /\ serverUdpTxQueue'[n] = serverUdpTxQueue[n]
                /\ n <= Len(serverUdpTxQueue)
             \/ n = Len(serverUdpTxQueue) + 1 /\ serverUdpTxQueue'[n] = event
        /\ serverUdpTxQueue' \in Seq(Events) /\ event \in Events
        /\ Len(serverUdpTxQueue) \in Nat
    BY <2>1, AppendEntries DEF Numbered
  <2> QED BY <1>0, <2>1, <2>2 DEF Numbered
<1>4. CASE Srv!DropEvent /\ UNCHANGED clientVars
  BY <1>4 DEF Srv!DropEvent, Srv!txVars, clientVars, rxVars, Numbered
<1>5. CASE Srv!DatabaseInsertEvent /\ UNCHANGED clientVars
  <2>1. /\ gpc = "insert" /\ gpc' = "queue"
        /\ UNCHANGED <<event, nextEventId, serverUdpTxQueue, txEvent, sent>>
    BY <1>5 DEF Srv!DatabaseInsertEvent, Srv!txVars, clientVars, rxVars
  <2> QED BY <2>1 DEF Numbered
<1>6. CASE ServerTakes
  <2>1. /\ txEvent = None /\ serverUdpTxQueue # << >>
        /\ txEvent' = Head(serverUdpTxQueue)
        /\ serverUdpTxQueue' = Tail(serverUdpTxQueue)
        /\ UNCHANGED <<gpc, event, nextEventId, sent>>
    BY <1>6 DEF ServerTakes, Srv!TakeEvent, Srv!generatorVars, clientVars, rxVars
  <2>2. /\ serverUdpTxQueue \in Seq(Events)
        /\ Head(serverUdpTxQueue) = serverUdpTxQueue[1]
        /\ 1 \in DOMAIN serverUdpTxQueue
        /\ Head(serverUdpTxQueue) \in Events
        /\ Tail(serverUdpTxQueue) \in Seq(Events)
    BY <2>1, QueueEnds DEF Numbered
  <2>3. \A n \in DOMAIN serverUdpTxQueue' :
          /\ n \in Nat /\ n + 1 \in DOMAIN serverUdpTxQueue /\ 1 < n + 1
          /\ serverUdpTxQueue'[n] = serverUdpTxQueue[n + 1]
    BY <2>1, <2>2
  <2> QED BY <1>0, <2>1, <2>2, <2>3 DEF Numbered
<1>7. CASE ServerTransmits
  <2>1. /\ txEvent \in Events /\ txEvent # None /\ txEvent' = None
        /\ UNCHANGED <<gpc, event, nextEventId, serverUdpTxQueue>>
        /\ sent' \subseteq sent \cup {txEvent}
    BY <1>7 DEF ServerTransmits, Srv!ServerUdpSendMessage, Srv!generatorVars,
                Numbered
  <2> QED BY <2>1 DEF Numbered
<1>8. CASE ServerReceives \/ ServerRecords
  <2>1. UNCHANGED <<gpc, event, nextEventId, serverUdpTxQueue, txEvent, sent>>
    BY <1>8 DEF ServerReceives, ServerRecords, Srv!ReceiveAck,
                Srv!ReceiveCompletion, Srv!DatabaseUpdateCompletion,
                Srv!generatorVars, Srv!txVars, clientVars, rxVars
  <2> QED BY <1>1, <2>1
<1>9. CASE ClientTasks /\ ServerHears
  <2>1. UNCHANGED sent
    BY <1>9 DEF ClientTasks, ClientUdpRxTask, ClientUdpReceiveMessage, SendAck,
      EnqueueEvent, ClientDispatcherTask, ReceiveForDispatch, ForwardEvent,
      Dispatch, DropUndispatched, FaultManagerTask, RetryEvent, RequeueEvent,
      DropRetry, GiveUp, SendFailureCompletion, Vehicle, DriveVehicle,
      CancelEvent, FinishEvent, ReportOutcome, DropFailed, ShiftManager, rxVars
  <2> QED BY <1>1, <1>9, <2>1 DEF ServerHears, serverVars
<1>10. CASE UNCHANGED systemVars
  BY <1>1, <1>10 DEF systemVars, serverVars, clientVars, rxVars
<1> QED BY <1>2, <1>3, <1>4, <1>5, <1>6, <1>7, <1>8, <1>9, <1>10
        DEF SystemNext, ServerGenerates, Srv!ServerEventGeneratorTask

\* The server of the system is not shut down.
LEMMA RunningStep ==
  ASSUME Running, [SystemNext]_systemVars
  PROVE  Running'
BY DEF Running, SystemNext, ServerHears, serverVars, ServerGenerates, ServerTakes,
  ServerTransmits, ServerReceives, ServerRecords, Srv!ServerEventGeneratorTask,
  Srv!CreateRandomEvent, Srv!DatabaseInsertEvent, Srv!QueueEvent, Srv!DropEvent,
  Srv!TakeEvent, Srv!ServerUdpSendMessage, Srv!ReceiveAck, Srv!ReceiveCompletion,
  Srv!DatabaseUpdateCompletion, Srv!processVars, systemVars

-----------------------------------------------------------------------------
(* What the server hears and records is what the client has said *)

\* The client has sent datagram m.
Told(m) == \E n \in DOMAIN replies[m.eventId] : replies[m.eventId][n] = m

\* It lies in the server's socket.
InServerSocket(m) == \E n \in DOMAIN serverSocket : serverSocket[n] = m

\* A completion the client has sent.
Completed(m) ==
  /\ m \in ClientMessage /\ m.type = MESSAGE_COMPLETION
  /\ m.eventId \in Ids /\ Told(m)

\* The server's socket has datagrams of the client, each once, its receive task
\* has a completion of the client, and so has the table.
Heard ==
  /\ serverSocket \in Seq(ClientMessage)
  /\ \A n \in DOMAIN serverSocket :
       serverSocket[n].eventId \in Ids /\ Told(serverSocket[n])
  /\ \A n, k \in DOMAIN serverSocket : serverSocket[n] = serverSocket[k] => n = k
  /\ rxCompletion # None => Completed(rxCompletion[2])
  /\ \A id \in DOMAIN rows :
       rows[id] # STATUS_PENDING => Completed(Completion(id, rows[id]))

\* The two kinds of datagrams.
LEMMA MessageKinds ==
  ASSUME NEW m \in ClientMessage
  PROVE  \/ /\ m.type = MESSAGE_ACK /\ m = Ack(m.eventId)
            /\ m.type # MESSAGE_COMPLETION
         \/ /\ m.type = MESSAGE_COMPLETION /\ m.status \in Outcomes
            /\ m = Completion(m.eventId, m.status)
            /\ m.type # MESSAGE_ACK
BY DEF ClientMessage, Ack, Completion, MESSAGE_ACK, MESSAGE_COMPLETION

\* A step of the client says one thing more, or nothing.
LEMMA ClientTells ==
  ASSUME ConservationInv, ClientInv', ClientTasks
  PROVE  \/ UNCHANGED replies
         \/ \E m \in ClientMessage :
              /\ m.eventId \in Ids /\ Send(m) /\ Sent = {m} /\ ~Told(m)
<1>0. ClientInv
  BY DEF ConservationInv
<1>1. CASE SendAck
  <2>1. rxEvent \in Events /\ rxpc = "ack" /\ Send(Ack(rxEvent.eventId))
    BY <1>0, <1>1 DEF SendAck, ClientInv
  <2>2. PICK id \in Ids : id = rxEvent.eventId
    BY <2>1 DEF Ids
  <2>3. Ack(id) \in ClientMessage /\ Ack(id).eventId = id
    BY Datagrams DEF Outcomes
  <2>4. replies[id] = << >>
    <3>1. New(id)
      BY <2>1, <2>2 DEF New
    <3> QED BY <3>1 DEF ConservationInv, Phase, Unanswered, Accepted, Answered
  <2>5. ~Told(Ack(id))
    BY <2>3, <2>4 DEF Told
  <2> QED BY <1>0, <2>1, <2>2, <2>3, <2>5, WhatIsSent
<1>2. CASE ReportsOne
  <2>1. PICK id \in Ids, outcome \in Outcomes :
          Accepted(id) /\ Send(Completion(id, outcome))
    BY <1>2 DEF ReportsOne
  <2>2. /\ Completion(id, outcome) \in ClientMessage
        /\ Completion(id, outcome).eventId = id
    BY Datagrams
  <2>3. replies[id] = <<Ack(id)>> /\ Completion(id, outcome) # Ack(id)
    <3>1. Completion(id, outcome).type # Ack(id).type
      BY DEF Completion, Ack, MESSAGE_ACK, MESSAGE_COMPLETION
    <3> QED BY <2>1, <3>1 DEF Accepted
  <2>4. ~Told(Completion(id, outcome))
    BY <2>2, <2>3 DEF Told
  <2> QED BY <1>0, <2>1, <2>2, <2>4, WhatIsSent
<1>3. CASE ClientUdpReceiveMessage \/ LosesOne \/ UNCHANGED historyVars
  BY <1>3 DEF ClientUdpReceiveMessage, LosesOne, historyVars
<1> QED BY <1>1, <1>2, <1>3, WhatTheServerNotices

\* What was said stays said.
LEMMA ToldMore ==
  ASSUME ClientInv, NEW m \in ClientMessage, m.eventId \in Ids, Send(m),
         NEW x, x.eventId \in Ids
  PROVE  Told(x)' <=> Told(x) \/ x = m
<1>1. /\ replies \in [Ids -> Seq(ClientMessage)]
      /\ replies' = [replies EXCEPT ![m.eventId] = Append(@, m)]
  BY DEF ClientInv, Send
<1>2. CASE x.eventId = m.eventId
  <2>1. PICK q \in Seq(ClientMessage) : q = replies[x.eventId]
    BY <1>1
  <2>2. replies'[x.eventId] = Append(q, m)
    BY <1>1, <1>2, <2>1
  <2>3. \A y : (\E n \in DOMAIN Append(q, m) : Append(q, m)[n] = y)
                <=> (\E n \in DOMAIN q : q[n] = y) \/ y = m
    BY AppendEntries
  <2>4. Told(x) <=> \E n \in DOMAIN q : q[n] = x
    BY <2>1 DEF Told
  <2>5. Told(x)' <=> \E n \in DOMAIN Append(q, m) : Append(q, m)[n] = x
    BY <2>2 DEF Told
  <2> QED BY <2>3, <2>4, <2>5
<1>3. CASE x.eventId # m.eventId
  <2>1. replies'[x.eventId] = replies[x.eventId] /\ x # m
    BY <1>1, <1>3
  <2> QED BY <2>1 DEF Told
<1> QED BY <1>2, <1>3

\* Without a datagram nothing more is said.
LEMMA ToldTheSame ==
  ASSUME UNCHANGED replies
  PROVE  \A x : Told(x)' <=> Told(x)
BY DEF Told

\* Heard in a step of the client.
LEMMA HeardFromClient ==
  ASSUME ConservationInv, ClientInv', Heard, ClientTasks, ServerHears
  PROVE  Heard'
<1>1. UNCHANGED <<rxCompletion, rows>> /\ ClientInv
  BY DEF ServerHears, serverVars, ConservationInv
<1>2. CASE UNCHANGED replies
  <2>1. UNCHANGED serverSocket
    BY <1>2, NothingIsSent DEF ServerHears
  <2>2. \A x : Told(x)' <=> Told(x)
    BY <1>2, ToldTheSame
  <2> QED BY <1>1, <2>1, <2>2 DEF Heard, Completed
<1>3. ASSUME NEW m \in ClientMessage, m.eventId \in Ids, Send(m), Sent = {m}, ~Told(m)
      PROVE  Heard'
  <2>1. \A x : x.eventId \in Ids => (Told(x)' <=> Told(x) \/ x = m)
    BY <1>1, <1>3, ToldMore
  <2>2. serverSocket' \in AfterSendto(serverSocket, m)
    BY <1>3 DEF ServerHears
  <2>3. CASE UNCHANGED serverSocket
    BY <1>1, <2>1, <2>3 DEF Heard, Completed
  <2>4. CASE serverSocket' = Append(serverSocket, m)
    <3>1. /\ serverSocket \in Seq(ClientMessage)
          /\ serverSocket' \in Seq(ClientMessage)
          /\ \A n \in DOMAIN serverSocket' :
               \/ n \in DOMAIN serverSocket /\ serverSocket'[n] = serverSocket[n]
               \/ n = Len(serverSocket) + 1 /\ serverSocket'[n] = m
      BY <2>4, AppendEntries DEF Heard
    <3>2. \A n \in DOMAIN serverSocket : serverSocket[n] # m
      BY <1>3 DEF Heard
    <3>3. \A n \in DOMAIN serverSocket' :
            serverSocket'[n].eventId \in Ids /\ Told(serverSocket[n])'
      BY <1>3, <2>1, <3>1 DEF Heard
    <3>4. \A n, k \in DOMAIN serverSocket' :
            serverSocket'[n] = serverSocket'[k] => n = k
      BY <3>1, <3>2 DEF Heard
    <3>5. /\ rxCompletion' # None => Completed(rxCompletion[2])'
          /\ \A id \in DOMAIN rows' :
               rows'[id] # STATUS_PENDING => Completed(Completion(id, rows[id]))'
      BY <1>1, <2>1 DEF Heard, Completed
    <3> QED BY <3>1, <3>3, <3>4, <3>5 DEF Heard
  <2> QED BY <2>2, <2>3, <2>4 DEF AfterSendto
<1> QED BY <1>2, <1>3, ClientTells

\* The first datagram in the server's socket.
LEMMA FirstHeard ==
  ASSUME Heard, serverSocket # << >>
  PROVE  /\ Head(serverSocket) \in ClientMessage
         /\ Head(serverSocket).eventId \in Ids /\ Told(Head(serverSocket))
         /\ InServerSocket(Head(serverSocket))
         /\ Head(FirstRun(serverSocket)) = <<1, Head(serverSocket)>>
         /\ Tail(serverSocket) \in Seq(ClientMessage)
         /\ \A n \in DOMAIN Tail(serverSocket) :
              /\ n + 1 \in DOMAIN serverSocket
              /\ Tail(serverSocket)[n] = serverSocket[n + 1]
         /\ \A x : (\E n \in DOMAIN Tail(serverSocket) : Tail(serverSocket)[n] = x)
                  <=> InServerSocket(x) /\ x # Head(serverSocket)
<1>1. serverSocket \in Seq(ClientMessage)
  BY DEF Heard
<1>2. /\ Tail(serverSocket) \in Seq(ClientMessage)
      /\ Head(serverSocket) = serverSocket[1] /\ 1 \in DOMAIN serverSocket
      /\ \A n \in DOMAIN Tail(serverSocket) :
           /\ n + 1 \in DOMAIN serverSocket
           /\ Tail(serverSocket)[n] = serverSocket[n + 1]
      /\ \A n \in DOMAIN serverSocket :
           \/ n = 1
           \/ /\ n - 1 \in DOMAIN Tail(serverSocket)
              /\ serverSocket[n] = Tail(serverSocket)[n - 1]
  BY <1>1, TailEntries
<1>3. Head(FirstRun(serverSocket)) = <<1, Head(serverSocket)>>
  BY <1>1, FirstRunTail
<1>4. /\ Head(serverSocket) \in ClientMessage
      /\ Head(serverSocket).eventId \in Ids /\ Told(Head(serverSocket))
      /\ InServerSocket(Head(serverSocket))
  BY <1>1, <1>2 DEF Heard, InServerSocket
<1>5. ASSUME NEW x
      PROVE  (\E n \in DOMAIN Tail(serverSocket) : Tail(serverSocket)[n] = x)
               <=> InServerSocket(x) /\ x # Head(serverSocket)
  <2>1. ASSUME NEW n \in DOMAIN Tail(serverSocket), Tail(serverSocket)[n] = x
        PROVE  InServerSocket(x) /\ x # Head(serverSocket)
    <3>1. n \in Nat /\ n # 0
      BY <1>2, <2>1
    <3>2. n + 1 # 1
      BY <3>1
    <3> QED BY <1>2, <2>1, <3>2 DEF Heard, InServerSocket
  <2>2. ASSUME InServerSocket(x), x # Head(serverSocket)
        PROVE  \E n \in DOMAIN Tail(serverSocket) : Tail(serverSocket)[n] = x
    BY <1>2, <2>2 DEF InServerSocket
  <2> QED BY <2>1, <2>2
<1> QED BY <1>2, <1>3, <1>4, <1>5

\* Srv!ReceiveAck or Srv!ReceiveCompletion takes it.
LEMMA HeardByServer ==
  ASSUME Heard, ServerReceives
  PROVE  Heard'
<1>1. /\ serverSocket # << >> /\ serverSocket' = Tail(serverSocket)
      /\ UNCHANGED replies
  BY DEF ServerReceives, clientVars, historyVars
<1>2. \A x : Told(x)' <=> Told(x)
  BY <1>1, ToldTheSame
<1>3. UNCHANGED rows
  BY DEF ServerReceives, Srv!ReceiveAck, Srv!ReceiveCompletion, Srv!tableVars
<1>4. \/ UNCHANGED rxCompletion
      \/ /\ rxCompletion' = <<1, Head(serverSocket)>>
         /\ Head(serverSocket).type = MESSAGE_COMPLETION
  <2>1. /\ Head(FirstRun(serverSocket)) = <<1, Head(serverSocket)>>
        /\ Head(FirstRun(serverSocket))[2] = Head(serverSocket)
    BY <1>1, FirstHeard
  <2>2. CASE Srv!ReceiveAck
    BY <2>2 DEF Srv!ReceiveAck
  <2>3. CASE Srv!ReceiveCompletion
    <3>1. /\ rxCompletion' = Head(FirstRun(serverSocket))
          /\ Head(FirstRun(serverSocket))[2].type = MESSAGE_COMPLETION
      BY <2>3 DEF Srv!ReceiveCompletion, Srv!MESSAGE_COMPLETION, MESSAGE_COMPLETION
    <3> QED BY <2>1, <3>1
  <2> QED BY <2>2, <2>3 DEF ServerReceives
<1>5. rxCompletion' # None => Completed(rxCompletion[2])'
  <2>1. CASE UNCHANGED rxCompletion
    BY <1>2, <2>1 DEF Heard, Completed
  <2>2. CASE /\ rxCompletion' = <<1, Head(serverSocket)>>
             /\ Head(serverSocket).type = MESSAGE_COMPLETION
    <3>1. rxCompletion'[2] = Head(serverSocket)
      BY <2>2
    <3> QED BY <1>1, <1>2, <2>2, <3>1, FirstHeard DEF Completed
  <2> QED BY <1>4, <2>1, <2>2
<1>6. /\ serverSocket' \in Seq(ClientMessage)
      /\ \A n \in DOMAIN serverSocket' :
           /\ n + 1 \in DOMAIN serverSocket /\ n \in Nat
           /\ serverSocket'[n] = serverSocket[n + 1]
  BY <1>1, FirstHeard
<1>7. \A n, k \in DOMAIN serverSocket' : serverSocket'[n] = serverSocket'[k] => n = k
  <2> SUFFICES ASSUME NEW n \in DOMAIN serverSocket', NEW k \in DOMAIN serverSocket',
                      serverSocket'[n] = serverSocket'[k]
               PROVE  n = k
    OBVIOUS
  <2>1. n + 1 = k + 1
    BY <1>6 DEF Heard
  <2> QED BY <1>6, <2>1
<1> QED BY <1>2, <1>3, <1>5, <1>6, <1>7 DEF Heard, Completed

\* Srv!DatabaseUpdateCompletion records it.
LEMMA HeardIsRecorded ==
  ASSUME Heard, ServerRecords
  PROVE  Heard'
<1>1. /\ UNCHANGED <<serverSocket, replies>> /\ rxCompletion' = None
      /\ rxCompletion # None
  BY DEF ServerRecords, Srv!DatabaseUpdateCompletion, clientVars, historyVars
<1>2. \A x : Told(x)' <=> Told(x)
  BY <1>1, ToldTheSame
<1> DEFINE m == rxCompletion[2]
<1>3. Completed(m) /\ m = Completion(m.eventId, m.status)
  BY <1>1, MessageKinds DEF Heard, Completed
<1>4. rows' \in {rows, [id \in DOMAIN rows |-> IF id = m.eventId THEN m.status
                                                            ELSE rows[id]]}
  BY DEF ServerRecords, Srv!DatabaseUpdateCompletion, Srv!Statement
<1> HIDE DEF m
<1>5. ASSUME NEW id \in DOMAIN rows', rows'[id] # STATUS_PENDING
      PROVE  Completed(Completion(id, rows'[id]))
  <2>1. id \in DOMAIN rows
    BY <1>4, <1>5
  <2>2. \/ rows'[id] = rows[id]
        \/ id = m.eventId /\ rows'[id] = m.status
    BY <1>4, <2>1
  <2> QED BY <1>3, <1>5, <2>1, <2>2 DEF Heard
<1> QED BY <1>1, <1>2, <1>5 DEF Heard, Completed

\* The generator inserts pending rows.
LEMMA HeardIsKept ==
  ASSUME Heard, ServerGenerates
  PROVE  Heard'
<1>1. UNCHANGED <<serverSocket, replies, rxCompletion>>
  BY DEF ServerGenerates, Srv!ServerEventGeneratorTask, Srv!CreateRandomEvent,
         Srv!DatabaseInsertEvent, Srv!QueueEvent, Srv!DropEvent, Srv!rxVars,
         clientVars, historyVars
<1>2. \A x : Told(x)' <=> Told(x)
  BY <1>1, ToldTheSame
<1>3. ASSUME NEW id \in DOMAIN rows', rows'[id] # STATUS_PENDING
      PROVE  id \in DOMAIN rows /\ rows'[id] = rows[id]
  <2>1. CASE UNCHANGED rows
    BY <1>3, <2>1
  <2>2. CASE Srv!DatabaseInsertEvent
    BY <1>3, <2>2 DEF Srv!DatabaseInsertEvent, Srv!Statement, Srv!STATUS_PENDING,
                      STATUS_PENDING
  <2> QED BY <2>1, <2>2
          DEF ServerGenerates, Srv!ServerEventGeneratorTask, Srv!CreateRandomEvent,
              Srv!QueueEvent, Srv!DropEvent, Srv!tableVars
<1> QED BY <1>1, <1>2, <1>3 DEF Heard, Completed

\* In every step.
LEMMA HeardStep ==
  ASSUME ConservationInv, Heard, [SystemNext]_systemVars
  PROVE  Heard'
<1>1. CASE ClientTasks /\ ServerHears
  <2>1. ClientInv'
    BY <1>1, ClientStep DEF ConservationInv, ClientNext
  <2> QED BY <1>1, <2>1, HeardFromClient
<1>2. CASE UNCHANGED <<serverSocket, replies, rxCompletion, rows>>
  <2>1. \A x : Told(x)' <=> Told(x)
    BY <1>2, ToldTheSame
  <2> QED BY <1>2, <2>1 DEF Heard, Completed
<1>3. CASE ServerTakes \/ ServerTransmits \/ UNCHANGED systemVars
  BY <1>2, <1>3 DEF ServerTakes, ServerTransmits, Srv!TakeEvent,
     Srv!ServerUdpSendMessage, Srv!rxVars, Srv!tableVars, clientVars,
     historyVars, systemVars, serverVars
<1> QED BY <1>1, <1>3, HeardByServer, HeardIsRecorded, HeardIsKept DEF SystemNext

-----------------------------------------------------------------------------
(* What the server counts is what has arrived *)

\* The kinds of datagrams that are counted one by one.
Kinds == {MESSAGE_ACK} \cup Outcomes

\* The datagram of a kind about event id.
Datagram(id, kind) == IF kind = MESSAGE_ACK THEN Ack(id) ELSE Completion(id, kind)

\* The events of which it was sent and is out of the server's socket: counted
\* or lost.
Arrived(kind) ==
  {id \in Ids : Told(Datagram(id, kind)) /\ ~InServerSocket(Datagram(id, kind))}

\* Its counter.
CountOf(kind) == IF kind = MESSAGE_ACK THEN acksReceived ELSE outcomeCount[kind]

\* The server counts no more than that.
Counted ==
  /\ acksReceived \in Nat
  /\ outcomeCount \in [Outcomes -> Nat]
  /\ \A kind \in Kinds : CountOf(kind) <= Cardinality(Arrived(kind))

\* There are finitely many events.
LEMMA FinitelyMany ==
  /\ IsFiniteSet(Ids)
  /\ \A S \in SUBSET Ids :
       /\ IsFiniteSet(S) /\ Cardinality(S) \in Nat
       /\ \A R \in SUBSET S : Cardinality(R) <= Cardinality(S)
<1>1. IsFiniteSet(1 .. MaxEvents)
  BY SystemAssumption, FS_Interval
<1>2. IsFiniteSet(Ids)
  BY <1>1, EventNumbers, FS_Subset
<1>3. ASSUME NEW S \in SUBSET Ids PROVE IsFiniteSet(S) /\ Cardinality(S) \in Nat
  BY <1>2, FS_Subset, FS_CardinalityType
<1>4. ASSUME NEW S \in SUBSET Ids, NEW R \in SUBSET S
      PROVE  Cardinality(R) <= Cardinality(S)
  BY <1>3, FS_Subset
<1> QED BY <1>2, <1>3, <1>4

\* Datagrams are told apart by event and kind.
LEMMA DatagramIs ==
  /\ \A id \in Ids, kind \in Kinds : /\ Datagram(id, kind) \in ClientMessage
                                     /\ Datagram(id, kind).eventId = id
  /\ \A id \in Ids, kind, other \in Kinds :
       Datagram(id, kind) = Datagram(id, other) => kind = other
  /\ \A m \in ClientMessage : m.eventId \in Ids =>
       \/ m.type = MESSAGE_ACK /\ m = Datagram(m.eventId, MESSAGE_ACK)
       \/ /\ m.type = MESSAGE_COMPLETION /\ m.status \in Outcomes
          /\ m = Datagram(m.eventId, m.status)
<1>1. MESSAGE_ACK \notin Outcomes /\ MESSAGE_ACK # MESSAGE_COMPLETION
  BY DEF Outcomes, MESSAGE_ACK, MESSAGE_COMPLETION, STATUS_COMPLETED,
         STATUS_FAILED, STATUS_CANCELLED
<1>2. ASSUME NEW id \in Ids, NEW kind \in Kinds
      PROVE  /\ Datagram(id, kind) \in ClientMessage
             /\ Datagram(id, kind).eventId = id
  BY <1>1, Datagrams DEF Datagram, Kinds, Outcomes
<1>3. ASSUME NEW id \in Ids, NEW kind \in Kinds, NEW other \in Kinds,
             Datagram(id, kind) = Datagram(id, other)
      PROVE  kind = other
  <2>1. /\ Ack(id).type = MESSAGE_ACK
        /\ \A o : /\ Completion(id, o).type = MESSAGE_COMPLETION
                  /\ Completion(id, o).status = o
    BY DEF Ack, Completion
  <2>2. CASE kind = MESSAGE_ACK \/ other = MESSAGE_ACK
    BY <1>1, <1>3, <2>1, <2>2 DEF Datagram
  <2>3. CASE kind # MESSAGE_ACK /\ other # MESSAGE_ACK
    BY <1>3, <2>1, <2>3 DEF Datagram
  <2> QED BY <2>2, <2>3
<1>4. ASSUME NEW m \in ClientMessage
      PROVE  \/ m.type = MESSAGE_ACK /\ m = Datagram(m.eventId, MESSAGE_ACK)
             \/ /\ m.type = MESSAGE_COMPLETION /\ m.status \in Outcomes
                /\ m = Datagram(m.eventId, m.status)
  BY <1>1, MessageKinds DEF Datagram
<1> QED BY <1>2, <1>3, <1>4

\* Arrived, of the next state.
LEMMA ArrivedIs ==
  \A kind :
    /\ Arrived(kind) \in SUBSET Ids /\ Arrived(kind)' \in SUBSET Ids
    /\ \A id : id \in Arrived(kind) <=>
         /\ id \in Ids /\ Told(Datagram(id, kind))
         /\ ~InServerSocket(Datagram(id, kind))
    /\ \A id : id \in Arrived(kind)' <=>
         /\ id \in Ids /\ Told(Datagram(id, kind))'
         /\ ~InServerSocket(Datagram(id, kind))'
BY DEF Arrived

\* Arrived stays arrived, if nothing is counted.
LEMMA CountedStays ==
  ASSUME Counted, UNCHANGED <<acksReceived, outcomeCount>>,
         \A kind \in Kinds : Arrived(kind) \subseteq Arrived(kind)'
  PROVE  Counted'
<1>1. ASSUME NEW kind \in Kinds PROVE CountOf(kind)' <= Cardinality(Arrived(kind)')
  <2>1. CountOf(kind)' = CountOf(kind) /\ CountOf(kind) \in Nat
    BY DEF CountOf, Counted, Kinds
  <2>2. /\ Cardinality(Arrived(kind)) <= Cardinality(Arrived(kind)')
        /\ Cardinality(Arrived(kind)) \in Nat /\ Cardinality(Arrived(kind)') \in Nat
    BY FinitelyMany, ArrivedIs
  <2>3. CountOf(kind) <= Cardinality(Arrived(kind))
    BY DEF Counted
  <2> QED BY <2>1, <2>2, <2>3
<1> QED BY <1>1 DEF Counted

\* What is sent has not arrived yet, or is lost.
LEMMA CountedFromClient ==
  ASSUME ConservationInv, ClientInv', Heard, Counted, ClientTasks, ServerHears
  PROVE  Counted'
<1>1. UNCHANGED <<acksReceived, outcomeCount>> /\ ClientInv
  BY DEF ServerHears, serverVars, ConservationInv
<1>2. CASE UNCHANGED replies
  <2>1. UNCHANGED serverSocket
    BY <1>2, NothingIsSent DEF ServerHears
  <2>2. \A kind \in Kinds : Arrived(kind)' = Arrived(kind)
    BY <1>2, <2>1 DEF Arrived, Told, InServerSocket
  <2> QED BY <1>1, <2>2, CountedStays
<1>3. ASSUME NEW m \in ClientMessage, m.eventId \in Ids, Send(m), Sent = {m}, ~Told(m)
      PROVE  Counted'
  <2>1. ASSUME NEW kind \in Kinds, NEW id \in Arrived(kind)
        PROVE  id \in Arrived(kind)'
    <3>1. /\ id \in Ids /\ Told(Datagram(id, kind))
          /\ ~InServerSocket(Datagram(id, kind))
      BY <2>1, ArrivedIs
    <3>2. PICK x : x = Datagram(id, kind)
      OBVIOUS
    <3>3. x.eventId \in Ids /\ x # m
      BY <1>3, <3>1, <3>2, DatagramIs
    <3>4. Told(x)'
      BY <1>1, <1>3, <3>1, <3>2, <3>3, ToldMore
    <3>5. ~InServerSocket(x)'
      <4>1. serverSocket' \in AfterSendto(serverSocket, m)
        BY <1>3 DEF ServerHears
      <4>2. /\ serverSocket \in Seq(ClientMessage)
            /\ \A n \in DOMAIN serverSocket : serverSocket[n] # x
        BY <3>1, <3>2 DEF InServerSocket, Heard
      <4>3. CASE serverSocket' = Append(serverSocket, m)
        BY <3>3, <4>2, <4>3, AppendEntries DEF InServerSocket
      <4>4. CASE serverSocket' = serverSocket
        BY <4>2, <4>4 DEF InServerSocket
      <4> QED BY <4>1, <4>3, <4>4 DEF AfterSendto
    <3> QED BY <3>1, <3>2, <3>4, <3>5, ArrivedIs
  <2> QED BY <1>1, <2>1, CountedStays
<1> QED BY <1>2, <1>3, ClientTells

\* The server's receive task takes the first datagram, which has now arrived,
\* and counts it, unless the counter wraps to zero.
LEMMA CountedByServer ==
  ASSUME Heard, Counted, ServerReceives
  PROVE  Counted'
<1> DEFINE m == Head(serverSocket)
<1>1. /\ serverSocket # << >> /\ serverSocket' = Tail(serverSocket)
      /\ UNCHANGED replies
  BY DEF ServerReceives, clientVars, historyVars
<1>2. /\ m \in ClientMessage /\ m.eventId \in Ids /\ Told(m) /\ InServerSocket(m)
      /\ Head(FirstRun(serverSocket))[2] = m
  BY <1>1, FirstHeard
<1>3. \A x : /\ Told(x)' <=> Told(x)
             /\ InServerSocket(x)' <=> InServerSocket(x) /\ x # m
  BY <1>1, ToldTheSame, FirstHeard DEF InServerSocket
<1>4. PICK e, kind : /\ e = m.eventId /\ kind \in Kinds /\ m = Datagram(e, kind)
                     /\ m.type = MESSAGE_ACK <=> kind = MESSAGE_ACK
                     /\ kind # MESSAGE_ACK => kind = m.status
  <2>1. MESSAGE_ACK \notin Outcomes /\ MESSAGE_ACK # MESSAGE_COMPLETION
    BY DEF Outcomes, MESSAGE_ACK, MESSAGE_COMPLETION, STATUS_COMPLETED,
           STATUS_FAILED, STATUS_CANCELLED
  <2> QED BY <1>2, <2>1, DatagramIs DEF Kinds
<1> HIDE DEF m
<1>5. \A k \in Kinds : Arrived(k) \subseteq Arrived(k)'
  BY <1>3, ArrivedIs
<1>6. e \notin Arrived(kind) /\ e \in Arrived(kind)'
  BY <1>2, <1>3, <1>4, ArrivedIs
<1>7. Cardinality(Arrived(kind)) + 1 <= Cardinality(Arrived(kind)')
  <2>1. /\ Arrived(kind) \cup {e} \in SUBSET Arrived(kind)'
        /\ Arrived(kind)' \in SUBSET Ids /\ Arrived(kind) \in SUBSET Ids
    BY <1>4, <1>5, <1>6, ArrivedIs
  <2>2. Cardinality(Arrived(kind) \cup {e}) <= Cardinality(Arrived(kind)')
    BY <2>1, FinitelyMany
  <2>3. Cardinality(Arrived(kind) \cup {e}) = Cardinality(Arrived(kind)) + 1
    BY <1>6, <2>1, FinitelyMany, OneMore
  <2> QED BY <2>2, <2>3
<1>8. /\ acksReceived' \in Nat /\ outcomeCount' \in [Outcomes -> Nat]
      /\ CountOf(kind)' <= CountOf(kind) + 1
      /\ \A k \in Kinds \ {kind} : CountOf(k)' = CountOf(k)
  <2>1. UintRange \in Nat \ {0} /\ acksReceived \in Nat
        /\ outcomeCount \in [Outcomes -> Nat]
        /\ \A n \in Nat : /\ (n + 1) % UintRange \in Nat
                          /\ (n + 1) % UintRange <= n + 1
    <3>1. UintRange \in Nat \ {0}
      BY SystemAssumption
    <3>2. ASSUME NEW n \in Nat, NEW u \in Nat \ {0}
          PROVE  n % u \in Nat /\ n % u <= n
      OBVIOUS
    <3> QED BY <3>1, <3>2 DEF Counted
  <2>2. CASE Srv!ReceiveAck
    <3>1. /\ acksReceived' = (acksReceived + 1) % UintRange
          /\ UNCHANGED outcomeCount /\ m.type = MESSAGE_ACK
      BY <1>2, <2>2 DEF Srv!ReceiveAck, Srv!MESSAGE_ACK, MESSAGE_ACK
    <3> QED BY <1>4, <2>1, <3>1 DEF CountOf, Kinds
  <2>3. CASE Srv!ReceiveCompletion
    <3>1. /\ outcomeCount' = [outcomeCount EXCEPT ![m.status] = (@ + 1) % UintRange]
          /\ UNCHANGED acksReceived /\ m.type = MESSAGE_COMPLETION
      BY <1>2, <2>3 DEF Srv!ReceiveCompletion, Srv!MESSAGE_COMPLETION,
                        MESSAGE_COMPLETION
    <3>2. kind # MESSAGE_ACK /\ kind = m.status /\ kind \in Outcomes
      BY <1>4, <3>1 DEF Kinds, MESSAGE_ACK, MESSAGE_COMPLETION
    <3>3. /\ outcomeCount' \in [Outcomes -> Nat]
          /\ outcomeCount'[kind] = (outcomeCount[kind] + 1) % UintRange
          /\ \A k \in Outcomes \ {kind} : outcomeCount'[k] = outcomeCount[k]
      BY <2>1, <3>1, <3>2
    <3> QED BY <2>1, <3>1, <3>2, <3>3 DEF CountOf, Kinds
  <2> QED BY <2>2, <2>3 DEF ServerReceives
<1>9. ASSUME NEW k \in Kinds PROVE CountOf(k)' <= Cardinality(Arrived(k)')
  <2>1. /\ CountOf(k) \in Nat /\ CountOf(k)' \in Nat
        /\ Cardinality(Arrived(k)) \in Nat /\ Cardinality(Arrived(k)') \in Nat
        /\ CountOf(k) <= Cardinality(Arrived(k))
        /\ Cardinality(Arrived(k)) <= Cardinality(Arrived(k)')
    <3>1. CountOf(k) \in Nat /\ CountOf(k)' \in Nat
      BY <1>8 DEF CountOf, Counted, Kinds
    <3> QED BY <1>5, <3>1, FinitelyMany, ArrivedIs DEF Counted
  <2>2. CASE k = kind
    BY <1>7, <1>8, <2>1, <2>2
  <2>3. CASE k # kind
    BY <1>8, <2>1, <2>3
  <2> QED BY <2>2, <2>3
<1> QED BY <1>8, <1>9 DEF Counted

\* In every step.
LEMMA CountedStep ==
  ASSUME ConservationInv, Heard, Counted, [SystemNext]_systemVars
  PROVE  Counted'
<1>1. CASE ClientTasks /\ ServerHears
  <2>1. ClientInv'
    BY <1>1, ClientStep DEF ConservationInv, ClientNext
  <2> QED BY <1>1, <2>1, CountedFromClient
<1>2. CASE UNCHANGED <<serverSocket, replies, acksReceived, outcomeCount>>
  BY <1>2 DEF Counted, CountOf, Arrived, Told, InServerSocket
<1>3. CASE ServerGenerates
  BY <1>2, <1>3 DEF ServerGenerates, Srv!ServerEventGeneratorTask,
     Srv!CreateRandomEvent, Srv!DatabaseInsertEvent, Srv!QueueEvent,
     Srv!DropEvent, Srv!rxVars, clientVars, historyVars
<1>4. CASE ServerTakes \/ ServerTransmits \/ ServerRecords \/ UNCHANGED systemVars
  BY <1>2, <1>4 DEF ServerTakes, ServerTransmits, ServerRecords, Srv!TakeEvent,
     Srv!ServerUdpSendMessage, Srv!DatabaseUpdateCompletion, Srv!rxVars,
     clientVars, historyVars, systemVars, serverVars
<1> QED BY <1>1, <1>3, <1>4, CountedByServer DEF SystemNext

-----------------------------------------------------------------------------
(* The theorems *)

\* The inductive invariant.
SystemInv ==
  /\ StatisticsInv
  /\ Running
  /\ Numbered
  /\ Heard
  /\ Counted

\* Both processes start with nothing sent.
LEMMA SystemInitInv == SystemInit => SystemInv
<1> SUFFICES ASSUME SystemInit PROVE SystemInv
  OBVIOUS
<1>1. ClientInit /\ serverSocket = << >> /\ Srv!Init
  BY DEF SystemInit
<1>2. StatisticsInv
  BY <1>1, StatisticsInit
<1>3. /\ stage = "running" /\ gpc = "create" /\ event = None /\ nextEventId = 1
      /\ serverUdpTxQueue = << >> /\ txEvent = None /\ rxCompletion = None
      /\ acksReceived = 0 /\ outcomeCount = [outcome \in Outcomes |-> 0]
      /\ DOMAIN rows = {} /\ sent = {}
  BY <1>1 DEF Srv!Init, Srv!NoRows, ClientInit, Srv!Outcomes, Outcomes,
     Srv!STATUS_COMPLETED, STATUS_COMPLETED, Srv!STATUS_FAILED, STATUS_FAILED,
     Srv!STATUS_CANCELLED, STATUS_CANCELLED
<1>4. Running /\ Numbered /\ Heard
  BY <1>1, <1>3, SystemAssumption DEF Running, Numbered, Heard
<1>5. Counted
  <2>1. ASSUME NEW kind \in Kinds PROVE CountOf(kind) <= Cardinality(Arrived(kind))
    <3>1. CountOf(kind) = 0
      BY <1>3 DEF CountOf, Kinds
    <3>2. Cardinality(Arrived(kind)) \in Nat
      BY FinitelyMany, ArrivedIs
    <3> QED BY <3>1, <3>2
  <2> QED BY <1>3, <2>1 DEF Counted
<1> QED BY <1>2, <1>4, <1>5 DEF SystemInv

\* Every step of either process keeps it.
LEMMA SystemStep == SystemInv /\ [SystemNext]_systemVars => SystemInv'
<1> SUFFICES ASSUME SystemInv, [SystemNext]_systemVars PROVE SystemInv'
  OBVIOUS
<1>1. StatisticsInv /\ Running /\ Numbered /\ Heard /\ Counted
  BY DEF SystemInv
<1>2. ConservationInv /\ ClientInv
  BY <1>1 DEF StatisticsInv, ConservationInv
<1>3. StatisticsInv'
  BY <1>1, ClientSide, StatisticsStep
<1>4. Running' /\ Numbered'
  BY <1>1, <1>2, RunningStep, NumberedStep
<1>5. Heard' /\ Counted'
  BY <1>1, <1>2, HeardStep, CountedStep
<1> QED BY <1>3, <1>4, <1>5 DEF SystemInv

\* The two processes together keep all of it.
THEOREM SystemInvariant == SystemSpec => []SystemInv
BY SystemInitInv, SystemStep, PTL DEF SystemSpec

\* The server does to the client only what the client's module expects of it:
\* whatever waits in its queue or is lost, it sends no event twice.
THEOREM SystemImplementsClient == SystemSpec => ImplementsClient
<1>1. SystemInit => ClientInit
  BY DEF SystemInit
<1>2. SystemInv /\ [SystemNext]_systemVars => [ClientNext]_clientVars
  BY ClientSide DEF SystemInv
<1> QED BY <1>1, <1>2, SystemInvariant, PTL DEF SystemSpec, ImplementsClient

\* The client's tasks, its fault manager and its queues do to the server only
\* what the server's module expects of them: each event received is
\* acknowledged once, then completed or dropped, once.
THEOREM SystemImplementsServer == SystemSpec => ImplementsServer
<1>1. SystemInit => Srv!Init
  BY DEF SystemInit
<1>2. SystemInv /\ [SystemNext]_systemVars => [Srv!Next]_(Srv!vars)
  BY ServerSide DEF SystemInv, StatisticsInv, Heard
<1> QED BY <1>1, <1>2, SystemInvariant, PTL
        DEF SystemSpec, ImplementsServer, Srv!Spec

\* What was proved of the client alone holds in the system.
THEOREM ClientInTheSystem ==
  SystemSpec => [](EventConserved /\ AckThenOneCompletion /\ StatisticsBalance)
<1>1. SystemInv => EventConserved /\ AckThenOneCompletion /\ StatisticsBalance
  BY Conserved, InOrder, Balanced DEF SystemInv, StatisticsInv
<1> QED BY <1>1, SystemInvariant, PTL

\* So does the promise the client makes about each event (module
\* EventLifecycle), now with the server that really sends it.
THEOREM LifecycleInTheSystem == SystemSpec => ImplementsLifecycle
<1>1. SystemInit => Lifecycle!Init
  BY LifecycleInit DEF SystemInit
<1>2. SystemInv /\ [SystemNext]_systemVars
        => [Lifecycle!Next]_<<[id \in Ids |-> Fate(id)],
                              [id \in Ids |-> RetryCount(id)]>>
  BY ClientSide, LifecycleStep DEF SystemInv, StatisticsInv
<1> QED BY <1>1, <1>2, SystemInvariant, PTL
        DEF SystemSpec, ImplementsLifecycle, Lifecycle!SafetySpec

\* The table of the server only says what the client reported, for any number
\* of events, departments and vehicles and whatever the queues and sockets lose.
THEOREM TableSaysWhatWasReported == SystemSpec => []RecordedOutcomeIsReported
<1>1. SystemInv => RecordedOutcomeIsReported
  <2> SUFFICES ASSUME SystemInv, NEW id \in DOMAIN rows, rows[id] # STATUS_PENDING
               PROVE  rows[id] \in Reported(id)
    BY DEF RecordedOutcomeIsReported
  <2>1. Completed(Completion(id, rows[id]))
    BY DEF SystemInv, Heard
  <2>2. /\ Completion(id, rows[id]).eventId = id
        /\ Completion(id, rows[id]).type = MESSAGE_COMPLETION
        /\ Completion(id, rows[id]).status = rows[id]
    BY DEF Completion
  <2>3. \E n \in DOMAIN replies[id] : replies[id][n] = Completion(id, rows[id])
    BY <2>1, <2>2 DEF Completed, Told
  <2> QED BY <2>2, <2>3 DEF Reported
<1> QED BY <1>1, SystemInvariant, PTL

\* The generator has counted the events it numbered.
Generated == eventsGenerated = nextEventId - 1

\* Without a wrap.
LEMMA GeneratedStep ==
  ASSUME MaxEvents < UintRange, Numbered, Generated, [SystemNext]_systemVars
  PROVE  Generated'
<1>1. CASE Srv!CreateRandomEvent
  <2>1. /\ nextEventId' = nextEventId + 1 /\ nextEventId <= MaxEvents
        /\ eventsGenerated' = (eventsGenerated + 1) % UintRange
    BY <1>1 DEF Srv!CreateRandomEvent
  <2>2. /\ nextEventId \in 1 .. MaxEvents + 1 /\ MaxEvents \in Nat
        /\ UintRange \in Nat /\ eventsGenerated + 1 = nextEventId
    BY SystemAssumption DEF Numbered, Generated
  <2>3. nextEventId % UintRange = nextEventId
    BY <2>1, <2>2
  <2> QED BY <2>1, <2>2, <2>3 DEF Generated
<1>2. CASE UNCHANGED <<nextEventId, eventsGenerated>>
  BY <1>2 DEF Generated
<1>3. CASE ClientTasks /\ ServerHears
  BY <1>2, <1>3 DEF ServerHears, serverVars
<1>4. CASE \/ Srv!DatabaseInsertEvent \/ Srv!QueueEvent \/ Srv!DropEvent
           \/ ServerTakes \/ ServerTransmits \/ ServerReceives \/ ServerRecords
           \/ UNCHANGED systemVars
  BY <1>2, <1>4 DEF Srv!DatabaseInsertEvent, Srv!QueueEvent, Srv!DropEvent,
     ServerTakes, ServerTransmits, ServerReceives, ServerRecords, Srv!TakeEvent,
     Srv!ServerUdpSendMessage, Srv!ReceiveAck, Srv!ReceiveCompletion,
     Srv!DatabaseUpdateCompletion, Srv!generatorVars, systemVars, serverVars
<1> QED BY <1>1, <1>3, <1>4
        DEF SystemNext, ServerGenerates, Srv!ServerEventGeneratorTask

\* The client knows events that were sent, which are numbered.
LEMMA KnownAreGenerated ==
  ASSUME SystemInv
  PROVE  KnownIds \subseteq 1 .. nextEventId - 1
<1> SUFFICES ASSUME NEW id \in KnownIds PROVE id \in 1 .. nextEventId - 1
  OBVIOUS
<1>1. ConservationInv /\ ClientInv
  BY DEF SystemInv, StatisticsInv, ConservationInv
<1>2. id \in Ids
  BY <1>1, HeldIdsAreIds DEF KnownIds, ReportedIds, ClientInv
<1>3. WasSent(id)
  <2>1. CASE Unanswered(id)
    <3>1. id \notin dropped /\ id \notin ReportedIds
      BY <1>2, <2>1, RepliesTell DEF Unanswered, ReportedOnceOrNever, ReportedIds
    <3>2. Holds(Content, id)
      BY <1>1, <1>2, <3>1, HeldIsHeld DEF KnownIds
    <3> QED BY <2>1, <3>2 DEF Unanswered
  <2>2. CASE Accepted(id) \/ Answered(id)
    BY <2>2 DEF Accepted, Answered
  <2> QED BY <1>1, <1>2, <2>1, <2>2 DEF ConservationInv, Phase
<1>4. id < nextEventId /\ nextEventId \in 1 .. MaxEvents + 1 /\ MaxEvents \in Nat
  BY <1>3, SystemAssumption DEF WasSent, SystemInv, Numbered
<1> QED BY <1>2, <1>4, EventNumbers

\* What has arrived of each kind is counted by the client.
LEMMA ArrivedAreCounted ==
  ASSUME SystemInv
  PROVE  /\ Arrived(MESSAGE_ACK) \subseteq KnownIds
         /\ \A o \in Final : Arrived(o) \subseteq FinalIds(o)
         /\ Arrived(STATUS_FAILED) \subseteq FailureIds
<1>1. ConservationInv
  BY DEF SystemInv, StatisticsInv
<1>2. ASSUME NEW id \in Arrived(MESSAGE_ACK) PROVE id \in KnownIds
  <2>1. id \in Ids /\ replies[id] # << >>
    <3>1. id \in Ids /\ Told(Ack(id))
      BY <1>2, ArrivedIs DEF Datagram
    <3> QED BY <3>1 DEF Told, Ack
  <2>2. CASE Accepted(id)
    BY <1>1, <2>2, HeldIsHeld DEF Accepted, New, KnownIds
  <2>3. CASE Answered(id)
    <3>1. Reported(id) # {}
      BY <2>1, <2>3, RepliesTell DEF Answered, ReportedOnceOrNever
    <3> QED BY <2>1, <3>1 DEF KnownIds, ReportedIds
  <2> QED BY <1>1, <2>1, <2>2, <2>3 DEF ConservationInv, Phase, Unanswered
<1>3. ASSUME NEW o \in Outcomes, NEW id \in Arrived(o)
      PROVE  id \in Ids /\ o \in Reported(id)
  <2>1. o # MESSAGE_ACK
    BY DEF Outcomes, MESSAGE_ACK, STATUS_COMPLETED, STATUS_FAILED, STATUS_CANCELLED
  <2>2. id \in Ids /\ Told(Completion(id, o))
    BY <1>3, <2>1, ArrivedIs DEF Datagram
  <2>3. /\ Completion(id, o).eventId = id
        /\ Completion(id, o).type = MESSAGE_COMPLETION
        /\ Completion(id, o).status = o
    BY DEF Completion
  <2> QED BY <2>2, <2>3 DEF Told, Reported
<1>4. \A o \in Final : Arrived(o) \subseteq FinalIds(o)
  BY <1>3 DEF Final, Outcomes, FinalIds
<1>5. Arrived(STATUS_FAILED) \subseteq FailureIds
  BY <1>3 DEF Outcomes, FailureIds, FailedIds
<1> QED BY <1>2, <1>4, <1>5

\* No counter of the server is ahead of the client's, nor the client's of the
\* generator's, as long as the generator's has not wrapped.
THEOREM StatisticsOfBothAgree ==
  ASSUME MaxEvents < UintRange
  PROVE  SystemSpec => []StatisticsAgree
<1>1. ASSUME SystemInv, Generated PROVE StatisticsAgree
  <2>1. /\ received = Cardinality(KnownIds) /\ IsFiniteSet(KnownIds)
        /\ failed = Cardinality(FailureIds) /\ IsFiniteSet(FailureIds)
        /\ completed = Cardinality(FinalIds(STATUS_COMPLETED))
        /\ IsFiniteSet(FinalIds(STATUS_COMPLETED))
        /\ cancelled = Cardinality(FinalIds(STATUS_CANCELLED))
        /\ IsFiniteSet(FinalIds(STATUS_CANCELLED))
    BY <1>1 DEF SystemInv, StatisticsInv
  <2>2. received <= eventsGenerated
    <3>1. nextEventId - 1 \in Nat
      BY <1>1, SystemAssumption DEF SystemInv, Numbered
    <3>2. /\ IsFiniteSet(1 .. nextEventId - 1)
          /\ Cardinality(1 .. nextEventId - 1) = nextEventId - 1
      BY <3>1, FS_Interval
    <3>3. Cardinality(KnownIds) <= Cardinality(1 .. nextEventId - 1)
      BY <1>1, <3>2, KnownAreGenerated, FS_Subset
    <3> QED BY <1>1, <2>1, <3>2, <3>3 DEF Generated
  <2>3. ASSUME NEW kind \in Kinds, NEW S, IsFiniteSet(S), Arrived(kind) \subseteq S
        PROVE  CountOf(kind) <= Cardinality(S)
    <3>1. CountOf(kind) <= Cardinality(Arrived(kind)) /\ CountOf(kind) \in Nat
      BY <1>1 DEF SystemInv, Counted, CountOf, Kinds
    <3>2. Cardinality(Arrived(kind)) <= Cardinality(S) /\ IsFiniteSet(Arrived(kind))
      BY <2>3, FS_Subset
    <3>3. Cardinality(Arrived(kind)) \in Nat /\ Cardinality(S) \in Nat
      BY <2>3, <3>2, FS_CardinalityType
    <3> QED BY <3>1, <3>2, <3>3
  <2>4. /\ Arrived(MESSAGE_ACK) \subseteq KnownIds
        /\ Arrived(STATUS_COMPLETED) \subseteq FinalIds(STATUS_COMPLETED)
        /\ Arrived(STATUS_CANCELLED) \subseteq FinalIds(STATUS_CANCELLED)
        /\ Arrived(STATUS_FAILED) \subseteq FailureIds
    BY <1>1, ArrivedAreCounted DEF Final
  <2>5. /\ CountOf(MESSAGE_ACK) <= received
        /\ CountOf(STATUS_COMPLETED) <= completed
        /\ CountOf(STATUS_CANCELLED) <= cancelled
        /\ CountOf(STATUS_FAILED) <= failed
    BY <2>1, <2>3, <2>4 DEF Kinds, Outcomes
  <2> QED BY <2>2, <2>5 DEF StatisticsAgree, CountOf, MESSAGE_ACK,
             STATUS_COMPLETED, STATUS_CANCELLED, STATUS_FAILED
<1>2. SystemInit => Generated
  BY DEF SystemInit, Srv!Init, Generated
<1>3. SystemInv /\ Generated /\ [SystemNext]_systemVars => Generated'
  BY GeneratedStep DEF SystemInv
<1> QED BY <1>1, <1>2, <1>3, SystemInvariant, PTL DEF SystemSpec

-----------------------------------------------------------------------------
(* What was proved of the server alone holds in the system, too *)

Proved == INSTANCE ServerProofs WITH
            MaxRuns        <- 1,
            run            <- 1,
            toClient       <- FirstRun(clientSocket),
            toServer       <- FirstRun(serverSocket),
            unacknowledged <- Unacknowledged,
            inWork         <- InWork

\* What module Server assumes of its constants holds of those of the system.
LEMMA ServerConstants ==
  /\ SERVER_TX_QUEUE_LENGTH \in Nat \ {0}
  /\ Templates \subseteq Departments \X Proved!Priorities
  /\ DatabaseMayFail \in BOOLEAN
  /\ UintRange \in Nat \ {0}
  /\ MaxEvents \in Nat
  /\ 1 \in Nat \ {0}
  /\ None \notin Proved!EventMessage \cup Proved!ClientMessage
                   \cup ((1 .. 1) \X Proved!ClientMessage)
<1>1. /\ Proved!Priorities = Priorities
      /\ Proved!EventMessage = EventMessage
      /\ Proved!ClientMessage = ClientMessage
  BY Zenon DEF
    ClientMessage, Proved!ClientMessage, EventIds, Proved!EventIds,
    EventMessage, Proved!EventMessage, MESSAGE_ACK, Proved!MESSAGE_ACK,
    MESSAGE_COMPLETION, Proved!MESSAGE_COMPLETION, Outcomes,
    Proved!Outcomes, PRIORITY_HIGH, Proved!PRIORITY_HIGH, PRIORITY_LOW,
    Proved!PRIORITY_LOW, Priorities, Proved!Priorities, STATUS_CANCELLED,
    Proved!STATUS_CANCELLED, STATUS_COMPLETED, Proved!STATUS_COMPLETED,
    STATUS_FAILED, Proved!STATUS_FAILED
<1>2. 1 .. 1 = {1} /\ None \notin EventMessage
  BY DepartmentAssumption
<1> QED BY <1>1, <1>2, SystemAssumption

\* The server of module System is the one of these proofs.
LEMMA SameServer ==
  /\ Srv!Init => Proved!Init
  /\ [Srv!Next]_(Srv!vars) => [Proved!Next]_(Proved!vars)
<1>1. Srv!Init => Proved!Init
  BY Zenon DEF
      Srv!Init, Proved!Init, Srv!NoRows, Proved!NoRows, Srv!Outcomes,
      Proved!Outcomes, Srv!STATUS_CANCELLED, Proved!STATUS_CANCELLED,
      Srv!STATUS_COMPLETED, Proved!STATUS_COMPLETED, Srv!STATUS_FAILED,
      Proved!STATUS_FAILED, Srv!STATUS_PENDING, Proved!STATUS_PENDING
<1>2. [Srv!Next]_(Srv!vars) => [Proved!Next]_(Proved!vars)
  BY Zenon DEF
      Srv!Ack, Proved!Ack, Srv!AfterSendto, Proved!AfterSendto, Srv!Client,
      Proved!Client, Srv!ClientAcknowledges, Proved!ClientAcknowledges,
      Srv!ClientCompletes, Proved!ClientCompletes, Srv!ClientDrops,
      Proved!ClientDrops, Srv!ClientReceives, Proved!ClientReceives,
      Srv!Completion, Proved!Completion, Srv!CreateRandomEvent,
      Proved!CreateRandomEvent, Srv!DatabaseClose, Proved!DatabaseClose,
      Srv!DatabaseInsertEvent, Proved!DatabaseInsertEvent,
      Srv!DatabaseUpdateCompletion, Proved!DatabaseUpdateCompletion,
      Srv!DropEvent, Proved!DropEvent,
      Srv!Exit, Proved!Exit, Srv!MESSAGE_ACK, Proved!MESSAGE_ACK,
      Srv!MESSAGE_COMPLETION, Proved!MESSAGE_COMPLETION, Srv!Next,
      Proved!Next, Srv!NoRows, Proved!NoRows, Srv!Outcomes, Proved!Outcomes,
      Srv!QueueEvent, Proved!QueueEvent, Srv!ReceiveAck, Proved!ReceiveAck,
      Srv!ReceiveCompletion, Proved!ReceiveCompletion, Srv!RunServer,
      Proved!RunServer, Srv!STATUS_CANCELLED, Proved!STATUS_CANCELLED,
      Srv!STATUS_COMPLETED, Proved!STATUS_COMPLETED, Srv!STATUS_FAILED,
      Proved!STATUS_FAILED, Srv!STATUS_PENDING, Proved!STATUS_PENDING,
      Srv!SendToServer, Proved!SendToServer, Srv!ServerEventGeneratorTask,
      Proved!ServerEventGeneratorTask, Srv!ServerUdpRxTask,
      Proved!ServerUdpRxTask, Srv!ServerUdpSendMessage,
      Proved!ServerUdpSendMessage, Srv!ServerUdpTxTask,
      Proved!ServerUdpTxTask, Srv!Statement, Proved!Statement, Srv!TakeEvent,
      Proved!TakeEvent, Srv!Up, Proved!Up, Srv!UsesDatabase, Proved!UsesDatabase,
      Srv!clientVars, Proved!clientVars,
      Srv!generatorVars, Proved!generatorVars, Srv!networkVars,
      Proved!networkVars, Srv!processVars, Proved!processVars, Srv!rxVars,
      Proved!rxVars, Srv!tableVars, Proved!tableVars, Srv!txVars,
      Proved!txVars, Srv!vars, Proved!vars
<1> QED BY <1>1, <1>2

\* So are its properties.
LEMMA SameProperties ==
  /\ Proved!RowBeforeEvent => Srv!RowBeforeEvent
  /\ Proved!RowsAreThisRuns => Srv!RowsAreThisRuns
  /\ Proved!StatisticsMatchTable => Srv!StatisticsMatchTable
  /\ Proved!OutcomeIsFinal => Srv!OutcomeIsFinal
<1>1. Proved!RowBeforeEvent => Srv!RowBeforeEvent
  BY Zenon DEF
      Srv!DatabaseOpen, Proved!DatabaseOpen, Srv!OnTheirWay,
      Proved!OnTheirWay, Srv!RowBeforeEvent, Proved!RowBeforeEvent
<1>2. Proved!RowsAreThisRuns => Srv!RowsAreThisRuns
  BY Zenon DEF
      Srv!DatabaseOpen, Proved!DatabaseOpen, Srv!RowsAreThisRuns,
      Proved!RowsAreThisRuns
<1>3. Proved!StatisticsMatchTable => Srv!StatisticsMatchTable
  BY Zenon DEF
      Srv!Cardinality, Proved!Cardinality, Srv!DatabaseOpen,
      Proved!DatabaseOpen, Srv!Outcomes, Proved!Outcomes,
      Srv!Pending, Proved!Pending, Srv!RowsWith, Proved!RowsWith,
      Srv!STATUS_CANCELLED, Proved!STATUS_CANCELLED, Srv!STATUS_COMPLETED,
      Proved!STATUS_COMPLETED, Srv!STATUS_FAILED, Proved!STATUS_FAILED,
      Srv!STATUS_PENDING, Proved!STATUS_PENDING, Srv!StatisticsMatchTable,
      Proved!StatisticsMatchTable
<1>4. Proved!OutcomeIsFinal => Srv!OutcomeIsFinal
  BY PTL DEF
      Srv!processVars, Proved!processVars, Srv!generatorVars,
      Proved!generatorVars, Srv!txVars, Proved!txVars, Srv!rxVars,
      Proved!rxVars, Srv!tableVars, Proved!tableVars, Srv!networkVars,
      Proved!networkVars, Srv!clientVars, Proved!clientVars, Srv!vars,
      Proved!vars, Srv!RowsWith, Proved!RowsWith, Srv!STATUS_PENDING,
      Proved!STATUS_PENDING, Srv!OutcomeIsFinal, Proved!OutcomeIsFinal
<1> QED BY <1>1, <1>2, <1>3, <1>4

\* The server of the system does what was proved of the server.
LEMMA ServerIsProved == SystemSpec => Proved!Spec
BY SystemImplementsServer, SameServer, PTL
DEF ImplementsServer, Srv!Spec, Proved!Spec

\* With the real client on the other side, too, a row is in the table before
\* anybody can answer it, the table has rows only of events generated, and the
\* outcome of an event, once recorded, stays.
THEOREM ServerInTheSystem ==
  SystemSpec => /\ [](Srv!RowBeforeEvent /\ Srv!RowsAreThisRuns)
                /\ Srv!OutcomeIsFinal
<1>1. Proved!Spec => []Proved!RowBeforeEvent
  BY ServerConstants, MessagesAssumption, Proved!RowComesFirst
<1>2. Proved!Spec => []Proved!RowsAreThisRuns
  BY ServerConstants, MessagesAssumption, Proved!RowsAreOfThisRun
<1>3. Proved!Spec => Proved!OutcomeIsFinal
  BY ServerConstants, MessagesAssumption, Proved!OutcomesAreFinal
<1> QED BY <1>1, <1>2, <1>3, ServerIsProved, SameProperties, PTL

\* Until a counter wraps, the server's statistics agree with its table.
THEOREM StatisticsInTheSystem ==
  ASSUME MaxEvents < UintRange
  PROVE  SystemSpec => []Srv!StatisticsMatchTable
<1>1. Proved!Spec => []Proved!StatisticsMatchTable
  BY ServerConstants, MessagesAssumption, Proved!StatisticsAndTable
<1> QED BY <1>1, ServerIsProved, SameProperties, PTL
=============================================================================
