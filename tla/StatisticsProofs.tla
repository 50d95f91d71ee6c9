-------------------------- MODULE StatisticsProofs --------------------------
(***************************************************************************)
(* Proof that the counters PrintClientStatistics prints always balance.    *)
(* Seven counters are kept by four kinds of task, each next to the step it *)
(* counts; what relates them are the events themselves.  Every counter is  *)
(* shown to be the number of elements of a set of events that the same     *)
(* step makes grow, or a bound of it; the arithmetic follows from how      *)
(* these sets lie in each other.                                           *)
(***************************************************************************)
EXTENDS EventProofs, FiniteSetTheorems

-----------------------------------------------------------------------------
(* What the counters count *)

\* The events the client knows or has known, ...
KnownIds == HeldIds \cup dropped \cup ReportedIds

\* ... those with a verdict that is counted, reported or about to be, ...
ClosedIds == ReportedIds \cup DecidedIds

\* ... and those of them the verdict is a failure of.
FailedIds  == {id \in Ids : STATUS_FAILED \in Reported(id)}
FailureIds == FailedIds \cup (IF fpc = "report" THEN {faultEvent.eventId} ELSE {})

\* A verdict the vehicle itself counts, and the events with that verdict.
Final == {STATUS_COMPLETED, STATUS_CANCELLED}
Verdicts(o) == {message[v].eventId : v \in {w \in Vehicles : result[w] = o}}
FinalIds(o) == {id \in Ids : o \in Reported(id)} \cup Verdicts(o)

\* A vehicle has no verdict before ProcessEvent returns.
NoVerdictYet ==
  \A v \in Vehicles : vpc[v] \notin HoldingOutcome => result[v] = STATUS_PENDING

\* Each retry can be told from the others: it is the k-th of some event, and
\* k is at most the retry count of the event while the client holds it.
RetriesAre(S) ==
  /\ S \subseteq KnownIds \X (1 .. MAX_EVENT_RETRIES)
  /\ IsFiniteSet(S)
  /\ Cardinality(S) = retries
  /\ \A x \in S : \A m :
       Has(Content, m) /\ m.eventId = x[1] => x[2] <= m.retryCount

\* What is on its way to the departments was received or requeued, and is not
\* dispatched yet: the receive task's event, the queue, the dispatcher's event
\* and the one the fault manager puts back.
RxHolds       == IF rxEvent # None THEN 1 ELSE 0
DispatchHolds == IF dispatchEvent # None THEN 1 ELSE 0
RequeueHolds  == IF fpc = "requeue" THEN 1 ELSE 0
OnTheWay == RxHolds + Len(clientRxQueue) + DispatchHolds + RequeueHolds

\* The inductive invariant.
StatisticsInv ==
  /\ ConservationInv
  /\ NoVerdictYet
  /\ IsFiniteSet(KnownIds) /\ received = Cardinality(KnownIds)
  /\ IsFiniteSet(ClosedIds)
  /\ completed + failed + cancelled = Cardinality(ClosedIds)
  /\ IsFiniteSet(FailureIds) /\ failed = Cardinality(FailureIds)
  /\ IsFiniteSet(FinalIds(STATUS_COMPLETED))
  /\ completed = Cardinality(FinalIds(STATUS_COMPLETED))
  /\ IsFiniteSet(FinalIds(STATUS_CANCELLED))
  /\ cancelled = Cardinality(FinalIds(STATUS_CANCELLED))
  /\ \E S : RetriesAre(S)
  /\ dispatched + OnTheWay <= received + retries

\* A set that gets one element more.
LEMMA OneMore ==
  ASSUME NEW S, IsFiniteSet(S), NEW x, x \notin S
  PROVE  /\ IsFiniteSet(S \cup {x})
         /\ Cardinality(S \cup {x}) = Cardinality(S) + 1
BY FS_AddElement

-----------------------------------------------------------------------------
(* Who holds an event *)

\* The events held are those of the messages held.
HeldAreHad ==
  \A id : id \in HeldIds <=> \E m : Has(Content, m) /\ m.eventId = id

\* It follows from where the messages are,
LEMMA HeldMeans == ConservationInv => HeldAreHad
BY CopiesTell DEF OnlyCopy, NoCopy, HeldAreHad

\* and holds of the next state, too.
LEMMA HeldMeansNext == (ConservationInv => HeldAreHad)'
BY HeldMeans, PTL

\* A place that holds an event, and the event it holds first.
LEMMA FirstOf ==
  ASSUME ConservationInv, NEW P \in Places, Content[P] # << >>
  PROVE  /\ Has(Content, Head(Content[P]))
         /\ \A Q \in Places : Content[Q] # << >> /\ Q # P =>
              Head(Content[P]).eventId # Head(Content[Q]).eventId
<1>1. Content \in Holding /\ \A Q \in Places : Q \in AllPlaces
  BY ContentType DEF ConservationInv, AllPlaces
<1>2. ASSUME NEW Q \in Places, Content[Q] # << >>
      PROVE  1 \in DOMAIN Content[Q] /\ Head(Content[Q]) = Content[Q][1]
  <2>1. Content[Q] \in Seq(EventMessage)
    BY <1>1 DEF Holding
  <2> QED BY <1>2, <2>1, TailEntries
<1>3. Has(Content, Head(Content[P]))
  BY <1>2 DEF Has
<1>4. ASSUME NEW Q \in Places, Content[Q] # << >>, Q # P
      PROVE  Head(Content[P]).eventId # Head(Content[Q]).eventId
  BY <1>1, <1>2, <1>4 DEF ConservationInv, Distinct
<1> QED BY <1>3, <1>4

\* Vehicles, fault queue and fault manager hold different events.
LEMMA HoldersDiffer ==
  ASSUME ConservationInv
  PROVE  /\ \A v \in Vehicles : message[v] # None =>
              /\ Has(Content, message[v])
              /\ \A w \in Vehicles : message[w] # None /\ w # v =>
                   message[v].eventId # message[w].eventId
              /\ faultEvent # None =>
                   message[v].eventId # faultEvent.eventId
              /\ faultQueue # << >> =>
                   message[v].eventId # Head(faultQueue).eventId
         /\ faultEvent # None => Has(Content, faultEvent)
         /\ faultQueue # << >> => Has(Content, Head(faultQueue))
<1> DEFINE fm == <<"faultManager">>
           fq == <<"faultQueue">>
<1>1. /\ fm \in Places /\ fq \in Places
      /\ Content[fm] = Buffer(faultEvent) /\ Content[fq] = faultQueue
  BY PlacesAre, ContentAt
<1>2. ASSUME NEW v \in Vehicles
      PROVE  /\ <<"vehicle", v>> \in Places
             /\ Content[<<"vehicle", v>>] = Buffer(message[v])
             /\ <<"vehicle", v>> # fm /\ <<"vehicle", v>> # fq
             /\ \A w \in Vehicles : w # v => <<"vehicle", w>> # <<"vehicle", v>>
  BY PlacesAre, ContentAt, PlacesDiffer
<1> HIDE DEF fm, fq
<1>3. faultEvent # None => Has(Content, faultEvent)
  BY <1>1, BufferIs, FirstOf
<1>4. faultQueue # << >> => Has(Content, Head(faultQueue))
  BY <1>1, FirstOf
<1>5. ASSUME NEW v \in Vehicles, message[v] # None
      PROVE  /\ Has(Content, message[v])
             /\ \A w \in Vehicles : message[w] # None /\ w # v =>
                  message[v].eventId # message[w].eventId
             /\ faultEvent # None => message[v].eventId # faultEvent.eventId
             /\ faultQueue # << >> =>
                  message[v].eventId # Head(faultQueue).eventId
  <2>1. /\ Content[<<"vehicle", v>>] # << >>
        /\ Head(Content[<<"vehicle", v>>]) = message[v]
    BY <1>2, <1>5, BufferIs
  <2>2. ASSUME NEW w \in Vehicles, message[w] # None, w # v
        PROVE  message[v].eventId # message[w].eventId
    <3>1. /\ Content[<<"vehicle", w>>] # << >>
          /\ Head(Content[<<"vehicle", w>>]) = message[w]
      BY <1>2, <2>2, BufferIs
    <3> QED BY <1>2, <2>1, <2>2, <3>1, FirstOf
  <2>3. faultEvent # None => message[v].eventId # faultEvent.eventId
    BY <1>1, <1>2, <2>1, BufferIs, FirstOf
  <2>4. faultQueue # << >> => message[v].eventId # Head(faultQueue).eventId
    BY <1>1, <1>2, <2>1, FirstOf
  <2>5. Has(Content, message[v])
    BY <1>2, <2>1, FirstOf
  <2> QED BY <2>2, <2>3, <2>4, <2>5
<1> QED BY <1>3, <1>4, <1>5

\* An event is decided by the vehicle or the fault manager that holds it.
LEMMA DecidedBy ==
  \A id : id \in DecidedIds <=>
    \/ \E v \in Vehicles : result[v] \in Final /\ message[v].eventId = id
    \/ fpc = "report" /\ faultEvent.eventId = id
BY DEF DecidedIds, Final

\* The same of the next state.
LEMMA DecidedByNext ==
  \A id : id \in DecidedIds' <=>
    \/ \E v \in Vehicles : result'[v] \in Final /\ message'[v].eventId = id
    \/ fpc' = "report" /\ faultEvent'.eventId = id
BY DEF DecidedIds, Final

\* An event that is held is not dropped, nor was it reported.
LEMMA HeldIsOpen ==
  ASSUME ConservationInv, NEW id \in HeldIds, id \in Ids
  PROVE  id \notin dropped /\ Reported(id) = {}
<1>1. Holds(Content, id)
  BY HeldIsHeld
<1> QED BY <1>1, RepliesTell
    DEF ConservationInv, Phase, Unanswered, Accepted, Answered,
        ReportedOnceOrNever

\* The client holds events of the server only.
LEMMA HeldIdsAreIds == ConservationInv => HeldIds \subseteq Ids
<1> SUFFICES ASSUME ConservationInv, NEW id \in HeldIds PROVE id \in Ids
  OBVIOUS
<1>1. PICK m : Has(Content, m) /\ m.eventId = id
  BY HeldMeans DEF HeldAreHad
<1>2. PICK p \in Places : \E n \in DOMAIN Content[p] : Content[p][n] = m
  BY <1>1 DEF Has
<1>3. ASSUME NEW q \in Seq(Retried), NEW n \in DOMAIN q PROVE q[n].eventId \in Ids
  BY RetriedIds
<1>4. ASSUME NEW x \in Retried \cup {None}, NEW n \in DOMAIN Buffer(x)
      PROVE  Buffer(x)[n].eventId \in Ids
  <2>1. x \in Retried /\ Buffer(x) = <<x>>
    BY <1>4 DEF Buffer
  <2> QED BY <1>4, <2>1, RetriedIds
<1>5. /\ rxEvent \in Retried \cup {None} /\ clientRxQueue \in Seq(Retried)
      /\ dispatchEvent \in Retried \cup {None} /\ faultQueue \in Seq(Retried)
      /\ faultEvent \in Retried \cup {None}
      /\ \A v \in Vehicles : message[v] \in Retried \cup {None}
      /\ \A d \in Departments, r \in Priorities :
           priorityQueues[d][r] \in Seq(Retried)
  <2>1. ClientInv
    BY DEF ConservationInv
  <2>2. Events \subseteq Retried
    BY RetriedAreArrivals
  <2>3. /\ rxEvent \in Events \cup {None} /\ clientRxQueue \in Seq(Retried)
        /\ dispatchEvent \in Retried \cup {None} /\ faultQueue \in Seq(Retried)
        /\ faultEvent \in Retried \cup {None}
    BY <2>1 DEF ClientInv
  <2>4. /\ message \in [Vehicles -> Retried \cup {None}]
        /\ priorityQueues \in [Departments -> [Priorities -> Seq(Retried)]]
    BY <2>1 DEF ClientInv
  <2> QED BY <2>2, <2>3, <2>4
<1>6. p \in AllPlaces /\ p # <<"socket">>
  BY PlacesAre DEF AllPlaces
<1>7. PICK n \in DOMAIN Content[p] : Content[p][n].eventId = id
  BY <1>1, <1>2
<1>8. CASE p \in {<<"rx">>, <<"rxQueue">>, <<"dispatcher">>, <<"faultQueue">>,
                  <<"faultManager">>}
  <2>1. CASE p \in {<<"rx">>, <<"dispatcher">>, <<"faultManager">>}
    BY <1>4, <1>5, <1>7, <2>1, ContentAt
  <2>2. CASE p \in {<<"rxQueue">>, <<"faultQueue">>}
    BY <1>3, <1>5, <1>7, <2>2, ContentAt
  <2> QED BY <1>8, <2>1, <2>2
<1>9. CASE \E d \in Departments, r \in Priorities : p = <<"queue", d, r>>
  BY <1>3, <1>5, <1>7, <1>9, ContentAt
<1>10. CASE \E v \in Vehicles : p = <<"vehicle", v>>
  BY <1>4, <1>5, <1>7, <1>10, ContentAt
<1> QED BY <1>6, <1>8, <1>9, <1>10, AllPlacesAre

-----------------------------------------------------------------------------
(* Received: the events the client knows *)

\* A completion that is sent adds its event to those reported.
LEMMA ReportedIs ==
  ASSUME ConservationInv, NEW id \in Ids, NEW outcome \in Outcomes,
         Accepted(id), Send(Completion(id, outcome))
  PROVE  /\ Reported(id)' = {outcome}
         /\ \A e \in Ids \ {id} : Reported(e)' = Reported(e)
         /\ ReportedIds' = ReportedIds \cup {id}
<1>1. replies' = [replies EXCEPT ![id] = Append(@, Completion(id, outcome))]
  BY DEF Send, Completion
<1>2. replies \in [Ids -> Seq(ClientMessage)] /\ replies[id] = <<Ack(id)>>
  BY DEF ConservationInv, ClientInv, Accepted
<1>3. replies'[id] = Append(<<Ack(id)>>, Completion(id, outcome))
  BY <1>1, <1>2
<1>4. replies'[id] = <<Ack(id), Completion(id, outcome)>>
  BY <1>3, SecondAppended
<1>5. Reported(id)' = {outcome}
  BY <1>4, RepliesTellNext DEF ReportedOnceOrNever
<1>6. ASSUME NEW e \in Ids \ {id} PROVE Reported(e)' = Reported(e)
  <2>1. replies'[e] = replies[e]
    BY <1>1, <1>2
  <2> QED BY <2>1 DEF Reported
<1>7. ReportedIds' = ReportedIds \cup {id}
  BY <1>5, <1>6 DEF ReportedIds
<1> QED BY <1>5, <1>6, <1>7

\* An event the client knows stays known, whatever becomes of it.
LEMMA KnownStays ==
  ASSUME ConservationInv, ConservationInv',
         Quiet \/ RetriesOne \/ LosesOne \/ ReportsOne
  PROVE  KnownIds' = KnownIds
<1>1. HeldAreHad /\ \A id : id \in HeldIds' <=>
                      \E m : Has(Content', m) /\ m.eventId = id
  BY HeldMeans, HeldMeansNext DEF HeldAreHad
<1>2. CASE Quiet
  <2>1. HeldIds' = HeldIds
    <3>1. \A m : Has(Content', m) <=> Has(Content, m)
      BY <1>2 DEF Quiet, CopiesStay
    <3>2. \A id : id \in HeldIds' <=> id \in HeldIds
      BY <1>1, <3>1 DEF HeldAreHad
    <3> QED BY <3>2
  <2>2. ReportedIds' = ReportedIds
    BY <1>2 DEF Quiet, ReportedIds
  <2> QED BY <1>2, <2>1, <2>2 DEF KnownIds, Quiet
<1>3. CASE RetriesOne
  <2>1. HeldIds' = HeldIds
    <3>1. PICK m \in Retried, again \in Retried :
            /\ Has(Content, m) /\ again.eventId = m.eventId
            /\ Relocated(again)
      BY <1>3 DEF RetriesOne
    <3>2. \A id : id \in HeldIds' <=> id \in HeldIds
      BY <1>1, <3>1 DEF HeldAreHad, Relocated
    <3> QED BY <3>2
  <2>2. ReportedIds' = ReportedIds /\ dropped' = dropped
    BY <1>3 DEF RetriesOne, historyVars, ReportedIds, Reported
  <2> QED BY <2>1, <2>2 DEF KnownIds
<1>4. ASSUME NEW id \in Ids, Accepted(id), Holds(Content, id), Removed(id)
      PROVE  id \in HeldIds /\ HeldIds' = HeldIds \ {id}
  <2>1. id \in HeldIds
    BY <1>4, HeldIsHeld DEF Accepted, New
  <2>2. HeldIds' = HeldIds \ {id}
    BY <1>1, <1>4 DEF HeldAreHad, Removed
  <2> QED BY <2>1, <2>2
<1>5. CASE LosesOne
  <2>1. PICK id \in Ids : /\ id \in HeldIds /\ HeldIds' = HeldIds \ {id}
                          /\ dropped' = dropped \cup {id}
                          /\ UNCHANGED replies
    BY <1>4, <1>5 DEF LosesOne
  <2>2. ReportedIds' = ReportedIds
    BY <2>1 DEF ReportedIds, Reported
  <2> QED BY <2>1, <2>2 DEF KnownIds
<1>6. CASE ReportsOne
  <2>1. PICK id \in Ids, outcome \in Outcomes :
          /\ Accepted(id)
          /\ id \in HeldIds /\ HeldIds' = HeldIds \ {id}
          /\ Send(Completion(id, outcome))
          /\ UNCHANGED dropped
    BY <1>4, <1>6 DEF ReportsOne
  <2>2. ReportedIds' = ReportedIds \cup {id}
    BY <2>1, ReportedIs
  <2> QED BY <2>1, <2>2 DEF KnownIds
<1> QED BY <1>2, <1>3, <1>5, <1>6

\* An event that arrives was not known.
LEMMA KnownGrows ==
  ASSUME ConservationInv, ConservationInv', ArrivesOne
  PROVE  \E id : id \notin KnownIds /\ KnownIds' = KnownIds \cup {id}
<1>1. HeldAreHad /\ \A id : id \in HeldIds' <=>
                      \E m : Has(Content', m) /\ m.eventId = id
  BY HeldMeans, HeldMeansNext DEF HeldAreHad
<1>2. PICK m \in Events :
        /\ Unanswered(m.eventId)
        /\ \A x : Has(Content, x) => x.eventId # m.eventId
        /\ Relocated(m)
        /\ UNCHANGED historyVars
  BY DEF ArrivesOne
<1>3. HeldIds' = HeldIds \cup {m.eventId} /\ m.eventId \notin HeldIds
  BY <1>1, <1>2 DEF HeldAreHad, Relocated
<1>4. m.eventId \in Ids /\ m.eventId \notin dropped
  BY <1>2 DEF Ids, Unanswered
<1>5. m.eventId \notin ReportedIds
  BY <1>2, <1>4, RepliesTell DEF Unanswered, ReportedOnceOrNever, ReportedIds
<1>6. ReportedIds' = ReportedIds /\ dropped' = dropped
  BY <1>2 DEF historyVars, ReportedIds, Reported
<1> QED BY <1>3, <1>4, <1>5, <1>6 DEF KnownIds

\* Only ClientUdpReceiveMessage touches the receive task's event and counts.
LEMMA WhoReceives ==
  ASSUME [ClientNext]_clientVars
  PROVE  \/ ClientUdpReceiveMessage
         \/ UNCHANGED received /\ (UNCHANGED <<rxpc, rxEvent>> \/ rxpc' # "ack")
<1> USE DEF rxVars, clientCounters
<1>1. CASE ClientUdpRxTask
  BY <1>1 DEF ClientUdpRxTask, SendAck, EnqueueEvent
<1>2. CASE ClientDispatcherTask
  BY <1>2 DEF ClientDispatcherTask, ReceiveForDispatch, ForwardEvent, Dispatch,
              DropUndispatched
<1>3. CASE FaultManagerTask
  BY <1>3 DEF FaultManagerTask, RetryEvent, RequeueEvent, DropRetry, GiveUp,
              SendFailureCompletion
<1>4. CASE \E v \in Vehicles : Vehicle(v)
  BY <1>4 DEF Vehicle, DriveVehicle, CancelEvent, FinishEvent, ReportOutcome,
              DropFailed
<1>5. CASE \E d \in Departments : ShiftManager(d)
  BY <1>5 DEF ShiftManager
<1>6. CASE \E m \in Events : ServerSends(m)
  BY <1>6 DEF ServerSends
<1>7. CASE UNCHANGED clientVars
  BY <1>7 DEF clientVars
<1> QED BY <1>1, <1>2, <1>3, <1>4, <1>5, <1>6, <1>7 DEF ClientNext, ClientTasks

\* An event can arrive in no other way.
LEMMA OnlyReceivingArrives ==
  ASSUME ConservationInv, ConservationInv', [ClientNext]_clientVars, ArrivesOne
  PROVE  ClientUdpReceiveMessage
<1>1. PICK m \in Events :
        /\ Unanswered(m.eventId)
        /\ \A x : Has(Content, x) => x.eventId # m.eventId
        /\ Relocated(m)
        /\ UNCHANGED historyVars
  BY DEF ArrivesOne
<1> DEFINE id == m.eventId
<1>2. id \in Ids /\ Has(Content', m)
  BY <1>1 DEF Ids, Relocated
<1>3. PICK p \in Places : \E n \in DOMAIN Content'[p] : Content'[p][n] = m
  BY <1>2 DEF Has
<1>4. PICK n \in DOMAIN Content'[p] : Content'[p][n] = m
  BY <1>3
<1>5. p \in AllPlaces /\ p # <<"socket">> /\ <<"socket">> \in AllPlaces
  BY PlacesAre DEF AllPlaces
<1>6. Holds(Content', id)
  BY <1>4, <1>5 DEF Holds
<1>7. New(id)'
  <2>1. replies'[id] = << >>
    BY <1>1 DEF Unanswered, historyVars
  <2>2. Unanswered(id)' \/ Accepted(id)' \/ Answered(id)'
    BY <1>2 DEF ConservationInv, Phase
  <2>3. ~Accepted(id)' /\ ~Answered(id)'
    BY <2>1 DEF Accepted, Answered
  <2> QED BY <1>6, <2>2, <2>3 DEF Unanswered
<1>8. ~InSocket(id)'
  <2> SUFFICES ASSUME NEW k \in DOMAIN clientSocket', clientSocket'[k].eventId = id
               PROVE  FALSE
    BY DEF InSocket
  <2>1. Content'[<<"socket">>] = clientSocket'
    BY ContentAtNext
  <2> QED BY <1>4, <1>5, <2>1 DEF ConservationInv, Distinct
<1>9. rxpc' = "ack" /\ rxEvent'.eventId = id
  BY <1>7, <1>8 DEF New
<1>10. ASSUME UNCHANGED <<rxpc, rxEvent>> PROVE FALSE
  <2>1. rxEvent # None
    BY <1>9, <1>10 DEF ConservationInv, ClientInv
  <2>2. Has(Content, rxEvent)
    <3>1. <<"rx">> \in Places /\ Content[<<"rx">>] = Buffer(rxEvent)
      BY PlacesAre, ContentAt
    <3> QED BY <2>1, <3>1, BufferIs, FirstOf
  <2> QED BY <1>1, <1>9, <1>10, <2>2
<1> QED BY <1>9, <1>10, WhoReceives

\* g_clientEventsReceived counts the known events.
LEMMA ReceivedStep ==
  ASSUME StatisticsInv, [ClientNext]_clientVars
  PROVE  IsFiniteSet(KnownIds') /\ received' = Cardinality(KnownIds')
<1>1. ConservationInv /\ ConservationInv' /\ EventMoves
  BY ConservationStep DEF StatisticsInv
<1>2. CASE ClientUdpReceiveMessage
  <2>1. ArrivesOne
    BY <1>1, <1>2, Receiving DEF ConservationInv
  <2>2. PICK id : id \notin KnownIds /\ KnownIds' = KnownIds \cup {id}
    BY <1>1, <2>1, KnownGrows
  <2>3. received' = received + 1
    BY <1>2 DEF ClientUdpReceiveMessage
  <2> QED BY <2>2, <2>3, OneMore DEF StatisticsInv
<1>3. CASE ~ClientUdpReceiveMessage
  <2>1. received' = received
    BY <1>3, WhoReceives
  <2>2. KnownIds' = KnownIds
    BY <1>1, <1>3, OnlyReceivingArrives, KnownStays DEF EventMoves
  <2> QED BY <2>1, <2>2 DEF StatisticsInv
<1> QED BY <1>2, <1>3

-----------------------------------------------------------------------------
(* Completed, failed, cancelled: the events with a verdict *)

\* A vehicle has a verdict from ProcessEvent on, and none of the event before.
LEMMA NoVerdictYetStep ==
  ASSUME StatisticsInv, [ClientNext]_clientVars
  PROVE  NoVerdictYet'
<1>0. /\ vpc \in [Vehicles -> {"check", "receive"} \cup HoldingEvent]
      /\ result \in [Vehicles -> Outcomes \cup {STATUS_PENDING}]
      /\ NoVerdictYet
  BY DEF StatisticsInv, ConservationInv, ClientInv, DepartmentInv, TypeOK
<1>1. CASE UNCHANGED <<vpc, result>>
  BY <1>0, <1>1 DEF NoVerdictYet
<1>2. ASSUME NEW v \in Vehicles, VehicleTask(v) PROVE NoVerdictYet'
  <2> USE DEF NoVerdictYet, GoTo, HoldingOutcome
  <2>1. CASE \/ CheckStatus(v) \/ ReceiveEvent(v) \/ ReceiveTimeout(v)
             \/ SetVehicleCurrentEvent(v)
    BY <1>0, <2>1 DEF CheckStatus, ReceiveEvent, ReceiveTimeout,
                      SetVehicleCurrentEvent
  <2>2. CASE \/ StartProcessing(v) \/ ProcessSecond(v) \/ AbortProcessing(v)
             \/ FinishProcessing(v)
    BY <1>0, <2>2 DEF StartProcessing, ProcessSecond, AbortProcessing,
                      FinishProcessing
  <2>3. CASE \/ ReleaseVehicle(v) \/ ClearVehicleCurrentEvent(v)
             \/ SendCompletionMessage(v) \/ SendFailedEventToFaultManager(v)
             \/ LoseFailedEvent(v)
    BY <1>0, <2>3 DEF ReleaseVehicle, ClearVehicleCurrentEvent,
                      SendCompletionMessage, SendFailedEventToFaultManager,
                      LoseFailedEvent, ReportDone
  <2> QED BY <1>2, <2>1, <2>2, <2>3 DEF VehicleTask
<1>3. [Next]_vars
  BY DepartmentMoves DEF StatisticsInv, ConservationInv
<1>4. CASE \E d \in Departments : ShiftManagerTask(d)
  BY <1>1, <1>4
  DEF ShiftManagerTask, CountPendingDepartmentEvents, CountAvailableVehicles,
      InspectVehicle, CountHighPriorityEvents, ShouldInterruptVehicle,
      SetVehicleBreak, SetBreakBit, ClearVehicleBreak, ClearBreakBit,
      NextMonitoringCycle, taskVars
<1>5. CASE Environment
  BY <1>1, <1>5 DEF Environment, EventDispatched, FaultReceived, taskVars
<1>6. CASE UNCHANGED vars
  BY <1>1, <1>6 DEF vars, taskVars
<1> QED BY <1>2, <1>3, <1>4, <1>5, <1>6 DEF Next

\* Verdicts are about events that are held.
LEMMA VerdictHolds ==
  ASSUME ConservationInv, NoVerdictYet
  PROVE  /\ Final \subseteq Outcomes
         /\ STATUS_FAILED \notin Final /\ STATUS_PENDING \notin Final
         /\ \A v \in Vehicles : result[v] \in Final => message[v] # None
         /\ fpc = "report" => faultEvent # None
<1>1. /\ Final \subseteq Outcomes
      /\ STATUS_FAILED \notin Final /\ STATUS_PENDING \notin Final
  BY DEF Final, Outcomes, STATUS_PENDING, STATUS_COMPLETED, STATUS_FAILED,
         STATUS_CANCELLED
<1>2. ASSUME NEW v \in Vehicles, result[v] \in Final PROVE message[v] # None
  <2>1. vpc[v] \in HoldingOutcome
    BY <1>1, <1>2 DEF NoVerdictYet
  <2> QED BY <2>1 DEF ConservationInv, ClientInv, DepartmentInv, TaskKnows,
                      HoldingOutcome, HoldingEvent
<1>3. fpc = "report" => faultEvent # None
  BY DEF ConservationInv, ClientInv
<1> QED BY <1>1, <1>2, <1>3

\* Events with a verdict are still held, and not reported.
LEMMA DecidedAreHeld ==
  ASSUME ConservationInv, NoVerdictYet
  PROVE  DecidedIds \subseteq HeldIds /\ DecidedIds \cap ReportedIds = {}
<1>1. ASSUME NEW id \in DecidedIds PROVE id \in HeldIds
  <2>1. \E m : Has(Content, m) /\ m.eventId = id
    BY DecidedBy, VerdictHolds, HoldersDiffer
  <2> QED BY <2>1, HeldMeans DEF HeldAreHad
<1>2. ASSUME NEW id \in DecidedIds PROVE id \notin ReportedIds
  BY <1>1, HeldIdsAreIds, HeldIsOpen DEF ReportedIds
<1> QED BY <1>1, <1>2

\* An event the vehicles have this verdict of.
LEMMA VerdictOf ==
  \A o, id : id \in Verdicts(o) <=>
    \E v \in Vehicles : result[v] = o /\ message[v].eventId = id
BY DEF Verdicts

\* The same of the next state.
LEMMA VerdictOfNext ==
  \A o, id : id \in Verdicts(o)' <=>
    \E v \in Vehicles : result'[v] = o /\ message'[v].eventId = id
BY DEF Verdicts

\* No verdict changes.
LEMMA SameVerdicts ==
  ASSUME \A v \in Vehicles : result'[v] \in Final \/ result[v] \in Final =>
           result'[v] = result[v] /\ message'[v] = message[v],
         fpc' = "report" <=> fpc = "report",
         fpc = "report" => faultEvent' = faultEvent
  PROVE  /\ DecidedIds' = DecidedIds
         /\ \A o \in Final : Verdicts(o)' = Verdicts(o)
<1>1. DecidedIds' = DecidedIds
  BY DecidedBy, DecidedByNext
<1>2. ASSUME NEW o \in Final PROVE Verdicts(o)' = Verdicts(o)
  <2>1. \A id : id \in Verdicts(o)' <=> id \in Verdicts(o)
    BY VerdictOf, VerdictOfNext
  <2> QED BY <2>1
<1> QED BY <1>1, <1>2

\* What a vehicle that has an event adds, and takes away.
LEMMA VehicleVerdict ==
  ASSUME ConservationInv, NoVerdictYet, NEW v \in Vehicles, message[v] # None,
         \A w \in Vehicles \ {v} : result'[w] = result[w] /\ message'[w] = message[w],
         UNCHANGED <<fpc, faultEvent>>
  PROVE  /\ result'[v] \notin Final => DecidedIds' = DecidedIds \ {message[v].eventId}
         /\ result[v] \notin Final => message[v].eventId \notin ClosedIds
         /\ result'[v] \in Final /\ message'[v] = message[v] =>
              DecidedIds' = DecidedIds \cup {message[v].eventId}
         /\ \A o \in Final :
              /\ result'[v] = o /\ message'[v] = message[v] =>
                   Verdicts(o)' = Verdicts(o) \cup {message[v].eventId}
              /\ result'[v] # o =>
                   Verdicts(o)' = Verdicts(o) \ {message[v].eventId}
              /\ result'[v] # o /\ result[v] # o => Verdicts(o)' = Verdicts(o)
<1> DEFINE id == message[v].eventId
<1>1. /\ Has(Content, message[v])
      /\ \A w \in Vehicles : result[w] \in Final /\ w # v =>
           message[w].eventId # id
      /\ fpc = "report" => faultEvent.eventId # id
  BY HoldersDiffer, VerdictHolds
<1>2. result[v] \notin Final => id \notin DecidedIds
  BY <1>1, DecidedBy
<1>3. id \notin ReportedIds
  <2>1. id \in HeldIds
    BY <1>1, HeldMeans DEF HeldAreHad
  <2> QED BY <2>1, HeldIdsAreIds, HeldIsOpen DEF ReportedIds
<1>4. result'[v] \notin Final => DecidedIds' = DecidedIds \ {id}
  BY <1>1, DecidedBy, DecidedByNext
<1>5. result'[v] \in Final /\ message'[v] = message[v] =>
        DecidedIds' = DecidedIds \cup {id}
  BY <1>1, DecidedBy, DecidedByNext
<1>6. ASSUME NEW o \in Final
      PROVE  /\ result'[v] = o /\ message'[v] = message[v] =>
                  Verdicts(o)' = Verdicts(o) \cup {id}
             /\ result'[v] # o => Verdicts(o)' = Verdicts(o) \ {id}
             /\ result'[v] # o /\ result[v] # o => Verdicts(o)' = Verdicts(o)
  <2>1. /\ \A e : e \in Verdicts(o) <=>
             \E w \in Vehicles : result[w] = o /\ message[w].eventId = e
        /\ \A e : e \in Verdicts(o)' <=>
             \E w \in Vehicles : result'[w] = o /\ message'[w].eventId = e
    BY VerdictOf, VerdictOfNext
  <2>2. ASSUME result'[v] = o, message'[v] = message[v]
        PROVE  Verdicts(o)' = Verdicts(o) \cup {id}
    <3>1. \A e : e \in Verdicts(o)' <=> e \in Verdicts(o) \/ e = id
      BY <1>1, <2>1, <2>2
    <3> QED BY <3>1
  <2>3. ASSUME result'[v] # o
        PROVE  Verdicts(o)' = Verdicts(o) \ {id}
    <3>1. \A e : e \in Verdicts(o)' <=> e \in Verdicts(o) /\ e # id
      BY <1>1, <2>1, <2>3
    <3> QED BY <3>1
  <2>4. ASSUME result'[v] # o, result[v] # o
        PROVE  Verdicts(o)' = Verdicts(o)
    <3>1. \A e : e \in Verdicts(o)' <=> e \in Verdicts(o)
      BY <1>1, <2>1, <2>4
    <3> QED BY <3>1
  <2> QED BY <2>2, <2>3, <2>4
<1> QED BY <1>2, <1>3, <1>4, <1>5, <1>6 DEF ClosedIds

\* What the fault manager adds with its last attempt, and takes away.
LEMMA FaultVerdict ==
  ASSUME ConservationInv, NoVerdictYet,
         UNCHANGED <<result, message>>
  PROVE  /\ GiveUp => /\ Head(faultQueue).eventId \notin ClosedIds
                      /\ DecidedIds' = DecidedIds \cup {Head(faultQueue).eventId}
         /\ SendFailureCompletion =>
              DecidedIds' = DecidedIds \ {faultEvent.eventId}
<1>1. ASSUME GiveUp
      PROVE  /\ Head(faultQueue).eventId \notin ClosedIds
             /\ DecidedIds' = DecidedIds \cup {Head(faultQueue).eventId}
  <2> DEFINE id == Head(faultQueue).eventId
  <2>1. /\ faultQueue # << >> /\ fpc = "receive" /\ fpc' = "report"
        /\ faultEvent' = Head(faultQueue)
    BY <1>1 DEF GiveUp, FaultReceived
  <2>2. /\ Has(Content, Head(faultQueue))
        /\ \A w \in Vehicles : result[w] \in Final => message[w].eventId # id
    BY <2>1, HoldersDiffer, VerdictHolds
  <2>3. id \in HeldIds
    BY <2>2, HeldMeans DEF HeldAreHad
  <2>4. id \notin ReportedIds
    BY <2>3, HeldIdsAreIds, HeldIsOpen DEF ReportedIds
  <2>5. id \notin DecidedIds
    BY <2>1, <2>2, DecidedBy
  <2>6. DecidedIds' = DecidedIds \cup {id}
    BY <2>1, DecidedBy, DecidedByNext
  <2> QED BY <2>4, <2>5, <2>6 DEF ClosedIds
<1>2. ASSUME SendFailureCompletion
      PROVE  DecidedIds' = DecidedIds \ {faultEvent.eventId}
  <2>1. fpc = "report" /\ fpc' = "receive"
    BY <1>2 DEF SendFailureCompletion
  <2>2. \A w \in Vehicles : result[w] \in Final =>
          message[w].eventId # faultEvent.eventId
    BY <2>1, HoldersDiffer, VerdictHolds
  <2> QED BY <2>1, <2>2, DecidedBy, DecidedByNext
<1> QED BY <1>1, <1>2

\* What a step does to the events with a verdict and to their counters:
\* nothing, ...
NoVerdictMore ==
  /\ UNCHANGED <<completed, failed, cancelled>>
  /\ ClosedIds' = ClosedIds
  /\ FailureIds' = FailureIds
  /\ \A o \in Final : FinalIds(o)' = FinalIds(o)

\* ... one more event is completed or cancelled, ...
OneFinalMore ==
  \E id :
    /\ id \notin ClosedIds /\ ClosedIds' = ClosedIds \cup {id}
    /\ FailureIds' = FailureIds
    /\ \E o \in Final :
         /\ id \notin FinalIds(o) /\ FinalIds(o)' = FinalIds(o) \cup {id}
         /\ \A other \in Final \ {o} : FinalIds(other)' = FinalIds(other)
         /\ \/ o = STATUS_COMPLETED /\ completed' = completed + 1
               /\ UNCHANGED <<cancelled, failed>>
            \/ o = STATUS_CANCELLED /\ cancelled' = cancelled + 1
               /\ UNCHANGED <<completed, failed>>

\* ... or one more has failed.
OneFailureMore ==
  \E id :
    /\ id \notin ClosedIds /\ ClosedIds' = ClosedIds \cup {id}
    /\ id \notin FailureIds /\ FailureIds' = FailureIds \cup {id}
    /\ \A o \in Final : FinalIds(o)' = FinalIds(o)
    /\ failed' = failed + 1
    /\ UNCHANGED <<completed, cancelled>>

\* All there is.
VerdictMoves == NoVerdictMore \/ OneFinalMore \/ OneFailureMore

\* Steps that neither decide nor report.
LEMMA QuietVerdicts ==
  ASSUME UNCHANGED <<completed, failed, cancelled>>, DecidedIds' = DecidedIds,
         \A id \in Ids : Reported(id)' = Reported(id),
         \A o \in Final : Verdicts(o)' = Verdicts(o),
         fpc' = "report" <=> fpc = "report",
         fpc = "report" => faultEvent' = faultEvent
  PROVE  NoVerdictMore
<1>1. ReportedIds' = ReportedIds
  BY DEF ReportedIds
<1>2. FailedIds' = FailedIds
  BY DEF FailedIds
<1>3. \A o \in Final : FinalIds(o)' = FinalIds(o)
  BY DEF FinalIds
<1> QED BY <1>1, <1>2, <1>3 DEF NoVerdictMore, ClosedIds, FailureIds

\* Without a datagram nothing is reported.
LEMMA NothingReported ==
  ASSUME UNCHANGED replies
  PROVE  \A id \in Ids : Reported(id)' = Reported(id)
BY DEF Reported

\* A failure is a verdict.
LEMMA FailuresAreClosed == FailureIds \subseteq ClosedIds
BY DEF FailureIds, ClosedIds, FailedIds, ReportedIds, DecidedIds

\* So are the others.
LEMMA FinalsAreClosed == \A o \in Final : FinalIds(o) \subseteq ClosedIds
<1> SUFFICES ASSUME NEW o \in Final, NEW id \in FinalIds(o) PROVE id \in ClosedIds
  OBVIOUS
<1>1. CASE id \in Ids /\ o \in Reported(id)
  BY <1>1 DEF ClosedIds, ReportedIds
<1>2. CASE id \in Verdicts(o)
  BY <1>2, VerdictOf, DecidedBy DEF ClosedIds
<1> QED BY <1>1, <1>2 DEF FinalIds

\* The receive task, the dispatcher and the server decide nothing.
LEMMA RxVerdicts ==
  ASSUME ConservationInv, ConservationInv',
         ClientUdpRxTask \/ ClientDispatcherTask \/ \E m \in Events : ServerSends(m)
  PROVE  VerdictMoves
<1>1. UNCHANGED <<result, message, fpc, faultEvent, completed, failed, cancelled>>
  <2> USE DEF departmentVars, vars, taskVars, faultVars, clientCounters,
              doneCounters
  <2>1. CASE ClientUdpRxTask
    BY <2>1 DEF ClientUdpRxTask, ClientUdpReceiveMessage, SendAck, EnqueueEvent
  <2>2. CASE ClientDispatcherTask
    BY <2>2 DEF ClientDispatcherTask, ReceiveForDispatch, ForwardEvent,
                Dispatch, DropUndispatched, EventDispatched
  <2>3. CASE \E m \in Events : ServerSends(m)
    BY <2>3 DEF ServerSends
  <2> QED BY <2>1, <2>2, <2>3
<1>2. DecidedIds' = DecidedIds /\ \A o \in Final : Verdicts(o)' = Verdicts(o)
  BY <1>1, SameVerdicts
<1>3. \A id \in Ids : Reported(id)' = Reported(id)
  <2>1. CASE SendAck
    BY <2>1, Acknowledging DEF ConservationInv, Quiet
  <2>2. CASE ~SendAck
    <3>1. UNCHANGED replies
      BY <2>2 DEF ClientUdpRxTask, ClientUdpReceiveMessage, EnqueueEvent,
                  ClientDispatcherTask, ReceiveForDispatch, ForwardEvent,
                  Dispatch, DropUndispatched, ServerSends, historyVars
    <3> QED BY <3>1, NothingReported
  <2> QED BY <2>1, <2>2
<1> QED BY <1>1, <1>2, <1>3, QuietVerdicts DEF VerdictMoves

\* The fault manager decides on an event with no retry left, and reports it.
LEMMA FaultManagerVerdicts ==
  ASSUME ConservationInv, NoVerdictYet, FaultManagerTask
  PROVE  VerdictMoves
<1>0. UNCHANGED <<result, message>>
  BY DEF FaultManagerTask, RetryEvent, RequeueEvent, DropRetry, GiveUp,
         SendFailureCompletion, FaultReceived, departmentVars, vars, taskVars
<1>1. CASE RetryEvent \/ RequeueEvent \/ DropRetry
  <2>1. /\ fpc # "report" /\ fpc' # "report"
        /\ UNCHANGED <<completed, failed, cancelled, replies>>
    BY <1>1 DEF RetryEvent, RequeueEvent, DropRetry, clientCounters,
                doneCounters, historyVars
  <2>2. DecidedIds' = DecidedIds /\ \A o \in Final : Verdicts(o)' = Verdicts(o)
    BY <1>0, <2>1, SameVerdicts
  <2> QED BY <2>1, <2>2, NothingReported, QuietVerdicts DEF VerdictMoves
<1>2. CASE GiveUp
  <2> DEFINE id == Head(faultQueue).eventId
  <2>1. /\ fpc = "receive" /\ fpc' = "report" /\ faultEvent'.eventId = id
        /\ failed' = failed + 1
        /\ UNCHANGED <<completed, cancelled, replies>>
    BY <1>2 DEF GiveUp, historyVars
  <2>2. id \notin ClosedIds /\ DecidedIds' = DecidedIds \cup {id}
    BY <1>0, <1>2, FaultVerdict
  <2>3. ReportedIds' = ReportedIds /\ FailedIds' = FailedIds
    BY <2>1, NothingReported DEF ReportedIds, FailedIds
  <2>4. ClosedIds' = ClosedIds \cup {id} /\ FailureIds' = FailureIds \cup {id}
    BY <2>1, <2>2, <2>3 DEF ClosedIds, FailureIds
  <2>5. id \notin FailureIds
    BY <2>2, FailuresAreClosed
  <2>6. \A o \in Final : FinalIds(o)' = FinalIds(o)
    BY <1>0, <2>1, NothingReported DEF FinalIds, Verdicts
  <2> QED BY <2>1, <2>2, <2>4, <2>5, <2>6 DEF OneFailureMore, VerdictMoves
<1>3. CASE SendFailureCompletion
  <2> DEFINE id == faultEvent.eventId
  <2>1. /\ fpc = "report" /\ fpc' = "receive"
        /\ Send(Completion(id, STATUS_FAILED))
        /\ UNCHANGED <<completed, failed, cancelled>>
    BY <1>3 DEF SendFailureCompletion, clientCounters, doneCounters
  <2>2. id \in Ids /\ Accepted(id)
    <3>1. faultEvent \in Retried /\ faultEvent # None
      BY <2>1 DEF ConservationInv, ClientInv
    <3>2. /\ Content[<<"faultManager">>] # << >>
          /\ id = Head(Content[<<"faultManager">>]).eventId
      BY <3>1, ContentAt, BufferIs
    <3>3. <<"faultManager">> \in AllPlaces \ {<<"socket">>, <<"rx">>}
      BY AllPlacesAre
    <3> QED BY <3>1, <3>2, <3>3, RetriedIds, OldEvent
  <2>3. /\ ReportedIds' = ReportedIds \cup {id}
        /\ FailedIds' = FailedIds \cup {id}
        /\ \A o \in Final : {e \in Ids : o \in Reported(e)'}
                            = {e \in Ids : o \in Reported(e)}
    <3>1. PICK e \in Ids : e = id
      BY <2>2
    <3>2. /\ ReportedIds' = ReportedIds \cup {e}
          /\ Reported(e)' = {STATUS_FAILED}
          /\ \A x \in Ids \ {e} : Reported(x)' = Reported(x)
      BY <2>1, <2>2, <3>1, ReportedIs DEF Outcomes
    <3>3. Reported(e) = {}
      BY <2>2, <3>1, RepliesTell DEF Accepted, ReportedOnceOrNever
    <3>4. STATUS_FAILED \notin Final
      BY <1>0, VerdictHolds
    <3>5. \A o \in Final, x \in Ids : o \in Reported(x)' <=> o \in Reported(x)
      BY <3>2, <3>3, <3>4
    <3> QED BY <3>1, <3>2, <3>5 DEF FailedIds
  <2>4. DecidedIds' = DecidedIds \ {id} /\ id \in DecidedIds
    BY <1>0, <1>3, <2>1, FaultVerdict, DecidedBy
  <2>5. ClosedIds' = ClosedIds /\ FailureIds' = FailureIds
    BY <2>1, <2>3, <2>4 DEF ClosedIds, FailureIds
  <2>6. \A o \in Final : FinalIds(o)' = FinalIds(o)
    BY <1>0, <2>3 DEF FinalIds, Verdicts
  <2> QED BY <2>1, <2>5, <2>6 DEF NoVerdictMore, VerdictMoves
<1> QED BY <1>1, <1>2, <1>3 DEF FaultManagerTask

\* A vehicle decides on an event it has processed or given up, and reports it
\* unless it has failed.
LEMMA VehicleVerdicts ==
  ASSUME ConservationInv, NoVerdictYet, NEW v \in Vehicles, Vehicle(v)
  PROVE  VerdictMoves
<1> DEFINE id == message[v].eventId
<1>0. /\ UNCHANGED <<fpc, faultEvent, failed>>
      /\ result \in [Vehicles -> Outcomes \cup {STATUS_PENDING}]
      /\ message \in [Vehicles -> Retried \cup {None}]
      /\ vpc[v] \in HoldingEvent => message[v] # None
      /\ completed \in Nat /\ cancelled \in Nat
  BY DEF Vehicle, DriveVehicle, CancelEvent, FinishEvent, ReportOutcome,
         DropFailed, faultVars, clientCounters, doneCounters,
         ConservationInv, ClientInv, DepartmentInv, TypeOK, TaskKnows
<1>1. CASE DriveVehicle(v) \/ DropFailed(v)
  <2>1. UNCHANGED <<completed, failed, cancelled, replies>>
    BY <1>1 DEF DriveVehicle, DropFailed, clientCounters, doneCounters,
                historyVars
  <2>2. \A w \in Vehicles :
          result'[w] \in Final \/ result[w] \in Final =>
            result'[w] = result[w] /\ message'[w] = message[w]
    <3>1. CASE ReceiveEvent(v)
      <4>1. result[v] = STATUS_PENDING
        BY <3>1 DEF NoVerdictYet, ReceiveEvent, GoTo, HoldingOutcome
      <4> QED BY <1>0, <3>1, <4>1, VerdictHolds DEF ReceiveEvent
    <3>2. CASE SendFailedEventToFaultManager(v) \/ DropFailed(v)
      <4>1. /\ result[v] = STATUS_FAILED
            /\ result' = [result EXCEPT ![v] = STATUS_PENDING]
            /\ message' = [message EXCEPT ![v] = None]
        BY <3>2 DEF SendFailedEventToFaultManager, DropFailed, LoseFailedEvent,
                    ReportDone
      <4> QED BY <1>0, <4>1, VerdictHolds
    <3>3. CASE \/ CheckStatus(v) \/ ReceiveTimeout(v)
               \/ SetVehicleCurrentEvent(v) \/ StartProcessing(v)
               \/ ProcessSecond(v) \/ ReleaseVehicle(v)
               \/ ClearVehicleCurrentEvent(v)
      BY <3>3 DEF CheckStatus, ReceiveTimeout, SetVehicleCurrentEvent,
                  StartProcessing, ProcessSecond, ReleaseVehicle,
                  ClearVehicleCurrentEvent
    <3> QED BY <1>1, <3>1, <3>2, <3>3 DEF DriveVehicle
  <2>3. DecidedIds' = DecidedIds /\ \A o \in Final : Verdicts(o)' = Verdicts(o)
    BY <1>0, <2>2, SameVerdicts
  <2> QED BY <1>0, <2>1, <2>3, NothingReported, QuietVerdicts DEF VerdictMoves
<1>2. ASSUME NEW outcome \in Outcomes, vpc[v] = "process",
             result' = [result EXCEPT ![v] = outcome], UNCHANGED <<message, replies>>
      PROVE  /\ message[v] # None /\ result[v] \notin Final
             /\ outcome \in Final =>
                  id \notin ClosedIds /\ DecidedIds' = DecidedIds \cup {id}
             /\ outcome \notin Final => DecidedIds' = DecidedIds
             /\ ReportedIds' = ReportedIds /\ FailedIds' = FailedIds
             /\ outcome \in Final => FinalIds(outcome)' = FinalIds(outcome) \cup {id}
             /\ \A o \in Final \ {outcome} : FinalIds(o)' = FinalIds(o)
  <2>1. result[v] = STATUS_PENDING
    BY <1>2 DEF NoVerdictYet, HoldingOutcome
  <2>2. message[v] # None /\ result[v] \notin Final
    BY <1>0, <1>2, <2>1, VerdictHolds DEF HoldingEvent
  <2>3. /\ result'[v] = outcome
        /\ \A w \in Vehicles \ {v} : result'[w] = result[w] /\ message'[w] = message[w]
    BY <1>0, <1>2
  <2>4. outcome \in Final =>
          id \notin ClosedIds /\ DecidedIds' = DecidedIds \cup {id}
    BY <1>0, <1>2, <2>2, <2>3, VehicleVerdict
  <2>5. outcome \notin Final => DecidedIds' = DecidedIds
    BY <1>0, <1>2, <2>2, <2>3, SameVerdicts
  <2>6. ReportedIds' = ReportedIds /\ FailedIds' = FailedIds
    BY <1>2, NothingReported DEF ReportedIds, FailedIds
  <2>7. /\ outcome \in Final => Verdicts(outcome)' = Verdicts(outcome) \cup {id}
        /\ \A o \in Final \ {outcome} : Verdicts(o)' = Verdicts(o)
    BY <1>0, <1>2, <2>2, <2>3, VehicleVerdict
  <2>8. /\ outcome \in Final => FinalIds(outcome)' = FinalIds(outcome) \cup {id}
        /\ \A o \in Final \ {outcome} : FinalIds(o)' = FinalIds(o)
    BY <1>2, <2>7, NothingReported DEF FinalIds
  <2> QED BY <2>2, <2>4, <2>5, <2>6, <2>8
<1>3. CASE CancelEvent(v)
  <2>1. /\ vpc[v] = "process"
        /\ result' = [result EXCEPT ![v] = STATUS_CANCELLED]
        /\ UNCHANGED <<message, replies, completed>>
        /\ cancelled' = cancelled + 1
    BY <1>3 DEF CancelEvent, AbortProcessing, GoTo, historyVars
  <2>2. /\ id \notin ClosedIds /\ DecidedIds' = DecidedIds \cup {id}
        /\ ReportedIds' = ReportedIds /\ FailedIds' = FailedIds
        /\ FinalIds(STATUS_CANCELLED)' = FinalIds(STATUS_CANCELLED) \cup {id}
        /\ \A o \in Final \ {STATUS_CANCELLED} : FinalIds(o)' = FinalIds(o)
        /\ STATUS_CANCELLED \in Final
    BY <1>2, <2>1 DEF Outcomes, Final
  <2>3. ClosedIds' = ClosedIds \cup {id} /\ FailureIds' = FailureIds
    BY <1>0, <2>2 DEF ClosedIds, FailureIds
  <2>4. id \notin FinalIds(STATUS_CANCELLED)
    BY <2>2, FinalsAreClosed
  <2> QED BY <1>0, <2>1, <2>2, <2>3, <2>4 DEF OneFinalMore, VerdictMoves
<1>4. CASE FinishEvent(v)
  <2>1. PICK outcome \in {STATUS_COMPLETED, STATUS_FAILED} :
          result' = [result EXCEPT ![v] = outcome]
    BY <1>4 DEF FinishEvent, FinishProcessing
  <2>2. /\ vpc[v] = "process" /\ result'[v] = outcome
        /\ UNCHANGED <<message, replies, cancelled>>
        /\ completed' = IF result'[v] = STATUS_COMPLETED THEN completed + 1
                                                         ELSE completed
    BY <1>0, <1>4, <2>1 DEF FinishEvent, FinishProcessing, GoTo, historyVars
  <2>3. outcome \in Outcomes
    BY DEF Outcomes
  <2>4. CASE outcome = STATUS_COMPLETED
    <3>1. /\ id \notin ClosedIds /\ DecidedIds' = DecidedIds \cup {id}
          /\ ReportedIds' = ReportedIds /\ FailedIds' = FailedIds
          /\ FinalIds(outcome)' = FinalIds(outcome) \cup {id}
          /\ \A o \in Final \ {outcome} : FinalIds(o)' = FinalIds(o)
          /\ outcome \in Final
      BY <1>2, <2>1, <2>2, <2>3, <2>4 DEF Final
    <3>2. ClosedIds' = ClosedIds \cup {id} /\ FailureIds' = FailureIds
      BY <1>0, <3>1 DEF ClosedIds, FailureIds
    <3>3. id \notin FinalIds(outcome)
      BY <3>1, FinalsAreClosed
    <3> QED BY <1>0, <2>2, <2>4, <3>1, <3>2, <3>3 DEF OneFinalMore, VerdictMoves
  <2>5. CASE outcome = STATUS_FAILED
    <3>1. outcome \notin Final /\ outcome # STATUS_COMPLETED
      BY <2>5 DEF Final, STATUS_COMPLETED, STATUS_FAILED, STATUS_CANCELLED
    <3>2. /\ DecidedIds' = DecidedIds
          /\ ReportedIds' = ReportedIds /\ FailedIds' = FailedIds
          /\ \A o \in Final : FinalIds(o)' = FinalIds(o)
      BY <1>2, <2>1, <2>2, <2>3, <3>1
    <3>3. ClosedIds' = ClosedIds /\ FailureIds' = FailureIds
      BY <1>0, <3>2 DEF ClosedIds, FailureIds
    <3> QED BY <1>0, <2>2, <3>1, <3>2, <3>3 DEF NoVerdictMore, VerdictMoves
  <2> QED BY <2>4, <2>5
<1>5. CASE ReportOutcome(v)
  <2>1. /\ vpc[v] = "report" /\ result[v] # STATUS_FAILED
        /\ result' = [result EXCEPT ![v] = STATUS_PENDING]
        /\ message' = [message EXCEPT ![v] = None]
        /\ Send(Completion(id, result[v]))
        /\ UNCHANGED <<completed, failed, cancelled>>
    BY <1>5 DEF ReportOutcome, SendCompletionMessage, ReportDone, GoTo,
                clientCounters, doneCounters
  <2>2. /\ message[v] # None /\ message[v] \in Retried /\ id \in Ids
        /\ result[v] \in Outcomes /\ result[v] \in Final
    <3>1. message[v] # None /\ message[v] \in Retried
      BY <1>0, <2>1 DEF HoldingEvent
    <3>2. result[v] \in Outcomes
      BY <2>1 DEF ConservationInv, ClientInv, HoldingOutcome
    <3> QED BY <2>1, <3>1, <3>2, RetriedIds DEF Outcomes, Final
  <2>3. PICK outcome \in Outcomes : outcome = result[v] /\ outcome \in Final
    BY <2>2
  <2>4. Accepted(id)
    <3>1. /\ Content[<<"vehicle", v>>] # << >>
          /\ id = Head(Content[<<"vehicle", v>>]).eventId
      BY <2>2, ContentAt, BufferIs
    <3>2. <<"vehicle", v>> \in AllPlaces \ {<<"socket">>, <<"rx">>}
      BY AllPlacesAre, PlacesDiffer
    <3> QED BY <2>2, <3>1, <3>2, OldEvent
  <2>5. /\ ReportedIds' = ReportedIds \cup {id} /\ FailedIds' = FailedIds
        /\ \A o \in Final :
             {e \in Ids : o \in Reported(e)'}
               = {e \in Ids : o \in Reported(e)}
                   \cup (IF o = outcome THEN {id} ELSE {})
    <3>1. PICK e \in Ids : e = id
      BY <2>2
    <3>2. /\ ReportedIds' = ReportedIds \cup {e}
          /\ Reported(e)' = {outcome}
          /\ \A x \in Ids \ {e} : Reported(x)' = Reported(x)
      BY <2>1, <2>3, <2>4, <3>1, ReportedIs
    <3>3. Reported(e) = {}
      BY <2>4, <3>1, RepliesTell DEF Accepted, ReportedOnceOrNever
    <3>4. \A o \in Final, x \in Ids :
            o \in Reported(x)' <=> o \in Reported(x) \/ (o = outcome /\ x = e)
      BY <3>2, <3>3
    <3> QED BY <2>1, <2>3, <3>1, <3>2, <3>3, <3>4 DEF FailedIds
  <2>6. /\ DecidedIds' = DecidedIds \ {id} /\ id \in DecidedIds
        /\ id \in Verdicts(outcome)
        /\ \A o \in Final \ {outcome} : Verdicts(o)' = Verdicts(o)
        /\ Verdicts(outcome)' = Verdicts(outcome) \ {id}
    <3>1. /\ result'[v] = STATUS_PENDING
          /\ \A w \in Vehicles \ {v} : result'[w] = result[w] /\ message'[w] = message[w]
      BY <1>0, <2>1
    <3>2. result'[v] \notin Final
      BY <3>1, VerdictHolds
    <3>3. DecidedIds' = DecidedIds \ {id} /\ id \in DecidedIds
      BY <1>0, <2>2, <3>1, <3>2, VehicleVerdict, DecidedBy
    <3>4. id \in Verdicts(outcome)
      BY <2>3, VerdictOf
    <3>5. /\ \A o \in Final \ {outcome} : Verdicts(o)' = Verdicts(o)
          /\ Verdicts(outcome)' = Verdicts(outcome) \ {id}
      BY <1>0, <2>2, <2>3, <3>1, <3>2, VehicleVerdict
    <3> QED BY <3>3, <3>4, <3>5
  <2>7. ClosedIds' = ClosedIds /\ FailureIds' = FailureIds
    BY <1>0, <2>5, <2>6 DEF ClosedIds, FailureIds
  <2>8. \A o \in Final : FinalIds(o)' = FinalIds(o)
    BY <2>3, <2>5, <2>6 DEF FinalIds
  <2> QED BY <2>1, <2>7, <2>8 DEF NoVerdictMore, VerdictMoves
<1> QED BY <1>1, <1>3, <1>4, <1>5 DEF Vehicle

\* Every step.
LEMMA EveryVerdict ==
  ASSUME StatisticsInv, [ClientNext]_clientVars
  PROVE  VerdictMoves
<1>0. ConservationInv /\ ConservationInv' /\ NoVerdictYet
  BY ConservationStep DEF StatisticsInv
<1>1. CASE UNCHANGED <<result, message, fpc, faultEvent, completed, failed,
                       cancelled, replies>>
  <2>1. DecidedIds' = DecidedIds /\ \A o \in Final : Verdicts(o)' = Verdicts(o)
    BY <1>1, SameVerdicts
  <2> QED BY <1>1, <2>1, NothingReported, QuietVerdicts DEF VerdictMoves
<1>2. CASE \E d \in Departments : ShiftManager(d)
  <2>1. UNCHANGED taskVars
    BY <1>2 DEF ShiftManager, ShiftManagerTask, CountPendingDepartmentEvents,
                CountAvailableVehicles, InspectVehicle, CountHighPriorityEvents,
                ShouldInterruptVehicle, SetVehicleBreak, SetBreakBit,
                ClearVehicleBreak, ClearBreakBit, NextMonitoringCycle
  <2> QED BY <1>1, <1>2, <2>1 DEF ShiftManager, taskVars, faultVars,
                                  clientCounters, doneCounters, historyVars
<1>3. CASE UNCHANGED clientVars
  BY <1>1, <1>3 DEF clientVars, departmentVars, vars, taskVars, faultVars,
                    clientCounters, doneCounters, historyVars
<1>4. CASE ClientUdpRxTask \/ ClientDispatcherTask \/ \E m \in Events : ServerSends(m)
  BY <1>0, <1>4, RxVerdicts
<1>5. CASE FaultManagerTask
  BY <1>0, <1>5, FaultManagerVerdicts
<1>6. CASE \E v \in Vehicles : Vehicle(v)
  BY <1>0, <1>6, VehicleVerdicts
<1> QED BY <1>2, <1>3, <1>4, <1>5, <1>6 DEF ClientNext, ClientTasks

\* The outcome counters count the events with a verdict, together and each.
LEMMA VerdictStep ==
  ASSUME StatisticsInv, [ClientNext]_clientVars
  PROVE  /\ IsFiniteSet(ClosedIds')
         /\ completed' + failed' + cancelled' = Cardinality(ClosedIds')
         /\ IsFiniteSet(FailureIds') /\ failed' = Cardinality(FailureIds')
         /\ IsFiniteSet(FinalIds(STATUS_COMPLETED)')
         /\ completed' = Cardinality(FinalIds(STATUS_COMPLETED)')
         /\ IsFiniteSet(FinalIds(STATUS_CANCELLED)')
         /\ cancelled' = Cardinality(FinalIds(STATUS_CANCELLED)')
<1>0. /\ IsFiniteSet(ClosedIds) /\ IsFiniteSet(FailureIds)
      /\ IsFiniteSet(FinalIds(STATUS_COMPLETED))
      /\ IsFiniteSet(FinalIds(STATUS_CANCELLED))
      /\ completed + failed + cancelled = Cardinality(ClosedIds)
      /\ failed = Cardinality(FailureIds)
      /\ completed = Cardinality(FinalIds(STATUS_COMPLETED))
      /\ cancelled = Cardinality(FinalIds(STATUS_CANCELLED))
      /\ completed \in Nat /\ failed \in Nat /\ cancelled \in Nat
      /\ STATUS_COMPLETED \in Final /\ STATUS_CANCELLED \in Final
      /\ STATUS_COMPLETED # STATUS_CANCELLED
  BY DEF StatisticsInv, ConservationInv, ClientInv, Final, STATUS_COMPLETED,
         STATUS_CANCELLED
<1>1. CASE NoVerdictMore
  BY <1>0, <1>1 DEF NoVerdictMore
<1>2. CASE OneFinalMore
  <2> DEFINE Counts(id, o) ==
               /\ id \notin FinalIds(o) /\ FinalIds(o)' = FinalIds(o) \cup {id}
               /\ \A other \in Final \ {o} : FinalIds(other)' = FinalIds(other)
               /\ \/ o = STATUS_COMPLETED /\ completed' = completed + 1
                     /\ UNCHANGED <<cancelled, failed>>
                  \/ o = STATUS_CANCELLED /\ cancelled' = cancelled + 1
                     /\ UNCHANGED <<completed, failed>>
  <2>0. PICK id :
          /\ id \notin ClosedIds /\ ClosedIds' = ClosedIds \cup {id}
          /\ FailureIds' = FailureIds
          /\ \E o \in Final : Counts(id, o)
    BY <1>2, Zenon DEF OneFinalMore
  <2>1. PICK o \in Final : Counts(id, o)
    BY <2>0
  <2>2. /\ IsFiniteSet(ClosedIds')
        /\ Cardinality(ClosedIds') = Cardinality(ClosedIds) + 1
        /\ IsFiniteSet(FinalIds(o)')
        /\ Cardinality(FinalIds(o)') = Cardinality(FinalIds(o)) + 1
    <3>1. IsFiniteSet(FinalIds(o))
      BY <1>0 DEF Final
    <3> QED BY <1>0, <2>0, <2>1, <3>1, OneMore
  <2>3. completed' + failed' + cancelled' = completed + failed + cancelled + 1
    <3>1. /\ completed \in Nat /\ failed \in Nat /\ cancelled \in Nat
          /\ \/ completed' = completed + 1 /\ UNCHANGED <<cancelled, failed>>
             \/ cancelled' = cancelled + 1 /\ UNCHANGED <<completed, failed>>
      BY <1>0, <2>1
    <3> QED BY <3>1
  <2>4. completed' + failed' + cancelled' = Cardinality(ClosedIds')
    <3>1. completed + failed + cancelled = Cardinality(ClosedIds)
      BY <1>0
    <3>2. Cardinality(ClosedIds') = Cardinality(ClosedIds) + 1
      BY <2>2
    <3> QED BY <2>3, <3>1, <3>2
  <2>5. IsFiniteSet(FailureIds') /\ failed' = Cardinality(FailureIds')
    BY <1>0, <2>0
  <2>6. /\ IsFiniteSet(FinalIds(STATUS_COMPLETED)')
        /\ completed' = Cardinality(FinalIds(STATUS_COMPLETED)')
        /\ IsFiniteSet(FinalIds(STATUS_CANCELLED)')
        /\ cancelled' = Cardinality(FinalIds(STATUS_CANCELLED)')
    <3>1. CASE o = STATUS_COMPLETED
      BY <1>0, <2>1, <2>2, <3>1
    <3>2. CASE o = STATUS_CANCELLED
      BY <1>0, <2>1, <2>2, <3>2
    <3> QED BY <2>1, <3>1, <3>2
  <2> QED BY <2>2, <2>4, <2>5, <2>6
<1>3. CASE OneFailureMore
  <2>1. PICK id :
          /\ id \notin ClosedIds /\ ClosedIds' = ClosedIds \cup {id}
          /\ id \notin FailureIds /\ FailureIds' = FailureIds \cup {id}
          /\ failed' = failed + 1
          /\ UNCHANGED <<completed, cancelled>>
    BY <1>3 DEF OneFailureMore
  <2>2. /\ IsFiniteSet(ClosedIds')
        /\ Cardinality(ClosedIds') = Cardinality(ClosedIds) + 1
        /\ IsFiniteSet(FailureIds')
        /\ Cardinality(FailureIds') = Cardinality(FailureIds) + 1
    BY <1>0, <2>1, OneMore
  <2>3. \A o \in Final : FinalIds(o)' = FinalIds(o)
    BY <1>3 DEF OneFailureMore
  <2> QED BY <1>0, <2>1, <2>2, <2>3
<1> QED BY <1>1, <1>2, <1>3, EveryVerdict DEF VerdictMoves

-----------------------------------------------------------------------------
(* Retries: at most MAX_EVENT_RETRIES of each event *)

\* Only RetryEvent counts retries.
LEMMA WhoRetries ==
  ASSUME [ClientNext]_clientVars, ~RetryEvent
  PROVE  UNCHANGED retries
<1> USE DEF clientCounters
<1>1. CASE ClientUdpRxTask
  BY <1>1 DEF ClientUdpRxTask, ClientUdpReceiveMessage, SendAck, EnqueueEvent
<1>2. CASE ClientDispatcherTask
  BY <1>2 DEF ClientDispatcherTask, ReceiveForDispatch, ForwardEvent, Dispatch,
              DropUndispatched
<1>3. CASE FaultManagerTask
  BY <1>3 DEF FaultManagerTask, RequeueEvent, DropRetry, GiveUp,
              SendFailureCompletion
<1>4. CASE \E v \in Vehicles : Vehicle(v)
  BY <1>4 DEF Vehicle, DriveVehicle, CancelEvent, FinishEvent, ReportOutcome,
              DropFailed
<1>5. CASE \E d \in Departments : ShiftManager(d)
  BY <1>5 DEF ShiftManager
<1>6. CASE \E m \in Events : ServerSends(m)
  BY <1>6 DEF ServerSends
<1>7. CASE UNCHANGED clientVars
  BY <1>7 DEF clientVars
<1> QED BY <1>1, <1>2, <1>3, <1>4, <1>5, <1>6, <1>7 DEF ClientNext, ClientTasks

\* A retry counted is a retry of an event that stays known; a new one is later
\* than all before of the same event.
LEMMA RetriesStep ==
  ASSUME StatisticsInv, [ClientNext]_clientVars
  PROVE  \E S : RetriesAre(S)'
<1>0. ConservationInv /\ ConservationInv' /\ EventMoves
  BY ConservationStep DEF StatisticsInv
<1>1. PICK S : RetriesAre(S)
  BY DEF StatisticsInv
<1>2. KnownIds \subseteq KnownIds'
  BY <1>0, KnownStays, KnownGrows DEF EventMoves
<1>3. ASSUME NEW x \in S, NEW m, Has(Content', m), m.eventId = x[1]
      PROVE  x[2] <= m.retryCount
  <2>1. x[1] \in KnownIds /\ x[2] \in 1 .. MAX_EVENT_RETRIES
    BY <1>1 DEF RetriesAre
  <2>2. ASSUME Has(Content, m) PROVE x[2] <= m.retryCount
    BY <1>1, <1>3, <2>2 DEF RetriesAre
  <2>3. CASE Quiet \/ LosesOne \/ ReportsOne
    <3>1. Has(Content, m)
      BY <1>3, <2>3 DEF Quiet, CopiesStay, LosesOne, ReportsOne, Removed
    <3> QED BY <2>2, <3>1
  <2>4. CASE ArrivesOne
    <3>1. PICK n \in Events :
            /\ Unanswered(n.eventId)
            /\ \A y : Has(Content, y) => y.eventId # n.eventId
            /\ Relocated(n)
      BY <2>4 DEF ArrivesOne
    <3>2. n.eventId \notin KnownIds
      <4>1. n.eventId \notin HeldIds
        BY <1>0, <3>1, HeldMeans DEF HeldAreHad
      <4>2. n.eventId \in Ids
        BY DEF Ids
      <4>3. Reported(n.eventId) = {} /\ n.eventId \notin dropped
        BY <3>1, <4>2, RepliesTell DEF Unanswered, ReportedOnceOrNever
      <4> QED BY <4>1, <4>3 DEF KnownIds, ReportedIds
    <3>3. Has(Content, m)
      BY <1>3, <2>1, <3>1, <3>2 DEF Relocated
    <3> QED BY <2>2, <3>3
  <2>5. CASE RetriesOne
    <3>1. PICK n \in Retried, again \in Retried :
            /\ Has(Content, n) /\ again.eventId = n.eventId
            /\ again.retryCount = n.retryCount + 1
            /\ Relocated(again)
      BY <2>5 DEF RetriesOne
    <3>2. CASE m = again
      <4>1. x[2] <= n.retryCount
        BY <1>1, <1>3, <3>1, <3>2 DEF RetriesAre
      <4>2. n.retryCount \in Nat
        BY RetriedAreArrivals, MessagesAssumption DEF EventMessage
      <4> QED BY <2>1, <3>1, <3>2, <4>1, <4>2
    <3>3. CASE m # again
      BY <1>3, <2>2, <3>1, <3>3 DEF Relocated
    <3> QED BY <3>2, <3>3
  <2> QED BY <1>0, <2>3, <2>4, <2>5 DEF EventMoves
<1>4. CASE RetryEvent
  <2> DEFINE m == Head(faultQueue)
             k == m.retryCount + 1
             T == S \cup {<<m.eventId, k>>}
  <2>1. /\ FaultReceived /\ fpc = "receive" /\ retries' = retries + 1
        /\ m.retryCount < MAX_EVENT_RETRIES
        /\ faultEvent' = [m EXCEPT !.retryCount = @ + 1]
        /\ UNCHANGED <<rxVars, clientRxQueue, dispatchEvent, historyVars>>
    BY <1>4 DEF RetryEvent
  <2>2. m \in Retried /\ Has(Content, m)
    <3>1. faultQueue \in Seq(Retried) /\ faultQueue # << >>
      BY <1>0, <2>1 DEF FaultReceived, ConservationInv, ClientInv
    <3> QED BY <1>0, <3>1, HoldersDiffer, QueueEnds
  <2>3. m.retryCount \in Nat
    BY <2>2, RetriedAreArrivals, MessagesAssumption DEF EventMessage
  <2>4. /\ faultEvent' \in Retried /\ faultEvent'.eventId = m.eventId
        /\ faultEvent'.retryCount = k
    BY <2>1, <2>2, RetryAgain, RetriedAreArrivals DEF EventMessage
  <2>5. Relocated(faultEvent')
    BY <1>0, <2>1, <2>4, TakingFault DEF ConservationInv
  <2>6. ASSUME NEW n, Has(Content', n), n.eventId = m.eventId
        PROVE  k <= n.retryCount
    <3>1. n = faultEvent'
      BY <2>4, <2>5, <2>6 DEF Relocated
    <3> QED BY <2>3, <2>4, <3>1
  <2>7. <<m.eventId, k>> \notin S
    <3> SUFFICES ASSUME <<m.eventId, k>> \in S PROVE FALSE
      OBVIOUS
    <3>1. k <= m.retryCount
      BY <1>1, <2>2 DEF RetriesAre
    <3> QED BY <2>3, <3>1
  <2>8. <<m.eventId, k>> \in KnownIds' \X (1 .. MAX_EVENT_RETRIES)
    <3>1. m.eventId \in KnownIds
      BY <1>0, <2>2, HeldMeans DEF HeldAreHad, KnownIds
    <3>2. k \in 1 .. MAX_EVENT_RETRIES
      BY <2>1, <2>3, MessagesAssumption
    <3> QED BY <1>2, <3>1, <3>2
  <2>9. IsFiniteSet(T) /\ Cardinality(T) = retries'
    BY <1>1, <2>1, <2>7, OneMore DEF RetriesAre
  <2>10. T \subseteq KnownIds' \X (1 .. MAX_EVENT_RETRIES)
    BY <1>1, <1>2, <2>8 DEF RetriesAre
  <2>11. \A x \in T : \A n :
           Has(Content', n) /\ n.eventId = x[1] => x[2] <= n.retryCount
    BY <1>3, <2>6
  <2> HIDE DEF T
  <2>12. PICK U : U = T
    OBVIOUS
  <2>13. RetriesAre(U)'
    BY <2>9, <2>10, <2>11, <2>12 DEF RetriesAre
  <2> QED BY <2>13
<1>5. CASE ~RetryEvent
  <2>1. retries' = retries
    BY <1>5, WhoRetries
  <2>2. S \subseteq KnownIds' \X (1 .. MAX_EVENT_RETRIES)
    BY <1>1, <1>2 DEF RetriesAre
  <2>3. RetriesAre(S)'
    BY <1>1, <1>3, <2>1, <2>2 DEF RetriesAre
  <2> QED BY <2>3
<1> QED BY <1>4, <1>5

-----------------------------------------------------------------------------
(* Dispatched: what was received or requeued *)

\* An event adds to what is on its way when it is received or requeued, and
\* is dispatched or dropped at the end of it.
LEMMA DispatchedStep ==
  ASSUME StatisticsInv, [ClientNext]_clientVars
  PROVE  dispatched' + OnTheWay' <= received' + retries'
<1>0. ClientInv /\ ClientInv'
  BY ConservationStep DEF StatisticsInv, ConservationInv
<1> DEFINE n == Len(clientRxQueue)
<1>1. /\ received \in Nat /\ retries \in Nat /\ dispatched \in Nat
      /\ n \in Nat /\ n' \in Nat
      /\ RxHolds \in 0 .. 1 /\ DispatchHolds \in 0 .. 1 /\ RequeueHolds \in 0 .. 1
      /\ RxHolds' \in 0 .. 1 /\ DispatchHolds' \in 0 .. 1
      /\ RequeueHolds' \in 0 .. 1
  BY <1>0 DEF ClientInv, RxHolds, DispatchHolds, RequeueHolds
<1>2. dispatched + RxHolds + n + DispatchHolds + RequeueHolds <= received + retries
  <2>1. dispatched + OnTheWay <= received + retries
    BY DEF StatisticsInv
  <2> QED BY <1>1, <2>1 DEF OnTheWay
<1>3. /\ UNCHANGED rxEvent => RxHolds' = RxHolds
      /\ rxEvent = None => RxHolds = 0
      /\ rxEvent # None => RxHolds = 1
      /\ rxEvent' = None => RxHolds' = 0
      /\ UNCHANGED dispatchEvent => DispatchHolds' = DispatchHolds
      /\ dispatchEvent = None => DispatchHolds = 0
      /\ dispatchEvent # None => DispatchHolds = 1
      /\ dispatchEvent' = None => DispatchHolds' = 0
      /\ UNCHANGED fpc => RequeueHolds' = RequeueHolds
      /\ fpc # "requeue" => RequeueHolds = 0
      /\ fpc = "requeue" => RequeueHolds = 1
      /\ fpc' # "requeue" => RequeueHolds' = 0
      /\ UNCHANGED clientRxQueue => n' = n
  BY DEF RxHolds, DispatchHolds, RequeueHolds
<1> DEFINE Bound == dispatched' + (RxHolds' + n' + DispatchHolds' + RequeueHolds')
                      <= received' + retries'
<1> SUFFICES Bound
  BY DEF OnTheWay
<1>4. ASSUME UNCHANGED <<received, retries, dispatched, clientRxQueue, rxEvent,
                         dispatchEvent>>,
             UNCHANGED fpc \/ fpc' # "requeue"
      PROVE  Bound
  <2>1. /\ received' = received /\ retries' = retries /\ dispatched' = dispatched
        /\ n' = n /\ RxHolds' = RxHolds /\ DispatchHolds' = DispatchHolds
        /\ RequeueHolds' = RequeueHolds \/ RequeueHolds' = 0
    BY <1>3, <1>4
  <2>2. \A k \in {0, RequeueHolds} :
          dispatched + (RxHolds + n + DispatchHolds + k) <= received + retries
    BY <1>1, <1>2
  <2> HIDE DEF n
  <2> QED BY <2>1, <2>2
<1>5. CASE ClientUdpRxTask
  <2>1. CASE ClientUdpReceiveMessage
    <3>1. /\ rxEvent = None /\ received' = received + 1
          /\ UNCHANGED <<retries, dispatched, clientRxQueue, dispatchEvent, fpc>>
      BY <1>0, <2>1 DEF ClientInv, ClientUdpReceiveMessage, faultVars
    <3>2. /\ RxHolds = 0 /\ n' = n /\ DispatchHolds' = DispatchHolds
          /\ RequeueHolds' = RequeueHolds /\ received' = received + 1
          /\ retries' = retries /\ dispatched' = dispatched
      BY <1>3, <3>1
    <3>3. dispatched + (RxHolds' + n + DispatchHolds + RequeueHolds)
            <= (received + 1) + retries
      <4> DEFINE m == n
                 more == RxHolds'
      <4>1. /\ dispatched \in Nat /\ received \in Nat /\ retries \in Nat
            /\ m \in Nat /\ DispatchHolds \in Nat /\ RequeueHolds \in Nat
            /\ more \in Nat /\ more <= 1
        BY <1>1
      <4>2. dispatched + m + DispatchHolds + RequeueHolds <= received + retries
        BY <1>1, <1>2, <3>2
      <4> HIDE DEF m, more
      <4>3. dispatched + (more + m + DispatchHolds + RequeueHolds)
              <= (received + 1) + retries
        BY <4>1, <4>2
      <4> QED BY <4>3 DEF m, more
    <3> HIDE DEF n
    <3> QED BY <3>2, <3>3
  <2>2. CASE SendAck
    BY <1>4, <2>2 DEF SendAck, clientCounters, faultVars
  <2>3. CASE EnqueueEvent
    <3>1. /\ rxEvent # None /\ rxEvent \in Retried /\ rxEvent' = None
          /\ clientRxQueue' = Append(clientRxQueue, rxEvent)
          /\ UNCHANGED <<received, retries, dispatched, dispatchEvent, fpc>>
      BY <1>0, <2>3, RetriedAreArrivals
      DEF ClientInv, EnqueueEvent, clientCounters, faultVars
    <3>2. n' = n + 1
      BY <1>0, <3>1 DEF ClientInv
    <3>3. /\ RxHolds = 1 /\ RxHolds' = 0 /\ DispatchHolds' = DispatchHolds
          /\ RequeueHolds' = RequeueHolds /\ received' = received
          /\ retries' = retries /\ dispatched' = dispatched
      BY <1>3, <3>1
    <3>4. dispatched + (0 + (n + 1) + DispatchHolds + RequeueHolds)
            <= received + retries
      BY <1>1, <1>2, <3>3
    <3> HIDE DEF n
    <3> QED BY <3>2, <3>3, <3>4
  <2> QED BY <1>5, <2>1, <2>2, <2>3 DEF ClientUdpRxTask
<1>6. CASE ClientDispatcherTask
  <2>1. CASE ReceiveForDispatch
    <3>1. /\ dispatchEvent = None /\ clientRxQueue # << >>
          /\ clientRxQueue' = Tail(clientRxQueue)
          /\ UNCHANGED <<received, retries, dispatched, rxEvent, fpc>>
      BY <2>1 DEF ReceiveForDispatch, clientCounters, faultVars, rxVars
    <3>2. n' = n - 1
      BY <1>0, <3>1 DEF ClientInv
    <3>3. /\ RxHolds' = RxHolds /\ DispatchHolds = 0
          /\ RequeueHolds' = RequeueHolds /\ received' = received
          /\ retries' = retries /\ dispatched' = dispatched
      BY <1>3, <3>1
    <3>4. dispatched + (RxHolds + (n - 1) + DispatchHolds' + RequeueHolds)
            <= received + retries
      BY <1>1, <1>2, <3>3
    <3> HIDE DEF n
    <3> QED BY <3>2, <3>3, <3>4
  <2>2. CASE ForwardEvent
    <3>1. /\ dispatchEvent # None /\ dispatchEvent' = None
          /\ dispatched' \in {dispatched, dispatched + 1}
          /\ UNCHANGED <<received, retries, clientRxQueue, rxEvent, fpc>>
      BY <2>2 DEF ForwardEvent, Dispatch, DropUndispatched, clientCounters,
                  faultVars, rxVars
    <3>2. /\ RxHolds' = RxHolds /\ n' = n
          /\ DispatchHolds = 1 /\ DispatchHolds' = 0
          /\ RequeueHolds' = RequeueHolds /\ received' = received
          /\ retries' = retries /\ dispatched' \in {dispatched, dispatched + 1}
      BY <1>3, <3>1
    <3>3. \A k \in {dispatched, dispatched + 1} :
            k + (RxHolds + n + 0 + RequeueHolds) <= received + retries
      BY <1>1, <1>2, <3>2
    <3> HIDE DEF n
    <3> QED BY <3>2, <3>3
  <2> QED BY <1>6, <2>1, <2>2 DEF ClientDispatcherTask
<1>7. CASE FaultManagerTask
  <2>1. CASE RetryEvent
    <3>1. /\ fpc # "requeue" /\ retries' = retries + 1
          /\ UNCHANGED <<received, dispatched, clientRxQueue, rxEvent,
                         dispatchEvent>>
      BY <2>1 DEF RetryEvent, rxVars
    <3>2. /\ RxHolds' = RxHolds /\ n' = n /\ DispatchHolds' = DispatchHolds
          /\ RequeueHolds = 0 /\ received' = received
          /\ retries' = retries + 1 /\ dispatched' = dispatched
      BY <1>3, <3>1
    <3>3. dispatched + (RxHolds + n + DispatchHolds + RequeueHolds')
            <= received + (retries + 1)
      BY <1>1, <1>2, <3>2
    <3> HIDE DEF n
    <3> QED BY <3>2, <3>3
  <2>2. CASE RequeueEvent
    <3>1. /\ fpc = "requeue" /\ fpc' # "requeue" /\ faultEvent \in Retried
          /\ clientRxQueue' = Append(clientRxQueue, faultEvent)
          /\ UNCHANGED <<received, retries, dispatched, rxEvent, dispatchEvent>>
      BY <1>0, <2>2 DEF ClientInv, RequeueEvent, clientCounters, rxVars
    <3>2. n' = n + 1
      BY <1>0, <3>1 DEF ClientInv
    <3>3. /\ RxHolds' = RxHolds /\ DispatchHolds' = DispatchHolds
          /\ RequeueHolds = 1 /\ RequeueHolds' = 0 /\ received' = received
          /\ retries' = retries /\ dispatched' = dispatched
      BY <1>3, <3>1
    <3>4. dispatched + (RxHolds + (n + 1) + DispatchHolds + 0)
            <= received + retries
      BY <1>1, <1>2, <3>3
    <3> HIDE DEF n
    <3> QED BY <3>2, <3>3, <3>4
  <2>3. CASE DropRetry \/ GiveUp \/ SendFailureCompletion
    BY <1>4, <2>3 DEF DropRetry, GiveUp, SendFailureCompletion, clientCounters,
                      rxVars
  <2> QED BY <1>7, <2>1, <2>2, <2>3 DEF FaultManagerTask
<1>8. CASE \E v \in Vehicles : Vehicle(v)
  BY <1>4, <1>8 DEF Vehicle, DriveVehicle, CancelEvent, FinishEvent,
                    ReportOutcome, DropFailed, clientCounters, rxVars, faultVars
<1>9. CASE \E d \in Departments : ShiftManager(d)
  BY <1>4, <1>9 DEF ShiftManager, clientCounters, rxVars, faultVars
<1>10. CASE \E m \in Events : ServerSends(m)
  BY <1>4, <1>10 DEF ServerSends, clientCounters, faultVars
<1>11. CASE UNCHANGED clientVars
  BY <1>4, <1>11 DEF clientVars, clientCounters, rxVars, faultVars
<1> QED BY <1>5, <1>6, <1>7, <1>8, <1>9, <1>10, <1>11 DEF ClientNext, ClientTasks

-----------------------------------------------------------------------------
(* The theorem *)

\* A client that starts has counted nothing and knows nothing.
LEMMA StatisticsInit == ClientInit => StatisticsInv
<1> SUFFICES ASSUME ClientInit PROVE StatisticsInv
  OBVIOUS
<1>1. ConservationInv
  BY ConservationInit
<1>2. /\ \A v \in Vehicles : result[v] = STATUS_PENDING
      /\ received = 0 /\ dispatched = 0 /\ completed = 0 /\ failed = 0
      /\ cancelled = 0 /\ retries = 0 /\ dropped = {}
      /\ rxEvent = None /\ clientRxQueue = << >> /\ dispatchEvent = None
      /\ fpc = "receive" /\ \A id \in Ids : replies[id] = << >>
  BY DEF ClientInit, Init
<1>3. \A m : ~Has(Content, m)
  <2>1. \A p \in Places : p \in AllPlaces
    BY DEF AllPlaces
  <2> QED BY <2>1, NothingHeld DEF Has
<1>4. HeldIds = {}
  BY <1>1, <1>3, HeldMeans DEF HeldAreHad
<1>5. \A id \in Ids : Reported(id) = {}
  BY <1>2, RepliesTell DEF ReportedOnceOrNever
<1>6. ReportedIds = {} /\ FailedIds = {}
  BY <1>5 DEF ReportedIds, FailedIds
<1>7. DecidedIds = {}
  BY <1>2, DecidedBy DEF Final, STATUS_PENDING, STATUS_COMPLETED, STATUS_CANCELLED
<1>8. FinalIds(STATUS_COMPLETED) = {} /\ FinalIds(STATUS_CANCELLED) = {}
  <2>1. STATUS_PENDING # STATUS_COMPLETED /\ STATUS_PENDING # STATUS_CANCELLED
    BY DEF STATUS_PENDING, STATUS_COMPLETED, STATUS_CANCELLED
  <2> QED BY <1>2, <1>5, <2>1 DEF FinalIds, Verdicts
<1>9. KnownIds = {} /\ ClosedIds = {} /\ FailureIds = {}
  BY <1>2, <1>4, <1>6, <1>7 DEF KnownIds, ClosedIds, FailureIds
<1>10. IsFiniteSet({}) /\ Cardinality({}) = 0
  BY FS_EmptySet
<1>11. RetriesAre({})
  BY <1>2, <1>10 DEF RetriesAre
<1>12. dispatched + OnTheWay <= received + retries
  BY <1>2 DEF OnTheWay, RxHolds, DispatchHolds, RequeueHolds
<1>13. NoVerdictYet
  BY <1>2 DEF NoVerdictYet
<1>14. /\ IsFiniteSet(KnownIds) /\ received = Cardinality(KnownIds)
       /\ IsFiniteSet(ClosedIds)
       /\ completed + failed + cancelled = Cardinality(ClosedIds)
       /\ IsFiniteSet(FailureIds) /\ failed = Cardinality(FailureIds)
       /\ IsFiniteSet(FinalIds(STATUS_COMPLETED))
       /\ completed = Cardinality(FinalIds(STATUS_COMPLETED))
       /\ IsFiniteSet(FinalIds(STATUS_CANCELLED))
       /\ cancelled = Cardinality(FinalIds(STATUS_CANCELLED))
  BY <1>2, <1>8, <1>9, <1>10
<1> QED BY <1>1, <1>11, <1>12, <1>13, <1>14 DEF StatisticsInv

\* Every step keeps the balance.
LEMMA StatisticsStep ==
  ASSUME StatisticsInv, [ClientNext]_clientVars
  PROVE  StatisticsInv'
<1>1. ConservationInv'
  BY ConservationStep DEF StatisticsInv
<1> QED BY <1>1, NoVerdictYetStep, ReceivedStep, VerdictStep, RetriesStep,
           DispatchedStep
        DEF StatisticsInv

\* The parts of a finite set.
LEMMA Parts ==
  ASSUME NEW A, NEW B, NEW C, IsFiniteSet(C), C = A \cup B, A \cap B = {}
  PROVE  /\ IsFiniteSet(A) /\ IsFiniteSet(B)
         /\ Cardinality(A) \in Nat /\ Cardinality(B) \in Nat
         /\ Cardinality(C) = Cardinality(A) + Cardinality(B)
<1>1. IsFiniteSet(A) /\ IsFiniteSet(B)
  BY FS_Subset
<1>2. Cardinality(A) \in Nat /\ Cardinality(B) \in Nat
  BY <1>1, FS_CardinalityType
<1>3. Cardinality(A \cup B) = Cardinality(A) + Cardinality(B) - Cardinality(A \cap B)
  BY <1>1, FS_Union
<1>4. Cardinality(A \cap B) = 0
  BY FS_EmptySet
<1> QED BY <1>1, <1>2, <1>3, <1>4

\* What the invariant says of the counters printed.
LEMMA Balanced ==
  ASSUME StatisticsInv
  PROVE  StatisticsBalance
<1> DEFINE Open == (HeldIds \ DecidedIds) \cup dropped
<1>0. ConservationInv /\ NoVerdictYet
  BY DEF StatisticsInv
<1>1. /\ DecidedIds \subseteq HeldIds /\ DecidedIds \cap ReportedIds = {}
      /\ HeldIds \cap dropped = {} /\ HeldIds \cap ReportedIds = {}
      /\ dropped \cap ReportedIds = {}
  <2>1. DecidedIds \subseteq HeldIds /\ DecidedIds \cap ReportedIds = {}
    BY <1>0, DecidedAreHeld
  <2>2. HeldIds \cap dropped = {} /\ HeldIds \cap ReportedIds = {}
    BY <1>0, HeldIdsAreIds, HeldIsOpen DEF ReportedIds
  <2>3. ASSUME NEW id \in dropped, id \in ReportedIds PROVE FALSE
    <3>1. id \in Ids /\ Reported(id) # {}
      BY <2>3 DEF ReportedIds
    <3> QED BY <1>0, <2>3, <3>1, RepliesTell
            DEF ConservationInv, Phase, Unanswered, Accepted, Answered,
                ReportedOnceOrNever
  <2> QED BY <2>1, <2>2, <2>3
<1>2. /\ IsFiniteSet(ReportedIds) /\ IsFiniteSet(DecidedIds)
      /\ Cardinality(ReportedIds) \in Nat /\ Cardinality(DecidedIds) \in Nat
      /\ Cardinality(ClosedIds) = Cardinality(ReportedIds) + Cardinality(DecidedIds)
  <2>1. ReportedIds \cap DecidedIds = {} /\ IsFiniteSet(ClosedIds)
    BY <1>1 DEF StatisticsInv
  <2> QED BY <2>1, Parts DEF ClosedIds
<1>3. /\ KnownIds = ClosedIds \cup Open /\ ClosedIds \cap Open = {}
      /\ (HeldIds \ DecidedIds) \cap dropped = {}
  BY <1>1 DEF KnownIds, ClosedIds
<1> HIDE DEF Open
<1>4. /\ IsFiniteSet(Open) /\ Cardinality(Open) \in Nat
      /\ Cardinality(KnownIds) = Cardinality(ClosedIds) + Cardinality(Open)
  BY <1>3, Parts DEF StatisticsInv
<1>5. /\ Cardinality(HeldIds \ DecidedIds) \in Nat /\ Cardinality(dropped) \in Nat
      /\ Cardinality(Open) = Cardinality(HeldIds \ DecidedIds) + Cardinality(dropped)
  BY <1>3, <1>4, Parts DEF Open
<1>6. completed \in Nat /\ failed \in Nat /\ cancelled \in Nat
  BY <1>0 DEF ConservationInv, ClientInv
<1>7. /\ received = Cardinality(KnownIds)
      /\ completed + failed + cancelled = Cardinality(ClosedIds)
  BY DEF StatisticsInv
<1>8. received = completed + failed + cancelled
                   + Cardinality(HeldIds \ DecidedIds) + Cardinality(dropped)
  BY <1>4, <1>5, <1>6, <1>7
<1>9. completed + failed + cancelled
        = Cardinality(ReportedIds) + Cardinality(DecidedIds)
  BY <1>2, <1>7
<1>10. failed >= Cardinality({id \in Ids : STATUS_FAILED \in Reported(id)})
  <2>1. FailedIds \subseteq FailureIds
    BY DEF FailureIds
  <2>2. IsFiniteSet(FailureIds) /\ failed = Cardinality(FailureIds)
    BY DEF StatisticsInv
  <2>3. IsFiniteSet(FailedIds) /\ Cardinality(FailedIds) <= Cardinality(FailureIds)
    BY <2>1, <2>2, FS_Subset
  <2>4. Cardinality(FailedIds) \in Nat
    BY <2>3, FS_CardinalityType
  <2> QED BY <1>6, <2>2, <2>3, <2>4 DEF FailedIds
<1>11. dispatched <= received + retries
  <2>1. /\ dispatched \in Nat /\ received \in Nat /\ retries \in Nat
        /\ Len(clientRxQueue) \in Nat
    BY <1>0 DEF ConservationInv, ClientInv
  <2>2. RxHolds \in Nat /\ DispatchHolds \in Nat /\ RequeueHolds \in Nat
    BY DEF RxHolds, DispatchHolds, RequeueHolds
  <2>3. OnTheWay \in Nat
    BY <2>1, <2>2 DEF OnTheWay
  <2>4. dispatched + OnTheWay <= received + retries
    BY DEF StatisticsInv
  <2> QED BY <2>1, <2>3, <2>4
<1>12. retries <= MAX_EVENT_RETRIES * received
  <2>1. PICK S : RetriesAre(S)
    BY DEF StatisticsInv
  <2>2. IsFiniteSet(KnownIds) /\ received = Cardinality(KnownIds)
    BY DEF StatisticsInv
  <2>3. /\ IsFiniteSet(1 .. MAX_EVENT_RETRIES)
        /\ Cardinality(1 .. MAX_EVENT_RETRIES) = MAX_EVENT_RETRIES
    BY FS_Interval, MessagesAssumption
  <2>4. /\ IsFiniteSet(KnownIds \X (1 .. MAX_EVENT_RETRIES))
        /\ Cardinality(KnownIds \X (1 .. MAX_EVENT_RETRIES))
             = received * MAX_EVENT_RETRIES
    BY <2>2, <2>3, FS_Product
  <2>5. Cardinality(S) <= Cardinality(KnownIds \X (1 .. MAX_EVENT_RETRIES))
    BY <2>1, <2>4, FS_Subset DEF RetriesAre
  <2>6. retries <= received * MAX_EVENT_RETRIES
    BY <2>1, <2>4, <2>5 DEF RetriesAre
  <2>7. received \in Nat /\ MAX_EVENT_RETRIES \in Nat
    BY <1>0, MessagesAssumption DEF ConservationInv, ClientInv
  <2>8. received * MAX_EVENT_RETRIES = MAX_EVENT_RETRIES * received
    BY <2>7
  <2> QED BY <2>6, <2>8
<1> QED BY <1>8, <1>9, <1>10, <1>11, <1>12 DEF StatisticsBalance

\* Whenever PrintClientStatistics reads the counters together, they balance, for
\* any number of events, vehicles and retries: every event received is counted
\* with exactly one outcome, still held, or dropped, every outcome counted was
\* reported or is about to be, and no event is retried more than
\* MAX_EVENT_RETRIES times.
THEOREM StatisticsAlwaysBalance == ClientSpec => []StatisticsBalance
<1>1. ClientInit => StatisticsInv
  BY StatisticsInit
<1>2. StatisticsInv /\ [ClientNext]_clientVars => StatisticsInv'
  BY StatisticsStep
<1>3. StatisticsInv => StatisticsBalance
  BY Balanced
<1> QED BY <1>1, <1>2, <1>3, PTL DEF ClientSpec
=============================================================================
