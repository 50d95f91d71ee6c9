---------------------------- MODULE EventProofs ----------------------------
(***************************************************************************)
(* Proofs about module Client: what becomes of an event.  All variables    *)
(* that hold events are seen as one function from places to sequences of   *)
(* messages.  A step of any task then does one of five things to it: it    *)
(* adds an event, moves the first event of one place to the end of         *)
(* another, takes one away that is dropped or reported, or leaves all as   *)
(* it is.  What the server has heard of an event follows from where it is. *)
(***************************************************************************)
EXTENDS ClientProofs, SequenceTheorems

-----------------------------------------------------------------------------
(* Places and what they hold *)

\* The variables of the client and its socket.
AllPlaces == Places \cup {<<"socket">>}

\* A sequence of messages at each place.
Holding == [AllPlaces -> Seq(EventMessage)]

\* An event is in one position of one place.
Distinct(c) ==
  \A p, q \in AllPlaces : \A n \in DOMAIN c[p], k \in DOMAIN c[q] :
    c[p][n].eventId = c[q][k].eventId => p = q /\ n = k

\* Event id is somewhere.
Holds(c, id) ==
  \E p \in AllPlaces : \E n \in DOMAIN c[p] : c[p][n].eventId = id

\* The message itself, and in the client, not in its socket.
Has(c, m) == \E p \in Places : \E n \in DOMAIN c[p] : c[p][n] = m

\* Taking the head of one place, adding an event to another.
Take(c, P)   == [c EXCEPT ![P] = Tail(@)]
Put(c, Q, m) == [c EXCEPT ![Q] = Append(@, m)]

\* The entries of a queue and of its tail.
LEMMA TailEntries ==
  ASSUME NEW S, NEW q \in Seq(S), q # << >>
  PROVE  /\ Tail(q) \in Seq(S)
         /\ Head(q) = q[1] /\ 1 \in DOMAIN q
         /\ \A n \in DOMAIN Tail(q) :
              n + 1 \in DOMAIN q /\ Tail(q)[n] = q[n + 1]
         /\ \A n \in DOMAIN q :
              n = 1 \/ (n - 1 \in DOMAIN Tail(q) /\ q[n] = Tail(q)[n - 1])
OBVIOUS

\* The entries of a queue and of the queue with one more.
LEMMA AppendEntries ==
  ASSUME NEW S, NEW q \in Seq(S), NEW m \in S
  PROVE  /\ Append(q, m) \in Seq(S)
         /\ \A n \in DOMAIN q :
              n \in DOMAIN Append(q, m) /\ Append(q, m)[n] = q[n]
         /\ \A n \in DOMAIN Append(q, m) :
              \/ n \in DOMAIN q /\ Append(q, m)[n] = q[n]
              \/ n = Len(q) + 1 /\ Append(q, m)[n] = m
         /\ Len(q) + 1 \in DOMAIN Append(q, m)
         /\ Append(q, m)[Len(q) + 1] = m
OBVIOUS

\* Every entry left was there before, every entry but the head is left.
LEMMA TakenEntries ==
  ASSUME NEW c \in Holding, NEW P \in AllPlaces, c[P] # << >>
  PROVE  /\ Take(c, P) \in Holding
         /\ Head(c[P]) = c[P][1] /\ 1 \in DOMAIN c[P]
         /\ Head(c[P]) \in EventMessage
         /\ \A p \in AllPlaces : \A n \in DOMAIN Take(c, P)[p] :
              \E k \in DOMAIN c[p] : /\ Take(c, P)[p][n] = c[p][k]
                                     /\ ~(p = P /\ k = 1)
                                     /\ n \in Nat
                                     /\ k = IF p = P THEN n + 1 ELSE n
         /\ \A p \in AllPlaces : \A k \in DOMAIN c[p] :
              \/ p = P /\ k = 1
              \/ \E n \in DOMAIN Take(c, P)[p] : Take(c, P)[p][n] = c[p][k]
<1> DEFINE d == Take(c, P)
<1>1. /\ Tail(c[P]) \in Seq(EventMessage)
      /\ Head(c[P]) = c[P][1] /\ 1 \in DOMAIN c[P]
      /\ \A n \in DOMAIN Tail(c[P]) :
           /\ n \in Nat /\ n + 1 # 1
           /\ n + 1 \in DOMAIN c[P] /\ Tail(c[P])[n] = c[P][n + 1]
      /\ \A n \in DOMAIN c[P] :
           n = 1 \/ (n - 1 \in DOMAIN Tail(c[P]) /\ c[P][n] = Tail(c[P])[n - 1])
  <2>1. c[P] \in Seq(EventMessage)
    BY DEF Holding
  <2> QED BY <2>1, TailEntries
<1>2. d \in Holding
  BY <1>1 DEF Take, Holding
<1>3. d[P] = Tail(c[P]) /\ \A p \in AllPlaces : p # P => d[p] = c[p]
  BY DEF Take, Holding
<1> HIDE DEF d
<1>4. \A p \in AllPlaces : \A n \in DOMAIN d[p] : n \in Nat
  BY <1>2 DEF Holding
<1>5. \A p \in AllPlaces : \A n \in DOMAIN d[p] :
        \E k \in DOMAIN c[p] : /\ d[p][n] = c[p][k]
                               /\ ~(p = P /\ k = 1)
                               /\ n \in Nat
                               /\ k = IF p = P THEN n + 1 ELSE n
  BY <1>1, <1>3, <1>4
<1>6. \A p \in AllPlaces : \A k \in DOMAIN c[p] :
        (p = P /\ k = 1) \/ \E n \in DOMAIN d[p] : d[p][n] = c[p][k]
  <2> SUFFICES ASSUME NEW p \in AllPlaces, NEW k \in DOMAIN c[p],
                      ~(p = P /\ k = 1)
               PROVE  \E n \in DOMAIN d[p] : d[p][n] = c[p][k]
    OBVIOUS
  <2>1. CASE p # P
    BY <1>3, <2>1
  <2>2. CASE p = P
    <3>1. k - 1 \in DOMAIN Tail(c[P]) /\ Tail(c[P])[k - 1] = c[P][k]
      BY <1>1, <2>2
    <3> QED BY <1>3, <2>2, <3>1
  <2> QED BY <2>1, <2>2
<1>7. Head(c[P]) \in EventMessage
  BY <1>1 DEF Holding
<1> QED BY <1>1, <1>2, <1>5, <1>6, <1>7 DEF d

\* Taking the head of a place leaves one copy of each other event.
LEMMA Taken ==
  ASSUME NEW c \in Holding, Distinct(c), NEW P \in AllPlaces, c[P] # << >>
  PROVE  /\ Take(c, P) \in Holding
         /\ Distinct(Take(c, P))
         /\ Head(c[P]) \in EventMessage
         /\ Holds(c, Head(c[P]).eventId)
         /\ \A id : Holds(Take(c, P), id)
                      <=> Holds(c, id) /\ id # Head(c[P]).eventId
         /\ \A m : Has(Take(c, P), m)
                     <=> Has(c, m) /\ m.eventId # Head(c[P]).eventId
<1> DEFINE d == Take(c, P)
<1>1. /\ d \in Holding
      /\ Head(c[P]) = c[P][1] /\ 1 \in DOMAIN c[P]
      /\ Head(c[P]) \in EventMessage
      /\ \A p \in AllPlaces : \A n \in DOMAIN d[p] :
           \E k \in DOMAIN c[p] : /\ d[p][n] = c[p][k]
                                  /\ ~(p = P /\ k = 1)
                                  /\ n \in Nat
                                  /\ k = IF p = P THEN n + 1 ELSE n
      /\ \A p \in AllPlaces : \A k \in DOMAIN c[p] :
           (p = P /\ k = 1) \/ \E n \in DOMAIN d[p] : d[p][n] = c[p][k]
  BY TakenEntries
<1> HIDE DEF d
<1>2. Distinct(d)
  <2> SUFFICES ASSUME NEW p \in AllPlaces, NEW q \in AllPlaces,
                      NEW n \in DOMAIN d[p], NEW k \in DOMAIN d[q],
                      d[p][n].eventId = d[q][k].eventId
               PROVE  p = q /\ n = k
    BY DEF Distinct
  <2>1. PICK i0 \in DOMAIN c[p] :
          d[p][n] = c[p][i0] /\ n \in Nat /\ i0 = IF p = P THEN n + 1 ELSE n
    BY <1>1
  <2>2. PICK j0 \in DOMAIN c[q] :
          d[q][k] = c[q][j0] /\ k \in Nat /\ j0 = IF q = P THEN k + 1 ELSE k
    BY <1>1
  <2>3. p = q /\ i0 = j0
    BY <2>1, <2>2 DEF Distinct
  <2> QED BY <2>1, <2>2, <2>3
<1>3. Holds(c, Head(c[P]).eventId)
  BY <1>1 DEF Holds
<1>4. \A p \in AllPlaces : \A n \in DOMAIN d[p] :
        /\ \E k \in DOMAIN c[p] : d[p][n] = c[p][k]
        /\ d[p][n].eventId # Head(c[P]).eventId
  BY <1>1 DEF Distinct
<1>5. \A p \in AllPlaces : \A k \in DOMAIN c[p] :
        c[p][k].eventId # Head(c[P]).eventId =>
          \E n \in DOMAIN d[p] : d[p][n] = c[p][k]
  BY <1>1
<1>6. ASSUME NEW id
      PROVE  Holds(d, id) <=> Holds(c, id) /\ id # Head(c[P]).eventId
  <2>1. Holds(d, id) => Holds(c, id) /\ id # Head(c[P]).eventId
    BY <1>4 DEF Holds
  <2>2. ASSUME Holds(c, id), id # Head(c[P]).eventId PROVE Holds(d, id)
    <3>1. PICK p \in AllPlaces : \E k \in DOMAIN c[p] : c[p][k].eventId = id
      BY <2>2 DEF Holds
    <3>2. PICK k \in DOMAIN c[p] : c[p][k].eventId = id
      BY <3>1
    <3>3. PICK n \in DOMAIN d[p] : d[p][n] = c[p][k]
      BY <1>5, <2>2, <3>2
    <3> QED BY <3>2, <3>3 DEF Holds
  <2> QED BY <2>1, <2>2
<1>7. ASSUME NEW m
      PROVE  Has(d, m) <=> Has(c, m) /\ m.eventId # Head(c[P]).eventId
  <2>1. \A p \in Places : p \in AllPlaces
    BY DEF AllPlaces
  <2> QED BY <1>4, <1>5, <2>1 DEF Has
<1> QED BY <1>1, <1>2, <1>3, <1>6, <1>7 DEF d

\* Adding an event that is nowhere leaves one copy of each.
LEMMA PutIn ==
  ASSUME NEW c \in Holding, Distinct(c), NEW Q \in AllPlaces,
         NEW m \in EventMessage, ~Holds(c, m.eventId)
  PROVE  /\ Put(c, Q, m) \in Holding
         /\ Distinct(Put(c, Q, m))
         /\ \A id : Holds(Put(c, Q, m), id) <=> Holds(c, id) \/ id = m.eventId
         /\ \A x : Has(Put(c, Q, m), x) <=> Has(c, x) \/ (x = m /\ Q \in Places)
<1> DEFINE last == Len(c[Q]) + 1
           d == Put(c, Q, m)
<1>1. /\ Append(c[Q], m) \in Seq(EventMessage)
      /\ \A n \in DOMAIN c[Q] :
           n \in DOMAIN Append(c[Q], m) /\ Append(c[Q], m)[n] = c[Q][n]
      /\ \A n \in DOMAIN Append(c[Q], m) :
           \/ n \in DOMAIN c[Q] /\ Append(c[Q], m)[n] = c[Q][n]
           \/ n = last /\ Append(c[Q], m)[n] = m
      /\ last \in DOMAIN Append(c[Q], m)
      /\ Append(c[Q], m)[last] = m
  <2>1. c[Q] \in Seq(EventMessage)
    BY DEF Holding
  <2> QED BY <2>1, AppendEntries
<1>2. d \in Holding
  BY <1>1 DEF Put, Holding
<1>3. d[Q] = Append(c[Q], m) /\ \A p \in AllPlaces : p # Q => d[p] = c[p]
  BY DEF Put, Holding
<1> HIDE DEF d
<1>4. \A p \in AllPlaces : \A n \in DOMAIN d[p] :
        \/ n \in DOMAIN c[p] /\ d[p][n] = c[p][n]
        \/ p = Q /\ n = last /\ d[p][n] = m
  BY <1>1, <1>3
<1>5. /\ \A p \in AllPlaces : \A n \in DOMAIN c[p] :
           n \in DOMAIN d[p] /\ d[p][n] = c[p][n]
      /\ \E n \in DOMAIN d[Q] : d[Q][n] = m
  BY <1>1, <1>3
<1>6. Distinct(d)
  <2> SUFFICES ASSUME NEW p \in AllPlaces, NEW q \in AllPlaces,
                      NEW n \in DOMAIN d[p], NEW k \in DOMAIN d[q],
                      d[p][n].eventId = d[q][k].eventId
               PROVE  p = q /\ n = k
    BY DEF Distinct
  <2> QED BY <1>4 DEF Distinct, Holds
<1>7. \A id : Holds(d, id) <=> Holds(c, id) \/ id = m.eventId
  BY <1>4, <1>5 DEF Holds
<1>8. ASSUME NEW x PROVE Has(d, x) <=> Has(c, x) \/ (x = m /\ Q \in Places)
  <2>1. \A p \in Places : p \in AllPlaces
    BY DEF AllPlaces
  <2> QED BY <1>4, <1>5, <2>1 DEF Has
<1> QED BY <1>2, <1>6, <1>7, <1>8 DEF d

\* Moving an event keeps one copy of it, and of each other event.
LEMMA Moved ==
  ASSUME NEW c \in Holding, Distinct(c), NEW P \in AllPlaces, c[P] # << >>,
         NEW Q \in Places,
         NEW m \in EventMessage, m.eventId = Head(c[P]).eventId
  PROVE  /\ Distinct(Put(Take(c, P), Q, m))
         /\ \A id : Holds(Put(Take(c, P), Q, m), id) <=> Holds(c, id)
         /\ \A x : Has(Put(Take(c, P), Q, m), x)
                     <=> (Has(c, x) /\ x.eventId # m.eventId) \/ x = m
<1>1. /\ Take(c, P) \in Holding
      /\ Distinct(Take(c, P))
      /\ Holds(c, m.eventId)
      /\ \A id : Holds(Take(c, P), id) <=> Holds(c, id) /\ id # m.eventId
      /\ \A x : Has(Take(c, P), x) <=> Has(c, x) /\ x.eventId # m.eventId
  BY Taken
<1>2. /\ Distinct(Put(Take(c, P), Q, m))
      /\ \A id : Holds(Put(Take(c, P), Q, m), id)
                    <=> Holds(Take(c, P), id) \/ id = m.eventId
      /\ \A x : Has(Put(Take(c, P), Q, m), x)
                    <=> Has(Take(c, P), x) \/ x = m
  <2> DEFINE b == Take(c, P)
  <2>1. /\ b \in Holding /\ Distinct(b) /\ ~Holds(b, m.eventId)
        /\ Q \in AllPlaces
    BY <1>1 DEF AllPlaces
  <2> HIDE DEF b
  <2>2. /\ Distinct(Put(b, Q, m))
        /\ \A id : Holds(Put(b, Q, m), id) <=> Holds(b, id) \/ id = m.eventId
        /\ \A x : Has(Put(b, Q, m), x) <=> Has(b, x) \/ x = m
    BY <2>1, PutIn
  <2> QED BY <2>2 DEF b
<1> QED BY <1>1, <1>2

-----------------------------------------------------------------------------
(* The variables of the client, as places *)

\* What the client and its socket hold.
Content ==
  [place \in AllPlaces |->
     IF place = <<"socket">> THEN clientSocket ELSE Contents(place)]

\* The places one by one.
LEMMA AllPlacesAre ==
  /\ {<<"socket">>, <<"rx">>, <<"rxQueue">>, <<"dispatcher">>,
      <<"faultQueue">>, <<"faultManager">>} \subseteq AllPlaces
  /\ \A d \in Departments, p \in Priorities : <<"queue", d, p>> \in AllPlaces
  /\ \A v \in Vehicles : <<"vehicle", v>> \in AllPlaces
  /\ \A place \in AllPlaces :
       \/ place \in {<<"socket">>, <<"rx">>, <<"rxQueue">>, <<"dispatcher">>,
                     <<"faultQueue">>, <<"faultManager">>}
       \/ \E d \in Departments, p \in Priorities : place = <<"queue", d, p>>
       \/ \E v \in Vehicles : place = <<"vehicle", v>>
BY DEF AllPlaces, Places

\* Those in the client; the socket is not one of them.
LEMMA PlacesAre ==
  /\ {<<"rx">>, <<"rxQueue">>, <<"dispatcher">>, <<"faultQueue">>,
      <<"faultManager">>} \subseteq Places
  /\ \A e \in Departments, p \in Priorities : <<"queue", e, p>> \in Places
  /\ \A v \in Vehicles : <<"vehicle", v>> \in Places
  /\ <<"socket">> \notin Places
BY DEF Places

\* No place is another one.
LEMMA PlacesDiffer ==
  /\ \A d \in Departments, p \in Priorities :
       /\ <<"queue", d, p>> \notin
            {<<"socket">>, <<"rx">>, <<"rxQueue">>, <<"dispatcher">>,
             <<"faultQueue">>, <<"faultManager">>}
       /\ \A v \in Vehicles : <<"queue", d, p>> # <<"vehicle", v>>
       /\ \A e \in Departments, q \in Priorities :
            <<"queue", d, p>> = <<"queue", e, q>> => d = e /\ p = q
  /\ \A v \in Vehicles :
       /\ <<"vehicle", v>> \notin
            {<<"socket">>, <<"rx">>, <<"rxQueue">>, <<"dispatcher">>,
             <<"faultQueue">>, <<"faultManager">>}
       /\ \A w \in Vehicles : <<"vehicle", v>> = <<"vehicle", w>> => v = w
OBVIOUS

\* A local variable as a queue of one event at most.
LEMMA BufferIs ==
  /\ Buffer(None) = << >>
  /\ \A x : x # None => /\ Buffer(x) = <<x>>
                        /\ Buffer(x) # << >>
                        /\ Head(Buffer(x)) = x
                        /\ Tail(Buffer(x)) = << >>
                        /\ Append(Buffer(None), x) = Buffer(x)
BY DEF Buffer

\* What is at each place.
LEMMA ContentAt ==
  /\ Content[<<"socket">>] = clientSocket
  /\ Content[<<"rx">>] = Buffer(rxEvent)
  /\ Content[<<"rxQueue">>] = clientRxQueue
  /\ Content[<<"dispatcher">>] = Buffer(dispatchEvent)
  /\ \A d \in Departments, p \in Priorities :
       Content[<<"queue", d, p>>] = priorityQueues[d][p]
  /\ \A v \in Vehicles : Content[<<"vehicle", v>>] = Buffer(message[v])
  /\ Content[<<"faultQueue">>] = faultQueue
  /\ Content[<<"faultManager">>] = Buffer(faultEvent)
BY AllPlacesAre DEF Content, Contents

\* The same after a step.
LEMMA ContentAtNext ==
  /\ Content'[<<"socket">>] = clientSocket'
  /\ Content'[<<"rx">>] = Buffer(rxEvent')
  /\ Content'[<<"rxQueue">>] = clientRxQueue'
  /\ Content'[<<"dispatcher">>] = Buffer(dispatchEvent')
  /\ \A d \in Departments, p \in Priorities :
       Content'[<<"queue", d, p>>] = priorityQueues'[d][p]
  /\ \A v \in Vehicles : Content'[<<"vehicle", v>>] = Buffer(message'[v])
  /\ Content'[<<"faultQueue">>] = faultQueue'
  /\ Content'[<<"faultManager">>] = Buffer(faultEvent')
BY AllPlacesAre DEF Content, Contents, Buffer

\* A place changes only if its variable does.
LEMMA ContentChanges ==
  \A place \in AllPlaces :
    Content'[place] # Content[place] =>
      \/ place = <<"socket">> /\ clientSocket' # clientSocket
      \/ place = <<"rx">> /\ rxEvent' # rxEvent
      \/ place = <<"rxQueue">> /\ clientRxQueue' # clientRxQueue
      \/ place = <<"dispatcher">> /\ dispatchEvent' # dispatchEvent
      \/ \E d \in Departments, p \in Priorities :
           /\ place = <<"queue", d, p>>
           /\ priorityQueues'[d][p] # priorityQueues[d][p]
      \/ \E v \in Vehicles : place = <<"vehicle", v>> /\ message'[v] # message[v]
      \/ place = <<"faultQueue">> /\ faultQueue' # faultQueue
      \/ place = <<"faultManager">> /\ faultEvent' # faultEvent
<1> SUFFICES ASSUME NEW place \in AllPlaces, Content'[place] # Content[place]
             PROVE  \/ place = <<"socket">> /\ clientSocket' # clientSocket
                    \/ place = <<"rx">> /\ rxEvent' # rxEvent
                    \/ place = <<"rxQueue">> /\ clientRxQueue' # clientRxQueue
                    \/ place = <<"dispatcher">> /\ dispatchEvent' # dispatchEvent
                    \/ \E d \in Departments, p \in Priorities :
                         /\ place = <<"queue", d, p>>
                         /\ priorityQueues'[d][p] # priorityQueues[d][p]
                    \/ \E v \in Vehicles :
                         place = <<"vehicle", v>> /\ message'[v] # message[v]
                    \/ place = <<"faultQueue">> /\ faultQueue' # faultQueue
                    \/ place = <<"faultManager">> /\ faultEvent' # faultEvent
  OBVIOUS
<1>1. CASE place \in {<<"socket">>, <<"rx">>, <<"rxQueue">>, <<"dispatcher">>,
                      <<"faultQueue">>, <<"faultManager">>}
  BY <1>1, ContentAt, ContentAtNext
<1>2. CASE \E d \in Departments, p \in Priorities : place = <<"queue", d, p>>
  BY <1>2, ContentAt, ContentAtNext
<1>3. CASE \E v \in Vehicles : place = <<"vehicle", v>>
  BY <1>3, ContentAt, ContentAtNext
<1> QED BY <1>1, <1>2, <1>3, AllPlacesAre

\* All that is held are events.
LEMMA ContentType == ClientInv => Content \in Holding
<1> SUFFICES ASSUME ClientInv PROVE Content \in Holding
  OBVIOUS
<1>0. Retried \subseteq EventMessage /\ Events \subseteq EventMessage
  BY RetriedAreArrivals
<1>2. /\ Seq(Retried) \subseteq Seq(EventMessage)
      /\ Seq(Events) \subseteq Seq(EventMessage)
  BY <1>0
<1>3. ASSUME NEW place \in AllPlaces PROVE Content[place] \in Seq(EventMessage)
  <2>1. \A m \in Retried \cup Events \cup {None} : Buffer(m) \in Seq(EventMessage)
    BY <1>0 DEF Buffer
  <2>2. CASE place \in {<<"socket">>, <<"rx">>, <<"rxQueue">>, <<"dispatcher">>,
                        <<"faultQueue">>, <<"faultManager">>}
    <3>1. /\ {clientSocket, clientRxQueue, faultQueue} \subseteq Seq(EventMessage)
          /\ {rxEvent, dispatchEvent, faultEvent}
               \subseteq Retried \cup Events \cup {None}
      BY <1>2 DEF ClientInv
    <3> QED BY <2>1, <2>2, <3>1, ContentAt
  <2>3. CASE \E d \in Departments, p \in Priorities : place = <<"queue", d, p>>
    <3>1. PICK d \in Departments, p \in Priorities : place = <<"queue", d, p>>
      BY <2>3
    <3>2. priorityQueues[d][p] \in Seq(Retried)
      BY DEF ClientInv
    <3> QED BY <1>2, <3>1, <3>2, ContentAt
  <2>4. CASE \E v \in Vehicles : place = <<"vehicle", v>>
    BY <2>1, <2>4, ContentAt DEF ClientInv
  <2> QED BY <2>2, <2>3, <2>4, AllPlacesAre
<1> QED BY <1>3 DEF Content, Holding

-----------------------------------------------------------------------------
(* What the server has heard of an event *)

\* Event id is still in the socket.
InSocket(id) == \E n \in DOMAIN clientSocket : clientSocket[n].eventId = id

\* Nothing was said of event id to the server yet.
New(id) == InSocket(id) \/ (rxpc = "ack" /\ rxEvent.eventId = id)

\* The server has sent it.
WasSent(id) == \E m \in sent : m.eventId = id

\* Before the acknowledgement: not sent, on its way or just received.
Unanswered(id) ==
  /\ replies[id] = << >>
  /\ id \notin dropped
  /\ Holds(Content, id) => New(id) /\ WasSent(id)

\* Acknowledged, and either held or dropped.
Accepted(id) ==
  /\ replies[id] = <<Ack(id)>>
  /\ ~New(id)
  /\ id \in dropped <=> ~Holds(Content, id)
  /\ WasSent(id)

\* Reported, and gone.
Answered(id) ==
  /\ \E outcome \in Outcomes :
       replies[id] = <<Ack(id), Completion(id, outcome)>>
  /\ ~New(id)
  /\ id \notin dropped
  /\ ~Holds(Content, id)
  /\ WasSent(id)

\* An event is in one of these phases.
Phase(id) == Unanswered(id) \/ Accepted(id) \/ Answered(id)

\* The inductive invariant: one copy of each event, each event in a phase.
ConservationInv ==
  /\ ClientInv
  /\ Distinct(Content)
  /\ \A id \in Ids : Phase(id)

-----------------------------------------------------------------------------
(* What a step does with the events the client holds *)

\* It keeps every one as it is.
CopiesStay == \A x : Has(Content', x) <=> Has(Content, x)

\* It takes m in, in place of the copy the client had of the same event, if any.
Relocated(m) ==
  \A x : Has(Content', x) <=> (Has(Content, x) /\ x.eventId # m.eventId) \/ x = m

\* It gives event id away.
Removed(id) ==
  \A x : Has(Content', x) <=> Has(Content, x) /\ x.eventId # id

\* Nothing becomes of any event.
Quiet ==
  /\ CopiesStay
  /\ UNCHANGED dropped
  /\ \A id \in Ids : Reported(id)' = Reported(id)

\* An event arrives that the client did not hold.
ArrivesOne ==
  \E m \in Events :
    /\ Unanswered(m.eventId)
    /\ \A x : Has(Content, x) => x.eventId # m.eventId
    /\ Relocated(m)
    /\ UNCHANGED historyVars

\* An attempt at an event is used up.
RetriesOne ==
  \E m, again \in Retried :
    /\ Has(Content, m) /\ m.retryCount < MAX_EVENT_RETRIES
    /\ again.eventId = m.eventId /\ again.retryCount = m.retryCount + 1
    /\ Relocated(again)
    /\ UNCHANGED historyVars

\* An event is given up.
LosesOne ==
  \E id \in Ids :
    /\ Accepted(id) /\ Holds(Content, id)
    /\ Removed(id)
    /\ dropped' = dropped \cup {id}
    /\ UNCHANGED replies

\* An event is reported, as failed if it has no retry left.
ReportsOne ==
  \E id \in Ids, outcome \in Outcomes :
    /\ Accepted(id) /\ Holds(Content, id)
    /\ Removed(id)
    /\ Send(Completion(id, outcome))
    /\ UNCHANGED dropped
    /\ outcome = STATUS_FAILED =>
         \E m : /\ Has(Content, m)
                /\ m.eventId = id /\ m.retryCount = MAX_EVENT_RETRIES

\* All there is.
EventMoves == Quiet \/ ArrivesOne \/ RetriesOne \/ LosesOne \/ ReportsOne

\* If also nothing was dropped and no datagram sent.
LEMMA QuietStep ==
  ASSUME CopiesStay, UNCHANGED historyVars
  PROVE  EventMoves
BY DEF EventMoves, Quiet, Reported, historyVars

\* What an acknowledgement and a completion say about the outcome.
LEMMA RepliesReport ==
  ASSUME NEW id \in Ids
  PROVE  /\ replies[id] \in {<< >>, <<Ack(id)>>} => Reported(id) = {}
         /\ \A outcome \in Outcomes :
              replies[id] = <<Ack(id), Completion(id, outcome)>>
                => Reported(id) = {outcome}
<1>1. /\ Ack(id).type = MESSAGE_ACK /\ MESSAGE_ACK # MESSAGE_COMPLETION
      /\ \A outcome \in Outcomes :
           /\ Completion(id, outcome).type = MESSAGE_COMPLETION
           /\ Completion(id, outcome).status = outcome
  BY DEF Ack, Completion, MESSAGE_ACK, MESSAGE_COMPLETION
<1>2. replies[id] \in {<< >>, <<Ack(id)>>} => Reported(id) = {}
  BY <1>1 DEF Reported
<1>3. ASSUME NEW outcome \in Outcomes,
             replies[id] = <<Ack(id), Completion(id, outcome)>>
      PROVE  Reported(id) = {outcome}
  <2>1. {k \in DOMAIN replies[id] : replies[id][k].type = MESSAGE_COMPLETION} = {2}
    <3>1. DOMAIN replies[id] = {1, 2}
      BY <1>3
    <3> QED BY <1>1, <1>3, <3>1
  <2> QED BY <1>1, <1>3, <2>1 DEF Reported
<1> QED BY <1>2, <1>3

\* The same, as an invariant, so that it can be said of the next state.
ReportedOnceOrNever ==
  \A id \in Ids :
    /\ replies[id] \in {<< >>, <<Ack(id)>>} => Reported(id) = {}
    /\ \A outcome \in Outcomes :
         replies[id] = <<Ack(id), Completion(id, outcome)>>
           => Reported(id) = {outcome}

\* It holds in every state,
LEMMA RepliesTell == ReportedOnceOrNever
BY RepliesReport DEF ReportedOnceOrNever

\* hence in the next one.
LEMMA RepliesTellNext == ReportedOnceOrNever'
BY RepliesTell, PTL

\* The client holds one version of an event.
LEMMA SameMessage ==
  ASSUME ConservationInv, NEW x, NEW y, Has(Content, x), Has(Content, y),
         x.eventId = y.eventId
  PROVE  x = y
<1>1. \A p \in Places : p \in AllPlaces
  BY DEF AllPlaces
<1>2. PICK p \in Places : \E n \in DOMAIN Content[p] : Content[p][n] = x
  BY DEF Has
<1>3. PICK n \in DOMAIN Content[p] : Content[p][n] = x
  BY <1>2
<1>4. PICK q \in Places : \E k \in DOMAIN Content[q] : Content[q][k] = y
  BY DEF Has
<1>5. PICK k \in DOMAIN Content[q] : Content[q][k] = y
  BY <1>4
<1> QED BY <1>1, <1>3, <1>5 DEF ConservationInv, Distinct

-----------------------------------------------------------------------------
(* Moving, dropping and reporting an event keep the invariant *)

\* The phase of an event depends on where it is and what was said of it.
LEMMA SamePhase ==
  ASSUME NEW id \in Ids, Phase(id),
         Holds(Content', id) <=> Holds(Content, id),
         New(id)' <=> New(id),
         replies'[id] = replies[id],
         id \in dropped' <=> id \in dropped,
         sent \subseteq sent'
  PROVE  Phase(id)'
<1>1. WasSent(id) => WasSent(id)'
  BY DEF WasSent
<1>2. Unanswered(id) => Unanswered(id)'
  BY <1>1 DEF Unanswered
<1>3. Accepted(id) => Accepted(id)'
  BY <1>1 DEF Accepted
<1>4. Answered(id) => Answered(id)'
  BY <1>1 DEF Answered
<1> QED BY <1>2, <1>3, <1>4 DEF Phase

\* Moving an event from one place to another.
LEMMA MoveKeeps ==
  ASSUME ConservationInv, ClientInv',
         NEW P \in AllPlaces, NEW Q \in Places, NEW m \in EventMessage,
         Content[P] # << >>, m.eventId = Head(Content[P]).eventId,
         P # Q, Content'[P] = Tail(Content[P]),
         Content'[Q] = Append(Content[Q], m),
         \A place \in AllPlaces \ {P, Q} : Content'[place] = Content[place],
         \A id \in Ids : New(id)' <=> New(id),
         UNCHANGED <<sent, replies, dropped>>
  PROVE  /\ ConservationInv'
         /\ Relocated(m)
         /\ P \in Places /\ m = Head(Content[P]) => CopiesStay
<1> DEFINE c == Content
<1>1. c \in Holding /\ Distinct(c) /\ Content' = Put(Take(c, P), Q, m)
  <2>1. c \in Holding /\ Distinct(c)
    BY ContentType DEF ConservationInv
  <2>2. Q \in AllPlaces
    BY DEF AllPlaces
  <2> QED BY <2>1, <2>2 DEF Content, Put, Take, Holding
<1>2. c[P] # << >> /\ m.eventId = Head(c[P]).eventId
  OBVIOUS
<1> HIDE DEF c
<1>3. /\ Distinct(Content')
      /\ \A id : Holds(Content', id) <=> Holds(c, id)
      /\ \A x : Has(Content', x) <=> (Has(c, x) /\ x.eventId # m.eventId) \/ x = m
  BY <1>1, <1>2, Moved
<1>4. \A id \in Ids : Phase(id)'
  BY <1>3, SamePhase DEF ConservationInv, c
<1>5. ASSUME P \in Places, m = Head(c[P]) PROVE CopiesStay
  <2>1. 1 \in DOMAIN c[P] /\ c[P][1] = m
    BY <1>1, <1>2, <1>5, TakenEntries
  <2>2. \A x : Has(c, x) /\ x.eventId = m.eventId => x = m
    <3>1. \A p \in Places : p \in AllPlaces
      BY DEF AllPlaces
    <3> QED BY <1>1, <2>1, <3>1 DEF Has, Distinct
  <2>3. Has(c, m)
    BY <1>5, <2>1 DEF Has
  <2> QED BY <1>3, <2>2, <2>3 DEF CopiesStay, c
<1> QED BY <1>3, <1>4, <1>5 DEF ConservationInv, Relocated, c

\* A step that leaves every place as it is.
LEMMA NothingMoves ==
  ASSUME ConservationInv, ClientInv', Content' = Content,
         \A id \in Ids : New(id)' <=> New(id),
         UNCHANGED <<sent, replies, dropped>>
  PROVE  ConservationInv' /\ CopiesStay
<1>1. Distinct(Content')
  BY DEF ConservationInv
<1>2. \A id \in Ids : Phase(id)'
  BY SamePhase DEF ConservationInv
<1> QED BY <1>1, <1>2 DEF ConservationInv, CopiesStay

\* An event in a queue or a task, but the receive task, is an accepted one.
LEMMA OldEvent ==
  ASSUME ConservationInv, NEW P \in AllPlaces \ {<<"socket">>, <<"rx">>},
         Content[P] # << >>, NEW id \in Ids, id = Head(Content[P]).eventId
  PROVE  Accepted(id) /\ Holds(Content, id)
<1> DEFINE c == Content
<1>1. c \in Holding /\ Distinct(c) /\ c = Content
  BY ContentType DEF ConservationInv
<1>2. c[P] # << >> /\ id = Head(c[P]).eventId
  OBVIOUS
<1> HIDE DEF c
<1>3. c[P] \in Seq(EventMessage)
  BY <1>1 DEF Holding
<1>4. 1 \in DOMAIN c[P] /\ c[P][1].eventId = id
  BY <1>2, <1>3
<1>5. Holds(c, id)
  BY <1>4 DEF Holds
<1>6. ~InSocket(id)
  <2>1. c[<<"socket">>] = clientSocket
    BY <1>1, ContentAt
  <2>2. ASSUME InSocket(id) PROVE FALSE
    <3>1. PICK n \in DOMAIN c[<<"socket">>] : c[<<"socket">>][n].eventId = id
      BY <2>1, <2>2 DEF InSocket
    <3>2. P = <<"socket">>
      BY <1>1, <1>4, <3>1, AllPlacesAre DEF Distinct
    <3> QED BY <3>2
  <2> QED BY <2>2
<1>7. ~(rxpc = "ack" /\ rxEvent.eventId = id)
  <2> SUFFICES ASSUME rxpc = "ack", rxEvent.eventId = id PROVE FALSE
    OBVIOUS
  <2>1. rxEvent # None
    BY DEF ConservationInv, ClientInv
  <2>2. c[<<"rx">>] = <<rxEvent>>
    BY <1>1, <2>1, ContentAt DEF Buffer
  <2>3. 1 \in DOMAIN c[<<"rx">>] /\ c[<<"rx">>][1].eventId = id
    BY <2>2
  <2>4. P = <<"rx">>
    BY <1>1, <1>4, <2>3, AllPlacesAre DEF Distinct
  <2> QED BY <2>4
<1>8. ~New(id)
  BY <1>6, <1>7 DEF New
<1>9. Accepted(id)
  BY <1>5, <1>8 DEF c, ConservationInv, Phase, Unanswered, Answered
<1> QED BY <1>5, <1>9 DEF c

\* Taking an event away.
LEMMA TakenFromContent ==
  ASSUME ConservationInv, NEW P \in AllPlaces, Content[P] # << >>,
         Content'[P] = Tail(Content[P]),
         \A place \in AllPlaces \ {P} : Content'[place] = Content[place]
  PROVE  /\ Distinct(Content')
         /\ \A id : Holds(Content', id)
                      <=> Holds(Content, id) /\ id # Head(Content[P]).eventId
         /\ Removed(Head(Content[P]).eventId)
<1> DEFINE c == Content
<1>1. c \in Holding /\ Distinct(c)
  BY ContentType DEF ConservationInv
<1>2. c[P] # << >> /\ Content' = Take(c, P)
  BY <1>1 DEF Content, Take, Holding
<1> HIDE DEF c
<1>3. /\ Distinct(Take(c, P))
      /\ \A id : Holds(Take(c, P), id) <=> Holds(c, id) /\ id # Head(c[P]).eventId
      /\ \A x : Has(Take(c, P), x) <=> Has(c, x) /\ x.eventId # Head(c[P]).eventId
  BY <1>1, <1>2, Taken
<1> QED BY <1>2, <1>3 DEF c, Removed

\* Taking an event away and dropping it.
LEMMA DropKeeps ==
  ASSUME ConservationInv, ClientInv',
         NEW P \in AllPlaces \ {<<"socket">>, <<"rx">>}, Content[P] # << >>,
         NEW id \in Ids, id = Head(Content[P]).eventId,
         Content'[P] = Tail(Content[P]),
         \A place \in AllPlaces \ {P} : Content'[place] = Content[place],
         dropped' = dropped \cup {id},
         UNCHANGED <<rxVars, replies>>
  PROVE  /\ ConservationInv'
         /\ Accepted(id) /\ Holds(Content, id) /\ Removed(id)
<1>1. Accepted(id) /\ Holds(Content, id)
  BY OldEvent
<1>2. /\ Distinct(Content')
      /\ \A e : Holds(Content', e) <=> Holds(Content, e) /\ e # id
      /\ Removed(id)
  BY TakenFromContent
<1>3. \A e : (New(e)' <=> New(e)) /\ (WasSent(e)' <=> WasSent(e))
  BY DEF New, InSocket, WasSent, rxVars
<1>4. Accepted(id)'
  BY <1>1, <1>2, <1>3 DEF Accepted
<1>5. ASSUME NEW e \in Ids, e # id PROVE Phase(e)'
  BY <1>2, <1>3, <1>5, SamePhase DEF ConservationInv, rxVars
<1> QED BY <1>1, <1>2, <1>4, <1>5 DEF ConservationInv, Phase

\* The completion goes after the acknowledgement.
LEMMA SecondAppended ==
  ASSUME NEW a, NEW b PROVE Append(<<a>>, b) = <<a, b>>
<1>1. Append(<<a>>, b) \in Seq({a, b}) /\ <<a, b>> \in Seq({a, b})
  OBVIOUS
<1>2. Len(Append(<<a>>, b)) = 2 /\ Len(<<a, b>>) = 2
  OBVIOUS
<1>3. Append(<<a>>, b)[1] = a /\ Append(<<a>>, b)[2] = b
  OBVIOUS
<1>4. \A k \in 1 .. 2 : Append(<<a>>, b)[k] = <<a, b>>[k]
  BY <1>3
<1> QED BY <1>1, <1>2, <1>4, SeqEqual

\* Taking an event away and reporting it.
LEMMA ReportKeeps ==
  ASSUME ConservationInv, ClientInv',
         NEW P \in AllPlaces \ {<<"socket">>, <<"rx">>}, Content[P] # << >>,
         NEW id \in Ids, id = Head(Content[P]).eventId,
         NEW outcome \in Outcomes,
         Content'[P] = Tail(Content[P]),
         \A place \in AllPlaces \ {P} : Content'[place] = Content[place],
         Send(Completion(id, outcome)),
         UNCHANGED <<rxVars, dropped>>
  PROVE  /\ ConservationInv'
         /\ Accepted(id) /\ Holds(Content, id) /\ Removed(id)
<1>1. Accepted(id) /\ Holds(Content, id)
  BY OldEvent
<1>2. /\ Distinct(Content')
      /\ \A e : Holds(Content', e) <=> Holds(Content, e) /\ e # id
      /\ Removed(id)
  BY TakenFromContent
<1>3. \A e : (New(e)' <=> New(e)) /\ (WasSent(e)' <=> WasSent(e))
  BY DEF New, InSocket, WasSent, rxVars
<1>4. replies' = [replies EXCEPT ![id] = Append(@, Completion(id, outcome))]
  BY DEF Send, Completion
<1>5. replies'[id] = <<Ack(id), Completion(id, outcome)>>
  <2>1. replies'[id] = Append(replies[id], Completion(id, outcome))
    BY <1>4 DEF ConservationInv, ClientInv
  <2>2. replies[id] = <<Ack(id)>>
    BY <1>1 DEF Accepted
  <2> QED BY <2>1, <2>2, SecondAppended
<1>6. Answered(id)'
  BY <1>1, <1>2, <1>3, <1>5 DEF Accepted, Answered
<1>7. ASSUME NEW e \in Ids, e # id PROVE Phase(e)'
  <2>1. replies'[e] = replies[e]
    BY <1>4, <1>7 DEF ConservationInv, ClientInv
  <2> QED BY <1>2, <1>3, <1>7, <2>1, SamePhase DEF ConservationInv, rxVars
<1> QED BY <1>1, <1>2, <1>6, <1>7 DEF ConservationInv, Phase

-----------------------------------------------------------------------------
(* The steps of the client *)

\* ClientUdpReceiveMessage takes an event out of the socket.
LEMMA Receiving ==
  ASSUME ConservationInv, ClientInv', ClientUdpReceiveMessage
  PROVE  ConservationInv' /\ ArrivesOne
<1> DEFINE m == Head(clientSocket)
<1>1. /\ clientSocket \in Seq(Events) /\ clientSocket # << >>
      /\ m \in EventMessage /\ m # None
      /\ rxEvent = None
  BY QueueEnds, RetriedAreArrivals
  DEF ConservationInv, ClientInv, ClientUdpReceiveMessage
<1>2. /\ UNCHANGED <<clientRxQueue, dispatchEvent, priorityQueues, message,
                     faultQueue, faultEvent, sent, replies, dropped>>
      /\ clientSocket' = Tail(clientSocket) /\ rxEvent' = m
      /\ rxpc = "receive" /\ rxpc' = "ack"
  BY DEF ClientUdpReceiveMessage, departmentVars, vars, queueVars, taskVars,
         faultVars, historyVars
<1>3. \A place \in AllPlaces \ {<<"socket">>, <<"rx">>} :
        Content'[place] = Content[place]
  BY <1>2, ContentChanges
<1>4. /\ Content[<<"socket">>] # << >> /\ m = Head(Content[<<"socket">>])
      /\ Content'[<<"socket">>] = Tail(Content[<<"socket">>])
      /\ Content'[<<"rx">>] = Append(Content[<<"rx">>], m)
  BY <1>1, <1>2, ContentAt, ContentAtNext, BufferIs
<1>5. \A id : New(id)' <=> New(id)
  <2>0. /\ m = clientSocket[1] /\ 1 \in DOMAIN clientSocket
        /\ \A n \in DOMAIN clientSocket' :
             /\ n + 1 \in DOMAIN clientSocket
             /\ clientSocket'[n] = clientSocket[n + 1]
        /\ \A n \in DOMAIN clientSocket :
             \/ n = 1
             \/ /\ n - 1 \in DOMAIN clientSocket'
                /\ clientSocket[n] = clientSocket'[n - 1]
    BY <1>1, <1>2, TailEntries
  <2>1. \A id : InSocket(id) <=> m.eventId = id \/ InSocket(id)'
    BY <2>0 DEF InSocket
  <2> QED BY <1>2, <2>1 DEF New
<1>6. ConservationInv' /\ Relocated(m)
  BY <1>1, <1>2, <1>3, <1>4, <1>5, MoveKeeps, AllPlacesAre, PlacesAre
<1>7. m = clientSocket[1] /\ 1 \in DOMAIN clientSocket /\ m \in Events
  BY <1>1
<1>8. Unanswered(m.eventId)
  <2>1. New(m.eventId) /\ m.eventId \in Ids
    BY <1>7 DEF New, InSocket, Ids
  <2> QED BY <2>1 DEF ConservationInv, Phase, Accepted, Answered
<1>9. ASSUME NEW x, Has(Content, x), x.eventId = m.eventId PROVE FALSE
  <2>1. PICK p \in Places : \E n \in DOMAIN Content[p] : Content[p][n] = x
    BY <1>9 DEF Has
  <2>2. /\ p \in AllPlaces /\ <<"socket">> \in AllPlaces /\ p # <<"socket">>
        /\ Content[<<"socket">>] = clientSocket
    BY PlacesAre, AllPlacesAre, ContentAt DEF AllPlaces
  <2> QED BY <1>7, <1>9, <2>1, <2>2 DEF ConservationInv, Distinct
<1>10. ArrivesOne
  BY <1>2, <1>6, <1>7, <1>8, <1>9 DEF ArrivesOne, historyVars
<1> QED BY <1>6, <1>10

\* EnqueueEvent moves it to the receive queue.
LEMMA Enqueuing ==
  ASSUME ConservationInv, ClientInv', EnqueueEvent
  PROVE  ConservationInv' /\ CopiesStay
<1> DEFINE m == rxEvent
<1>1. m \in EventMessage /\ m # None
  BY RetriedAreArrivals DEF ConservationInv, ClientInv, EnqueueEvent
<1>2. /\ UNCHANGED <<clientSocket, dispatchEvent, priorityQueues, message,
                     faultQueue, faultEvent, sent, replies, dropped>>
      /\ rxEvent' = None /\ clientRxQueue' = Append(clientRxQueue, m)
      /\ rxpc = "enqueue" /\ rxpc' = "receive"
  BY DEF EnqueueEvent, departmentVars, vars, queueVars, taskVars, faultVars,
         historyVars
<1>3. \A place \in AllPlaces \ {<<"rx">>, <<"rxQueue">>} :
        Content'[place] = Content[place]
  BY <1>2, ContentChanges
<1>4. /\ Content[<<"rx">>] # << >> /\ m = Head(Content[<<"rx">>])
      /\ Content'[<<"rx">>] = Tail(Content[<<"rx">>])
      /\ Content'[<<"rxQueue">>] = Append(Content[<<"rxQueue">>], m)
  BY <1>1, <1>2, ContentAt, ContentAtNext, BufferIs
<1>5. \A id : New(id)' <=> New(id)
  BY <1>2 DEF New, InSocket
<1> QED BY <1>1, <1>2, <1>3, <1>4, <1>5, MoveKeeps, AllPlacesAre, PlacesAre

\* ReceiveForDispatch moves it to the dispatcher.
LEMMA TakingForDispatch ==
  ASSUME ConservationInv, ClientInv', ReceiveForDispatch
  PROVE  ConservationInv' /\ CopiesStay
<1> DEFINE m == Head(clientRxQueue)
<1>1. clientRxQueue # << >> /\ m \in EventMessage /\ m # None
  BY QueueEnds, RetriedAreArrivals
  DEF ConservationInv, ClientInv, ReceiveForDispatch
<1>2. /\ UNCHANGED <<clientSocket, rxEvent, priorityQueues, message,
                     faultQueue, faultEvent, sent, replies, dropped, rxpc>>
      /\ dispatchEvent = None /\ dispatchEvent' = m
      /\ clientRxQueue' = Tail(clientRxQueue)
  BY DEF ReceiveForDispatch, departmentVars, vars, queueVars, taskVars,
         rxVars, faultVars, historyVars
<1>3. \A place \in AllPlaces \ {<<"rxQueue">>, <<"dispatcher">>} :
        Content'[place] = Content[place]
  BY <1>2, ContentChanges
<1>4. /\ Content[<<"rxQueue">>] # << >> /\ m = Head(Content[<<"rxQueue">>])
      /\ Content'[<<"rxQueue">>] = Tail(Content[<<"rxQueue">>])
      /\ Content'[<<"dispatcher">>] = Append(Content[<<"dispatcher">>], m)
  BY <1>1, <1>2, ContentAt, ContentAtNext, BufferIs
<1>5. \A id : New(id)' <=> New(id)
  BY <1>2 DEF New, InSocket
<1> QED BY <1>1, <1>2, <1>3, <1>4, <1>5, MoveKeeps, AllPlacesAre, PlacesAre

\* Dispatch moves it to the queue of its department and priority.
LEMMA Dispatching ==
  ASSUME ConservationInv, ClientInv', dispatchEvent # None, Dispatch
  PROVE  ConservationInv' /\ CopiesStay
<1> DEFINE m == dispatchEvent
           Q == <<"queue", m.type, m.priority>>
<1>1. /\ m \in EventMessage /\ m # None
      /\ m.type \in Departments /\ m.priority \in Priorities
  BY RetriedAreArrivals DEF ConservationInv, ClientInv, EventMessage
<1>2. /\ UNCHANGED <<clientSocket, rxEvent, clientRxQueue, message,
                     faultQueue, faultEvent, sent, replies, dropped, rxpc>>
      /\ dispatchEvent' = None
      /\ priorityQueues' =
           [priorityQueues EXCEPT ![m.type][m.priority] = Append(@, m)]
  BY DEF Dispatch, EventDispatched, departmentVars, vars, queueVars, taskVars,
         rxVars, faultVars, historyVars
<1>3. /\ priorityQueues'[m.type][m.priority]
           = Append(priorityQueues[m.type][m.priority], m)
      /\ \A d \in Departments, p \in Priorities :
           <<"queue", d, p>> # Q => priorityQueues'[d][p] = priorityQueues[d][p]
  BY <1>1, <1>2 DEF ConservationInv, ClientInv
<1>4. Q \in Places /\ Q # <<"dispatcher">>
  BY <1>1, PlacesAre, PlacesDiffer
<1>5. \A place \in AllPlaces \ {<<"dispatcher">>, Q} :
        Content'[place] = Content[place]
  BY <1>2, <1>3, ContentChanges
<1>6. /\ Content[<<"dispatcher">>] # << >> /\ m = Head(Content[<<"dispatcher">>])
      /\ Content'[<<"dispatcher">>] = Tail(Content[<<"dispatcher">>])
      /\ Content'[Q] = Append(Content[Q], m)
  BY <1>1, <1>2, <1>3, ContentAt, ContentAtNext, BufferIs
<1>7. \A id : New(id)' <=> New(id)
  BY <1>2 DEF New, InSocket
<1> HIDE DEF Q
<1> QED BY <1>1, <1>2, <1>4, <1>5, <1>6, <1>7, MoveKeeps, AllPlacesAre, PlacesAre

\* ReceiveEvent moves it to the vehicle.
LEMMA Taking ==
  ASSUME ConservationInv, ClientInv', NEW v \in Vehicles, ReceiveEvent(v),
         UNCHANGED <<rxVars, clientRxQueue, dispatchEvent, faultVars,
                     historyVars>>
  PROVE  ConservationInv' /\ CopiesStay
<1> DEFINE P == <<"queue", v[1], level[v]>>
           Q == <<"vehicle", v>>
           m == Head(priorityQueues[v[1]][level[v]])
<1>1. /\ v[1] \in Departments /\ level[v] \in Priorities
      /\ priorityQueues[v[1]][level[v]] \in Seq(Retried)
      /\ message[v] = None
      /\ message \in [Vehicles -> Retried \cup {None}]
      /\ priorityQueues \in [Departments -> [Priorities -> Seq(Retried)]]
  <2>1. ClientInv /\ DepartmentInv /\ TypeOK /\ TaskKnows(v)
    BY DEF ConservationInv, ClientInv, DepartmentInv
  <2>2. v[1] \in Departments /\ level[v] \in Priorities
    BY <2>1, VehicleParts DEF TypeOK
  <2>3. message[v] = None
    BY <2>1 DEF TaskKnows, HoldingEvent, ReceiveEvent, GoTo
  <2>4. /\ message \in [Vehicles -> Retried \cup {None}]
        /\ priorityQueues \in [Departments -> [Priorities -> Seq(Retried)]]
    BY <2>1 DEF ClientInv
  <2> QED BY <2>2, <2>3, <2>4
<1>2. priorityQueues[v[1]][level[v]] # << >> /\ m \in EventMessage /\ m # None
  BY <1>1, QueueEnds, RetriedAreArrivals DEF ReceiveEvent
<1>3. /\ UNCHANGED <<clientSocket, rxEvent, clientRxQueue, dispatchEvent,
                     faultQueue, faultEvent, sent, replies, dropped, rxpc>>
      /\ message' = [message EXCEPT ![v] = m]
      /\ priorityQueues' =
           [priorityQueues EXCEPT ![v[1]][level[v]] = Tail(@)]
  BY DEF ReceiveEvent, rxVars, faultVars, historyVars
<1>4. /\ priorityQueues'[v[1]][level[v]] = Tail(priorityQueues[v[1]][level[v]])
      /\ \A d \in Departments, p \in Priorities :
           <<"queue", d, p>> # P => priorityQueues'[d][p] = priorityQueues[d][p]
      /\ message'[v] = m
      /\ \A w \in Vehicles : <<"vehicle", w>> # Q => message'[w] = message[w]
  BY <1>1, <1>3
<1>5. P \in AllPlaces /\ P \in Places /\ Q \in Places /\ P # Q
  BY <1>1, AllPlacesAre, PlacesAre, PlacesDiffer
<1>6. \A place \in AllPlaces \ {P, Q} : Content'[place] = Content[place]
  BY <1>3, <1>4, ContentChanges
<1>7. /\ Content[P] # << >> /\ m = Head(Content[P])
      /\ Content'[P] = Tail(Content[P])
      /\ Content'[Q] = Append(Content[Q], m)
  <2>1. /\ Content[P] = priorityQueues[v[1]][level[v]]
        /\ Content'[P] = priorityQueues'[v[1]][level[v]]
    BY <1>1, ContentAt, ContentAtNext
  <2>2. Content[Q] = Buffer(None) /\ Content'[Q] = Buffer(m)
    BY <1>1, <1>4, ContentAt, ContentAtNext
  <2>3. Append(Buffer(None), m) = Buffer(m)
    BY <1>2, BufferIs
  <2> QED BY <1>2, <1>4, <2>1, <2>2, <2>3
<1>8. \A id : New(id)' <=> New(id)
  BY <1>3 DEF New, InSocket
<1> HIDE DEF P, Q
<1> QED BY <1>2, <1>3, <1>5, <1>6, <1>7, <1>8, MoveKeeps

\* A vehicle that is to report has an event and a verdict.
LEMMA ReportingHolds ==
  ASSUME ClientInv, NEW v \in Vehicles, ReportDone(v)
  PROVE  /\ message[v] \in Retried /\ message[v].eventId \in Ids
         /\ result[v] \in Outcomes
<1>1. message[v] \in Retried /\ result[v] \in Outcomes
  BY DEF ClientInv, DepartmentInv, TaskKnows, ReportDone, GoTo, HoldingEvent,
         HoldingOutcome
<1> QED BY <1>1, RetriedIds

\* Vehicle v gives its event away, the others keep theirs.
VehicleEmptied(v) ==
  /\ message'[v] = None
  /\ \A w \in Vehicles :
       <<"vehicle", w>> # <<"vehicle", v>> => message'[w] = message[w]

\* When it has done so, it has no event any more.
LEMMA VehicleGivesBack ==
  ASSUME ClientInv, NEW v \in Vehicles, ReportDone(v)
  PROVE  VehicleEmptied(v)
<1>1. message \in [Vehicles -> Retried \cup {None}]
  BY DEF ClientInv
<1> QED BY <1>1 DEF VehicleEmptied, ReportDone

\* SendFailedEventToFaultManager moves the event to the fault queue.
LEMMA SendingToFaultManager ==
  ASSUME ConservationInv, ClientInv', NEW v \in Vehicles,
         SendFailedEventToFaultManager(v),
         UNCHANGED <<rxVars, clientRxQueue, dispatchEvent, faultVars,
                     historyVars>>
  PROVE  ConservationInv' /\ CopiesStay
<1> DEFINE P == <<"vehicle", v>>
           m == message[v]
<1>1. /\ m \in EventMessage /\ m # None
      /\ message \in [Vehicles -> Retried \cup {None}]
  BY ReportingHolds, RetriedAreArrivals
  DEF ConservationInv, ClientInv, SendFailedEventToFaultManager
<1>2. /\ UNCHANGED <<clientSocket, rxEvent, clientRxQueue, dispatchEvent,
                     priorityQueues, faultEvent, sent, replies, dropped, rxpc>>
      /\ message' = [message EXCEPT ![v] = None]
      /\ faultQueue' = Append(faultQueue, m)
  BY DEF SendFailedEventToFaultManager, ReportDone, rxVars, faultVars,
         historyVars
<1>3. /\ message'[v] = None
      /\ \A w \in Vehicles : <<"vehicle", w>> # P => message'[w] = message[w]
  BY <1>1, <1>2
<1>4. P \in AllPlaces /\ P \in Places /\ P # <<"faultQueue">>
  BY AllPlacesAre, PlacesAre, PlacesDiffer
<1>5. \A place \in AllPlaces \ {P, <<"faultQueue">>} :
        Content'[place] = Content[place]
  BY <1>2, <1>3, ContentChanges
<1>6. /\ Content[P] # << >> /\ m = Head(Content[P])
      /\ Content'[P] = Tail(Content[P])
      /\ Content'[<<"faultQueue">>] = Append(Content[<<"faultQueue">>], m)
  <2>1. Content[P] = Buffer(m) /\ Content'[P] = Buffer(None)
    BY <1>3, ContentAt, ContentAtNext
  <2>2. Content'[<<"faultQueue">>] = Append(Content[<<"faultQueue">>], m)
    BY <1>2, ContentAt, ContentAtNext
  <2> QED BY <1>1, <2>1, <2>2, BufferIs
<1>7. \A id : New(id)' <=> New(id)
  BY <1>2 DEF New, InSocket
<1> HIDE DEF P
<1> QED BY <1>1, <1>2, <1>4, <1>5, <1>6, <1>7, MoveKeeps, AllPlacesAre, PlacesAre

\* RetryEvent and GiveUp move it to the fault manager, RetryEvent with an
\* attempt used up.
LEMMA TakingFault ==
  ASSUME ConservationInv, ClientInv', FaultReceived, fpc = "receive",
         faultEvent' \in Retried, faultEvent'.eventId = Head(faultQueue).eventId,
         UNCHANGED <<rxVars, clientRxQueue, dispatchEvent, historyVars>>
  PROVE  ConservationInv' /\ Relocated(faultEvent')
<1> DEFINE m == faultEvent'
<1>1. m \in EventMessage /\ m # None /\ faultQueue # << >> /\ faultEvent = None
  BY RetriedAreArrivals DEF ConservationInv, ClientInv, FaultReceived
<1>2. /\ UNCHANGED <<clientSocket, rxEvent, clientRxQueue, dispatchEvent,
                     priorityQueues, message, sent, replies, dropped, rxpc>>
      /\ faultQueue' = Tail(faultQueue)
  BY DEF FaultReceived, taskVars, rxVars, historyVars
<1>3. \A place \in AllPlaces \ {<<"faultQueue">>, <<"faultManager">>} :
        Content'[place] = Content[place]
  BY <1>2, ContentChanges
<1>4. /\ Content[<<"faultQueue">>] # << >>
      /\ m.eventId = Head(Content[<<"faultQueue">>]).eventId
      /\ Content'[<<"faultQueue">>] = Tail(Content[<<"faultQueue">>])
      /\ Content'[<<"faultManager">>] = Append(Content[<<"faultManager">>], m)
  BY <1>1, <1>2, ContentAt, ContentAtNext, BufferIs
<1>5. \A id : New(id)' <=> New(id)
  BY <1>2 DEF New, InSocket
<1>6. PICK e : e = m
  OBVIOUS
<1> QED BY <1>1, <1>2, <1>3, <1>4, <1>5, <1>6, MoveKeeps, AllPlacesAre, PlacesAre

\* RequeueEvent moves it back to the receive queue.
LEMMA Requeuing ==
  ASSUME ConservationInv, ClientInv', RequeueEvent
  PROVE  ConservationInv' /\ CopiesStay
<1> DEFINE m == faultEvent
<1>1. m \in EventMessage /\ m # None
  BY RetriedAreArrivals DEF ConservationInv, ClientInv, RequeueEvent
<1>2. /\ UNCHANGED <<clientSocket, rxEvent, dispatchEvent, priorityQueues,
                     message, faultQueue, sent, replies, dropped, rxpc>>
      /\ clientRxQueue' = Append(clientRxQueue, m)
      /\ faultEvent' = None
  BY DEF RequeueEvent, departmentVars, vars, queueVars, taskVars, rxVars,
         historyVars
<1>3. \A place \in AllPlaces \ {<<"faultManager">>, <<"rxQueue">>} :
        Content'[place] = Content[place]
  BY <1>2, ContentChanges
<1>4. /\ Content[<<"faultManager">>] # << >>
      /\ m = Head(Content[<<"faultManager">>])
      /\ Content'[<<"faultManager">>] = Tail(Content[<<"faultManager">>])
      /\ Content'[<<"rxQueue">>] = Append(Content[<<"rxQueue">>], m)
  BY <1>1, <1>2, ContentAt, ContentAtNext, BufferIs
<1>5. \A id : New(id)' <=> New(id)
  BY <1>2 DEF New, InSocket
<1> QED BY <1>1, <1>2, <1>3, <1>4, <1>5, MoveKeeps, AllPlacesAre, PlacesAre

\* ServerSends adds an event that was never sent before.
LEMMA Sending ==
  ASSUME ConservationInv, ClientInv', NEW m \in Events, ServerSends(m)
  PROVE  ConservationInv' /\ CopiesStay
<1> DEFINE c == Content
           id == m.eventId
<1>1. /\ c \in Holding /\ Distinct(c)
      /\ m \in EventMessage /\ id \in Ids
  BY ContentType, RetriedAreArrivals DEF ConservationInv, Ids
<1>2. /\ UNCHANGED <<rxEvent, clientRxQueue, dispatchEvent, priorityQueues,
                     message, faultQueue, faultEvent, replies, dropped, rxpc>>
      /\ clientSocket' = Append(clientSocket, m) /\ sent' = sent \cup {m}
      /\ ~WasSent(id)
  BY DEF ServerSends, departmentVars, vars, queueVars, taskVars, faultVars,
         historyVars, WasSent
<1>3. \A place \in AllPlaces \ {<<"socket">>} : Content'[place] = Content[place]
  BY <1>2, ContentChanges
<1>4. Content'[<<"socket">>] = Append(Content[<<"socket">>], m)
  BY <1>2, ContentAt, ContentAtNext
<1>5. Unanswered(id) /\ ~Holds(c, id)
  BY <1>1, <1>2 DEF ConservationInv, Phase, Unanswered, Accepted, Answered
<1>6. /\ Distinct(Content')
      /\ \A e : Holds(Content', e) <=> Holds(c, e) \/ e = id
      /\ \A x : Has(Content', x) <=> Has(c, x)
  <2>1. <<"socket">> \in AllPlaces /\ <<"socket">> \notin Places
    BY AllPlacesAre, PlacesAre
  <2>2. Content' = Put(c, <<"socket">>, m)
    BY <1>1, <1>3, <1>4, <2>1 DEF Content, Put, Holding
  <2> HIDE DEF c
  <2>3. /\ Distinct(Put(c, <<"socket">>, m))
        /\ \A e : Holds(Put(c, <<"socket">>, m), e) <=> Holds(c, e) \/ e = id
        /\ \A x : Has(Put(c, <<"socket">>, m), x) <=> Has(c, x)
    BY <1>1, <1>5, <2>1, PutIn
  <2> QED BY <2>2, <2>3
<1>7. \A e : InSocket(e)' <=> InSocket(e) \/ e = id
  <2>1. clientSocket \in Seq(Events)
    BY DEF ConservationInv, ClientInv
  <2>2. /\ \A n \in DOMAIN clientSocket :
             n \in DOMAIN clientSocket' /\ clientSocket'[n] = clientSocket[n]
        /\ \A n \in DOMAIN clientSocket' :
             \/ n \in DOMAIN clientSocket /\ clientSocket'[n] = clientSocket[n]
             \/ n = Len(clientSocket) + 1 /\ clientSocket'[n] = m
        /\ Len(clientSocket) + 1 \in DOMAIN clientSocket'
        /\ clientSocket'[Len(clientSocket) + 1] = m
    BY <1>2, <2>1, AppendEntries
  <2> QED BY <2>2 DEF InSocket
<1>8. Unanswered(id)'
  BY <1>2, <1>5, <1>7 DEF Unanswered, New, WasSent
<1>9. ASSUME NEW e \in Ids, e # id PROVE Phase(e)'
  <2>1. New(e)' <=> New(e)
    BY <1>2, <1>7, <1>9 DEF New
  <2> QED BY <1>2, <1>6, <1>9, <2>1, SamePhase DEF ConservationInv
<1> QED BY <1>6, <1>8, <1>9 DEF ConservationInv, Phase, CopiesStay

\* SendAck makes an unanswered event an accepted one and moves nothing.
LEMMA Acknowledging ==
  ASSUME ConservationInv, ClientInv', SendAck
  PROVE  ConservationInv' /\ Quiet
<1>0. PICK id : id = rxEvent.eventId
  OBVIOUS
<1>1. /\ Content \in Holding /\ Distinct(Content)
      /\ rxEvent # None /\ id \in Ids /\ New(id)
      /\ replies \in [Ids -> Seq(ClientMessage)]
  BY <1>0, ContentType DEF ConservationInv, ClientInv, SendAck, Ids, New
<1>2. /\ UNCHANGED <<clientSocket, rxEvent, clientRxQueue, dispatchEvent,
                     priorityQueues, message, faultQueue, faultEvent, sent,
                     dropped>>
      /\ rxpc = "ack" /\ rxpc' = "enqueue"
      /\ replies' = [replies EXCEPT ![id] = Append(@, Ack(id))]
  BY <1>0 DEF SendAck, Send, Ack, departmentVars, vars, queueVars, taskVars,
         faultVars
<1>3. Content' = Content
  <2>1. \A place \in AllPlaces : Content'[place] = Content[place]
    BY <1>2, ContentChanges
  <2> QED BY <1>1, <2>1 DEF Content, Holding
<1>4. Holds(Content, id) /\ ~InSocket(id)
  <2>1. Content[<<"rx">>] = <<rxEvent>> /\ Content[<<"socket">>] = clientSocket
    BY <1>1, ContentAt, BufferIs
  <2>2. 1 \in DOMAIN Content[<<"rx">>] /\ Content[<<"rx">>][1].eventId = id
    BY <1>0, <2>1
  <2>3. Holds(Content, id)
    BY <2>2, AllPlacesAre DEF Holds
  <2>4. ASSUME InSocket(id) PROVE FALSE
    <3>1. PICK n \in DOMAIN Content[<<"socket">>] :
            Content[<<"socket">>][n].eventId = id
      BY <2>1, <2>4 DEF InSocket
    <3>2. <<"socket">> = <<"rx">>
      BY <1>1, <2>2, <3>1, AllPlacesAre DEF Distinct
    <3>3. <<"socket">> # <<"rx">>
      OBVIOUS
    <3> QED BY <3>2, <3>3
  <2> QED BY <2>3, <2>4
<1>5. Unanswered(id)
  BY <1>1 DEF ConservationInv, Phase, Accepted, Answered
<1>6. replies'[id] = <<Ack(id)>>
  <2>1. replies'[id] = Append(<< >>, Ack(id))
    BY <1>1, <1>2, <1>5 DEF Unanswered
  <2> QED BY <2>1
<1>7. \A e : (InSocket(e)' <=> InSocket(e)) /\ (WasSent(e)' <=> WasSent(e))
  BY <1>2 DEF InSocket, WasSent
<1>8. Accepted(id)'
  BY <1>2, <1>3, <1>4, <1>5, <1>6, <1>7 DEF Unanswered, Accepted, New
<1>9. ASSUME NEW e \in Ids, e # id PROVE Phase(e)'
  <2>1. (New(e)' <=> New(e)) /\ replies'[e] = replies[e]
    BY <1>0, <1>1, <1>2, <1>7, <1>9 DEF New
  <2>2. Phase(e) /\ (Holds(Content', e) <=> Holds(Content, e))
    BY <1>3 DEF ConservationInv
  <2>3. sent \subseteq sent' /\ (e \in dropped' <=> e \in dropped)
    BY <1>2
  <2> QED BY <2>1, <2>2, <2>3, SamePhase
<1>10. ASSUME NEW e \in Ids PROVE Reported(e)' = Reported(e)
  <2>1. CASE e = id
    BY <1>5, <1>6, <2>1, RepliesTell, RepliesTellNext
    DEF ReportedOnceOrNever, Unanswered
  <2>2. CASE e # id
    <3>1. replies'[e] = replies[e]
      BY <1>1, <1>2, <2>2
    <3> QED BY <3>1 DEF Reported
  <2> QED BY <2>1, <2>2
<1>11. Quiet
  BY <1>2, <1>3, <1>10 DEF Quiet, CopiesStay
<1> QED BY <1>1, <1>3, <1>8, <1>9, <1>11 DEF ConservationInv, Phase

\* The three places where a full queue costs an event.
LEMMA Dropping ==
  ASSUME ConservationInv, ClientInv',
         \/ dispatchEvent # None /\ DropUndispatched
         \/ DropRetry
         \/ \E v \in Vehicles : DropFailed(v)
  PROVE  ConservationInv' /\ LosesOne
<1>1. CASE dispatchEvent # None /\ DropUndispatched
  <2> DEFINE m == dispatchEvent
  <2>1. m # None /\ m.eventId \in Ids
    BY <1>1, RetriedIds DEF ConservationInv, ClientInv
  <2>2. /\ UNCHANGED <<clientSocket, rxEvent, clientRxQueue, priorityQueues,
                       message, faultQueue, faultEvent, rxVars, replies>>
        /\ dispatchEvent' = None /\ dropped' = dropped \cup {m.eventId}
    BY <1>1 DEF DropUndispatched, departmentVars, vars, queueVars, taskVars,
                rxVars, faultVars
  <2>3. \A place \in AllPlaces \ {<<"dispatcher">>} :
          Content'[place] = Content[place]
    BY <2>2, ContentChanges
  <2>4. /\ Content[<<"dispatcher">>] # << >>
        /\ m = Head(Content[<<"dispatcher">>])
        /\ Content'[<<"dispatcher">>] = Tail(Content[<<"dispatcher">>])
    BY <2>1, <2>2, ContentAt, ContentAtNext, BufferIs
  <2> QED BY <2>1, <2>2, <2>3, <2>4, DropKeeps, AllPlacesAre
         DEF LosesOne
<1>2. CASE DropRetry
  <2> DEFINE m == faultEvent
  <2>1. m # None /\ m.eventId \in Ids
    BY <1>2, RetriedIds DEF ConservationInv, ClientInv, DropRetry
  <2>2. /\ UNCHANGED <<clientSocket, rxEvent, clientRxQueue, dispatchEvent,
                       priorityQueues, message, faultQueue, rxVars, replies>>
        /\ faultEvent' = None /\ dropped' = dropped \cup {m.eventId}
    BY <1>2 DEF DropRetry, departmentVars, vars, queueVars, taskVars, rxVars
  <2>3. \A place \in AllPlaces \ {<<"faultManager">>} :
          Content'[place] = Content[place]
    BY <2>2, ContentChanges
  <2>4. /\ Content[<<"faultManager">>] # << >>
        /\ m = Head(Content[<<"faultManager">>])
        /\ Content'[<<"faultManager">>] = Tail(Content[<<"faultManager">>])
    BY <2>1, <2>2, ContentAt, ContentAtNext, BufferIs
  <2> QED BY <2>1, <2>2, <2>3, <2>4, DropKeeps, AllPlacesAre
         DEF LosesOne
<1>3. ASSUME NEW v \in Vehicles, DropFailed(v)
      PROVE  ConservationInv' /\ LosesOne
  <2> DEFINE m == message[v]
             P == <<"vehicle", v>>
  <2>1. ReportDone(v) /\ ClientInv
    BY <1>3 DEF DropFailed, LoseFailedEvent, ConservationInv
  <2>2. m # None /\ m.eventId \in Ids
    BY <2>1, ReportingHolds, RetriedAreArrivals
  <2>3. /\ UNCHANGED <<clientSocket, rxEvent, clientRxQueue, dispatchEvent,
                       priorityQueues, faultQueue, faultEvent, rxVars, replies>>
        /\ dropped' = dropped \cup {m.eventId}
    BY <1>3 DEF DropFailed, LoseFailedEvent, ReportDone, rxVars, faultVars
  <2>4. VehicleEmptied(v)
    BY <2>1, VehicleGivesBack
  <2>5. \A place \in AllPlaces \ {P} : Content'[place] = Content[place]
    BY <2>3, <2>4, ContentChanges DEF VehicleEmptied
  <2>6. /\ Content[P] # << >> /\ m = Head(Content[P])
        /\ Content'[P] = Tail(Content[P])
    <3>1. Content[P] = Buffer(m)
      BY ContentAt
    <3>2. Content'[P] = Buffer(None)
      BY <2>4, ContentAtNext DEF VehicleEmptied
    <3> QED BY <2>2, <3>1, <3>2, BufferIs
  <2>7. P \in AllPlaces \ {<<"socket">>, <<"rx">>}
    BY AllPlacesAre, PlacesDiffer
  <2> HIDE DEF P
  <2> QED BY <2>2, <2>3, <2>5, <2>6, <2>7, DropKeeps DEF LosesOne
<1> QED BY <1>1, <1>2, <1>3

\* The two places where an outcome is reported.
LEMMA Reporting ==
  ASSUME ConservationInv, ClientInv',
         \/ SendFailureCompletion
         \/ \E v \in Vehicles : ReportOutcome(v)
  PROVE  ConservationInv' /\ ReportsOne
<1>1. CASE SendFailureCompletion
  <2> DEFINE m == faultEvent
  <2>1. m # None /\ m.eventId \in Ids
    BY <1>1, RetriedIds DEF ConservationInv, ClientInv, SendFailureCompletion
  <2>2. /\ UNCHANGED <<clientSocket, rxEvent, clientRxQueue, dispatchEvent,
                       priorityQueues, message, faultQueue, rxVars, dropped>>
        /\ faultEvent' = None /\ Send(Completion(m.eventId, STATUS_FAILED))
    BY <1>1 DEF SendFailureCompletion, departmentVars, vars, queueVars,
                taskVars, rxVars
  <2>3. \A place \in AllPlaces \ {<<"faultManager">>} :
          Content'[place] = Content[place]
    BY <2>2, ContentChanges
  <2>4. /\ Content[<<"faultManager">>] # << >>
        /\ m = Head(Content[<<"faultManager">>])
        /\ Content'[<<"faultManager">>] = Tail(Content[<<"faultManager">>])
    BY <2>1, <2>2, ContentAt, ContentAtNext, BufferIs
  <2>5. STATUS_FAILED \in Outcomes
    BY DEF Outcomes
  <2>6. Has(Content, m) /\ m.retryCount = MAX_EVENT_RETRIES
    <3>1. Content[<<"faultManager">>] = <<m>>
      BY <2>1, ContentAt, BufferIs
    <3>2. 1 \in DOMAIN Content[<<"faultManager">>]
          /\ Content[<<"faultManager">>][1] = m
      BY <3>1
    <3>3. Has(Content, m)
      BY <3>2, PlacesAre DEF Has
    <3> QED BY <1>1, <3>3
            DEF ConservationInv, ClientInv, SendFailureCompletion
  <2>7. /\ ConservationInv'
        /\ Accepted(m.eventId) /\ Holds(Content, m.eventId)
        /\ Removed(m.eventId)
    BY <2>1, <2>2, <2>3, <2>4, <2>5, ReportKeeps, AllPlacesAre
  <2>8. UNCHANGED dropped
    BY <2>2
  <2> QED BY <2>1, <2>2, <2>5, <2>6, <2>7, <2>8 DEF ReportsOne
<1>2. ASSUME NEW v \in Vehicles, ReportOutcome(v)
      PROVE  ConservationInv' /\ ReportsOne
  <2> DEFINE m == message[v]
             P == <<"vehicle", v>>
  <2>1. ReportDone(v) /\ ClientInv
    BY <1>2 DEF ReportOutcome, SendCompletionMessage, ConservationInv
  <2>2. m # None /\ m.eventId \in Ids /\ result[v] \in Outcomes
    BY <2>1, ReportingHolds, RetriedAreArrivals
  <2>3. /\ UNCHANGED <<clientSocket, rxEvent, clientRxQueue, dispatchEvent,
                       priorityQueues, faultQueue, faultEvent, rxVars, dropped>>
        /\ Send(Completion(m.eventId, result[v]))
    BY <1>2 DEF ReportOutcome, SendCompletionMessage, ReportDone, rxVars,
                faultVars
  <2>4. VehicleEmptied(v)
    BY <2>1, VehicleGivesBack
  <2>5. \A place \in AllPlaces \ {P} : Content'[place] = Content[place]
    BY <2>3, <2>4, ContentChanges DEF VehicleEmptied
  <2>6. /\ Content[P] # << >> /\ m = Head(Content[P])
        /\ Content'[P] = Tail(Content[P])
    <3>1. Content[P] = Buffer(m)
      BY ContentAt
    <3>2. Content'[P] = Buffer(None)
      BY <2>4, ContentAtNext DEF VehicleEmptied
    <3> QED BY <2>2, <3>1, <3>2, BufferIs
  <2>7. P \in AllPlaces \ {<<"socket">>, <<"rx">>}
    BY AllPlacesAre, PlacesDiffer
  <2> HIDE DEF P
  <2>8. /\ ConservationInv'
        /\ Accepted(m.eventId) /\ Holds(Content, m.eventId)
        /\ Removed(m.eventId)
    BY <2>2, <2>3, <2>5, <2>6, <2>7, ReportKeeps
  <2>9. result[v] # STATUS_FAILED /\ UNCHANGED dropped
    BY <1>2 DEF ReportOutcome, SendCompletionMessage
  <2> QED BY <2>2, <2>3, <2>8, <2>9 DEF ReportsOne
<1> QED BY <1>1, <1>2

\* A step that touches none of these variables.
LEMMA Staying ==
  ASSUME ConservationInv, ClientInv',
         UNCHANGED <<clientSocket, rxEvent, rxpc, clientRxQueue, dispatchEvent,
                     priorityQueues, message, faultQueue, faultEvent, sent,
                     replies, dropped>>
  PROVE  ConservationInv' /\ CopiesStay
<1>1. Content' = Content
  BY ContentChanges DEF Content
<1>2. \A id : New(id)' <=> New(id)
  BY DEF New, InSocket
<1> QED BY <1>1, <1>2, NothingMoves

\* A step of a vehicle.
LEMMA VehicleConserves ==
  ASSUME ConservationInv, ClientInv', NEW v \in Vehicles, Vehicle(v)
  PROVE  ConservationInv' /\ EventMoves
<1>1. CASE DriveVehicle(v)
  <2>1. UNCHANGED <<rxVars, clientRxQueue, dispatchEvent, faultVars,
                    historyVars>>
    BY <1>1 DEF DriveVehicle
  <2>2. CASE ReceiveEvent(v)
    BY <2>1, <2>2, Taking, QuietStep DEF historyVars
  <2>3. CASE SendFailedEventToFaultManager(v)
    BY <2>1, <2>3, SendingToFaultManager, QuietStep DEF historyVars
  <2>4. CASE \/ CheckStatus(v) \/ ReceiveTimeout(v) \/ SetVehicleCurrentEvent(v)
             \/ StartProcessing(v) \/ ProcessSecond(v) \/ ReleaseVehicle(v)
             \/ ClearVehicleCurrentEvent(v)
    <3>1. UNCHANGED <<priorityQueues, message, faultQueue>>
      BY <2>4 DEF CheckStatus, ReceiveTimeout, SetVehicleCurrentEvent,
                  StartProcessing, ProcessSecond, ReleaseVehicle,
                  ClearVehicleCurrentEvent, queueVars
    <3> QED BY <2>1, <3>1, Staying, QuietStep
            DEF rxVars, faultVars, historyVars
  <2> QED BY <1>1, <2>2, <2>3, <2>4 DEF DriveVehicle
<1>2. CASE CancelEvent(v) \/ FinishEvent(v)
  <2>1. UNCHANGED <<rxVars, clientRxQueue, dispatchEvent, priorityQueues,
                    message, faultQueue, faultVars, historyVars>>
    BY <1>2 DEF CancelEvent, FinishEvent, AbortProcessing, FinishProcessing,
                queueVars
  <2> QED BY <2>1, Staying, QuietStep DEF rxVars, faultVars, historyVars
<1>3. CASE ReportOutcome(v)
  BY <1>3, Reporting DEF EventMoves
<1>4. CASE DropFailed(v)
  BY <1>4, Dropping DEF EventMoves
<1> QED BY <1>1, <1>2, <1>3, <1>4 DEF Vehicle

\* A step of the receive task.
LEMMA ReceivingConserves ==
  ASSUME ConservationInv, ClientInv', ClientUdpRxTask
  PROVE  ConservationInv' /\ EventMoves
<1>1. CASE EnqueueEvent
  <2>1. UNCHANGED historyVars
    BY <1>1 DEF EnqueueEvent
  <2> QED BY <1>1, <2>1, Enqueuing, QuietStep
<1> QED BY <1>1, Receiving, Acknowledging DEF ClientUdpRxTask, EventMoves

\* A step of the dispatcher.
LEMMA DispatcherConserves ==
  ASSUME ConservationInv, ClientInv', ClientDispatcherTask
  PROVE  ConservationInv' /\ EventMoves
<1>1. CASE ReceiveForDispatch
  <2>1. UNCHANGED historyVars
    BY <1>1 DEF ReceiveForDispatch
  <2> QED BY <1>1, <2>1, TakingForDispatch, QuietStep
<1>2. CASE dispatchEvent # None /\ Dispatch
  <2>1. UNCHANGED historyVars
    BY <1>2 DEF Dispatch
  <2> QED BY <1>2, <2>1, Dispatching, QuietStep
<1>3. CASE dispatchEvent # None /\ DropUndispatched
  BY <1>3, Dropping DEF EventMoves
<1> QED BY <1>1, <1>2, <1>3 DEF ClientDispatcherTask, ForwardEvent

\* A step of the fault manager.
LEMMA FaultManagerConserves ==
  ASSUME ConservationInv, ClientInv', FaultManagerTask
  PROVE  ConservationInv' /\ EventMoves
<1> DEFINE m == Head(faultQueue)
<1>1. ASSUME FaultReceived
      PROVE  m \in Retried /\ m \in EventMessage /\ Has(Content, m)
  <2>1. faultQueue \in Seq(Retried) /\ faultQueue # << >>
    BY <1>1 DEF FaultReceived, ConservationInv, ClientInv
  <2>2. m = faultQueue[1] /\ 1 \in DOMAIN faultQueue /\ m \in Retried
    BY <2>1
  <2> QED BY <2>2, ContentAt, PlacesAre, RetriedAreArrivals DEF Has
<1>2. CASE RetryEvent
  <2> DEFINE again == [m EXCEPT !.retryCount = @ + 1]
  <2>1. /\ FaultReceived /\ fpc = "receive" /\ faultEvent' = again
        /\ m.retryCount < MAX_EVENT_RETRIES
        /\ UNCHANGED <<rxVars, clientRxQueue, dispatchEvent, historyVars>>
    BY <1>2 DEF RetryEvent
  <2>2. /\ again \in Retried /\ again.eventId = m.eventId
        /\ again.retryCount = m.retryCount + 1
    BY <1>1, <2>1, RetryAgain DEF EventMessage
  <2>3. ConservationInv' /\ Relocated(faultEvent')
    BY <2>1, <2>2, TakingFault
  <2>4. Relocated(again)
    BY <2>1, <2>3 DEF Relocated
  <2> HIDE DEF again
  <2>5. RetriesOne
    BY <1>1, <2>1, <2>2, <2>4 DEF RetriesOne
  <2> QED BY <2>3, <2>5 DEF EventMoves
<1>3. CASE GiveUp
  <2>1. /\ FaultReceived /\ fpc = "receive" /\ faultEvent' = m
        /\ UNCHANGED <<rxVars, clientRxQueue, dispatchEvent, historyVars>>
    BY <1>3 DEF GiveUp
  <2>2. ConservationInv' /\ Relocated(faultEvent')
    BY <1>1, <2>1, TakingFault
  <2>3. CopiesStay
    BY <1>1, <2>1, <2>2, SameMessage DEF Relocated, CopiesStay
  <2> QED BY <2>1, <2>2, <2>3, QuietStep
<1>4. CASE RequeueEvent
  <2>1. UNCHANGED historyVars
    BY <1>4 DEF RequeueEvent
  <2> QED BY <1>4, <2>1, Requeuing, QuietStep
<1> QED BY <1>2, <1>3, <1>4, Dropping, Reporting
        DEF FaultManagerTask, EventMoves

\* Every step keeps the invariant and is one of the moves above.
LEMMA ConservationStep ==
  ASSUME ConservationInv, [ClientNext]_clientVars
  PROVE  ConservationInv' /\ EventMoves
<1>0. ClientInv'
  BY ClientStep DEF ConservationInv
<1>1. CASE ClientUdpRxTask
  BY <1>0, <1>1, ReceivingConserves
<1>2. CASE ClientDispatcherTask
  BY <1>0, <1>2, DispatcherConserves
<1>3. CASE FaultManagerTask
  BY <1>0, <1>3, FaultManagerConserves
<1>4. CASE \E v \in Vehicles : Vehicle(v)
  BY <1>0, <1>4, VehicleConserves
<1>5. CASE \E d \in Departments : ShiftManager(d)
  <2>1. UNCHANGED <<queueVars, taskVars>>
    BY <1>5 DEF ShiftManager, ShiftManagerTask, CountPendingDepartmentEvents,
                CountAvailableVehicles, InspectVehicle, CountHighPriorityEvents,
                ShouldInterruptVehicle, SetVehicleBreak, SetBreakBit,
                ClearVehicleBreak, ClearBreakBit, NextMonitoringCycle
  <2> QED BY <1>0, <1>5, <2>1, Staying, QuietStep
          DEF ShiftManager, queueVars, taskVars, rxVars, faultVars, historyVars
<1>6. CASE \E m \in Events : ServerSends(m)
  <2>1. UNCHANGED historyVars
    BY <1>6 DEF ServerSends
  <2> QED BY <1>0, <1>6, <2>1, Sending, QuietStep
<1>7. CASE UNCHANGED clientVars
  BY <1>0, <1>7, Staying, QuietStep
  DEF clientVars, departmentVars, vars, queueVars, taskVars, rxVars,
      faultVars, historyVars
<1> QED BY <1>1, <1>2, <1>3, <1>4, <1>5, <1>6, <1>7 DEF ClientNext, ClientTasks

-----------------------------------------------------------------------------
(* The theorems *)

\* The client starts with no event,
LEMMA NothingHeld ==
  ASSUME ClientInit
  PROVE  \A place \in AllPlaces : Content[place] = << >>
<1> SUFFICES ASSUME NEW place \in AllPlaces PROVE Content[place] = << >>
  OBVIOUS
<1>1. /\ clientSocket = << >> /\ rxEvent = None /\ clientRxQueue = << >>
      /\ dispatchEvent = None /\ faultQueue = << >> /\ faultEvent = None
      /\ \A v \in Vehicles : message[v] = None
      /\ \A d \in Departments, p \in Priorities : priorityQueues[d][p] = << >>
  BY DEF ClientInit, Init
<1>2. CASE place \in {<<"socket">>, <<"rx">>, <<"rxQueue">>, <<"dispatcher">>,
                      <<"faultQueue">>, <<"faultManager">>}
  BY <1>1, <1>2, ContentAt, BufferIs
<1>3. CASE \E d \in Departments, p \in Priorities : place = <<"queue", d, p>>
  BY <1>1, <1>3, ContentAt
<1>4. CASE \E v \in Vehicles : place = <<"vehicle", v>>
  BY <1>1, <1>4, ContentAt, BufferIs
<1> QED BY <1>2, <1>3, <1>4, AllPlacesAre

\* so that the invariant holds.
LEMMA ConservationInit == ClientInit => ConservationInv
<1> SUFFICES ASSUME ClientInit PROVE ConservationInv
  OBVIOUS
<1>1. ClientInv
  BY ClientInitInv
<1>2. Distinct(Content) /\ \A id : ~Holds(Content, id)
  BY NothingHeld DEF Distinct, Holds
<1>3. \A id \in Ids : Unanswered(id)
  BY <1>2 DEF ClientInit, Unanswered
<1> QED BY <1>1, <1>2, <1>3 DEF ConservationInv, Phase

\* The copies of module Client are those in the client's places.
LEMMA HeldIsHeld ==
  ASSUME ConservationInv
  PROVE  /\ OneCopyEach
         /\ \A id : id \in HeldIds => Holds(Content, id)
         /\ \A id : Holds(Content, id) /\ ~InSocket(id) => id \in HeldIds
<1>1. \A place \in Places : place \in AllPlaces /\ Content[place] = Contents(place)
  <2>1. \A place \in Places : place # <<"socket">>
    BY DEF Places
  <2> QED BY <2>1 DEF AllPlaces, Content
<1>2. \A x : x \in AllCopies <=>
        \E place \in Places : \E n \in DOMAIN Content[place] :
          x = <<place, n, Content[place][n]>>
  BY <1>1 DEF AllCopies
<1>3. OneCopyEach
  <2> SUFFICES ASSUME NEW x \in AllCopies, NEW y \in AllCopies,
                      x[3].eventId = y[3].eventId
               PROVE  x = y
    BY DEF OneCopyEach
  <2>1. PICK p \in Places : \E n \in DOMAIN Content[p] :
          x = <<p, n, Content[p][n]>>
    BY <1>2
  <2>2. PICK n \in DOMAIN Content[p] : x = <<p, n, Content[p][n]>>
    BY <2>1
  <2>3. PICK q \in Places : \E k \in DOMAIN Content[q] :
          y = <<q, k, Content[q][k]>>
    BY <1>2
  <2>4. PICK k \in DOMAIN Content[q] : y = <<q, k, Content[q][k]>>
    BY <2>3
  <2>5. p = q /\ n = k
    BY <1>1, <2>2, <2>4 DEF ConservationInv, Distinct
  <2> QED BY <2>2, <2>4, <2>5
<1>4. ASSUME NEW id, id \in HeldIds PROVE Holds(Content, id)
  <2>1. PICK x \in AllCopies : x[3].eventId = id
    BY <1>4 DEF HeldIds
  <2>2. PICK p \in Places : \E n \in DOMAIN Content[p] :
          x = <<p, n, Content[p][n]>>
    BY <1>2
  <2>3. \E n \in DOMAIN Content[p] : Content[p][n].eventId = id
    BY <2>1, <2>2
  <2> QED BY <1>1, <2>3 DEF Holds
<1>5. ASSUME NEW id, Holds(Content, id), ~InSocket(id) PROVE id \in HeldIds
  <2>1. PICK p \in AllPlaces : \E n \in DOMAIN Content[p] :
          Content[p][n].eventId = id
    BY <1>5 DEF Holds
  <2>2. PICK n \in DOMAIN Content[p] : Content[p][n].eventId = id
    BY <2>1
  <2>3. p # <<"socket">>
    BY <1>5, <2>2, ContentAt DEF InSocket
  <2>4. p \in Places
    BY <2>3 DEF AllPlaces
  <2>5. <<p, n, Content[p][n]>> \in AllCopies
    BY <1>2, <2>4
  <2> QED BY <2>2, <2>5 DEF HeldIds
<1> QED BY <1>3, <1>4, <1>5

\* ConservationInv is an invariant of the client (client.c:588-655, 765-990).
THEOREM ConservationInvariant == ClientSpec => []ConservationInv
BY ConservationInit, ConservationStep, PTL DEF ClientSpec

\* An event acknowledged is in one of these phases, hence in one place at most.
LEMMA Conserved == ConservationInv => EventConserved
<1> SUFFICES ASSUME ConservationInv, NEW id \in Ids, replies[id] # << >>
             PROVE  /\ id \in HeldIds \/ id \in dropped \/ Reported(id) # {}
                    /\ id \in dropped => id \notin HeldIds /\ Reported(id) = {}
                    /\ Reported(id) # {} => id \notin HeldIds
  BY HeldIsHeld DEF EventConserved
<1>1. CASE Accepted(id)
  <2>1. Reported(id) = {}
    BY <1>1, RepliesReport DEF Accepted
  <2>2. id \in HeldIds <=> Holds(Content, id)
    BY <1>1, HeldIsHeld DEF Accepted, New
  <2> QED BY <1>1, <2>1, <2>2 DEF Accepted
<1>2. CASE Answered(id)
  <2>1. Reported(id) # {}
    BY <1>2, RepliesReport DEF Answered
  <2>2. id \notin HeldIds
    BY <1>2, HeldIsHeld DEF Answered
  <2> QED BY <1>2, <2>1, <2>2 DEF Answered
<1> QED BY <1>1, <1>2 DEF ConservationInv, Phase, Unanswered

\* The server has one acknowledgement of it, then one completion at most.
LEMMA InOrder == ConservationInv => AckThenOneCompletion
BY DEF ConservationInv, Phase, Unanswered, Accepted, Answered,
       AckThenOneCompletion

\* No event is duplicated or vanishes between the tasks of the client, for any
\* number of events, vehicles and retries and any length of the queues.
THEOREM EventsAreConserved == ClientSpec => []EventConserved
BY Conserved, ConservationInvariant, PTL

\* The server hears of an event one acknowledgement, from the receive task, and
\* after it at most one completion, from a vehicle or the fault manager.
THEOREM AnswersAreInOrder == ClientSpec => []AckThenOneCompletion
BY InOrder, ConservationInvariant, PTL

-----------------------------------------------------------------------------
(***************************************************************************)
(* Module Client implements EventLifecycle: what the client does with an   *)
(* event is a step in the life of that event.  The fate and the retries of *)
(* an event are those of its only copy while the client holds one, and     *)
(* follow from the client's datagrams and log after that.                  *)
(***************************************************************************)

(* What the state says of an event *)

\* The copy of an event is the one EventLifecycle looks at.
OnlyCopy ==
  \A m : Has(Content, m) =>
    /\ m.eventId \in HeldIds
    /\ RetryCount(m.eventId) = m.retryCount

\* Without a copy there are no retries to count.
NoCopy ==
  \A id : (\A m : Has(Content, m) => m.eventId # id) =>
    id \notin HeldIds /\ RetryCount(id) = 0

\* Both follow from the places the events are at.
LEMMA CopiesTell == ConservationInv => OnlyCopy /\ NoCopy
<1> SUFFICES ASSUME ConservationInv PROVE OnlyCopy /\ NoCopy
  OBVIOUS
<1>1. \A place \in Places : Content[place] = Contents(place)
  <2>1. \A place \in Places : place # <<"socket">> /\ place \in AllPlaces
    BY DEF Places, AllPlaces
  <2> QED BY <2>1 DEF Content
<1>2. \A x : x \in AllCopies <=>
        \E place \in Places : \E n \in DOMAIN Content[place] :
          x = <<place, n, Content[place][n]>>
  BY <1>1 DEF AllCopies
<1>3. \A x \in AllCopies : Has(Content, x[3])
  BY <1>2 DEF Has
<1>4. ASSUME NEW m, Has(Content, m)
      PROVE  m.eventId \in HeldIds /\ RetryCount(m.eventId) = m.retryCount
  <2>1. PICK x \in AllCopies : x[3] = m
    <3>1. PICK p \in Places : \E n \in DOMAIN Content[p] : Content[p][n] = m
      BY <1>4 DEF Has
    <3>2. PICK n \in DOMAIN Content[p] : Content[p][n] = m
      BY <3>1
    <3>3. <<p, n, Content[p][n]>> \in AllCopies
      BY <1>2
    <3> QED BY <3>2, <3>3
  <2>2. m.eventId \in HeldIds
    BY <2>1 DEF HeldIds
  <2>3. \A y \in AllCopies : y[3].eventId = m.eventId => y = x
    BY <2>1, HeldIsHeld DEF OneCopyEach
  <2>4. Copies(m.eventId) = {x}
    BY <2>1, <2>3 DEF Copies
  <2>5. RetryCount(m.eventId) = m.retryCount
    BY <2>1, <2>4 DEF RetryCount
  <2> QED BY <2>2, <2>5
<1>5. ASSUME NEW id, \A m : Has(Content, m) => m.eventId # id
      PROVE  id \notin HeldIds /\ RetryCount(id) = 0
  <2>1. \A x \in AllCopies : x[3].eventId # id
    BY <1>3, <1>5
  <2>2. Copies(id) = {}
    BY <2>1 DEF Copies
  <2> QED BY <2>1, <2>2 DEF HeldIds, RetryCount
<1> QED BY <1>4, <1>5 DEF OnlyCopy, NoCopy

\* The same of the next state.
LEMMA CopiesTellNext == (ConservationInv => OnlyCopy /\ NoCopy)'
BY CopiesTell, PTL

\* Fate and retries of an event the client holds, and of one it does not.
LifeIs ==
  \A id \in Ids :
    /\ \A m : Has(Content, m) /\ m.eventId = id =>
         Fate(id) = "accepted" /\ RetryCount(id) = m.retryCount
    /\ (\A m : Has(Content, m) => m.eventId # id) =>
         /\ RetryCount(id) = 0
         /\ Unanswered(id) => Fate(id) = "unknown"
         /\ id \in dropped => Fate(id) = "lost"
         /\ \A outcome \in Outcomes :
              id \notin dropped /\ Reported(id) = {outcome}
                => Fate(id) = outcome

\* It follows from the invariant.
LEMMA LifeTells == ConservationInv => LifeIs
<1> SUFFICES ASSUME ConservationInv, NEW id \in Ids
             PROVE  LifeIs!(id)
  BY DEF LifeIs
<1>1. OnlyCopy /\ NoCopy
  BY CopiesTell
<1>2. ASSUME NEW m, Has(Content, m), m.eventId = id
      PROVE  Fate(id) = "accepted" /\ RetryCount(id) = m.retryCount
  <2>1. id \in HeldIds /\ RetryCount(id) = m.retryCount
    BY <1>1, <1>2 DEF OnlyCopy
  <2>2. Holds(Content, id)
    BY <2>1, HeldIsHeld
  <2>3. id \notin dropped /\ Reported(id) = {}
    BY <2>2, RepliesTell
    DEF ConservationInv, Phase, Unanswered, Accepted, Answered,
        ReportedOnceOrNever
  <2> QED BY <2>1, <2>3 DEF Fate
<1>3. ASSUME \A m : Has(Content, m) => m.eventId # id
      PROVE  /\ RetryCount(id) = 0
             /\ Unanswered(id) => Fate(id) = "unknown"
             /\ id \in dropped => Fate(id) = "lost"
             /\ \A outcome \in Outcomes :
                  id \notin dropped /\ Reported(id) = {outcome}
                    => Fate(id) = outcome
  <2>1. RetryCount(id) = 0 /\ id \notin HeldIds
    BY <1>1, <1>3 DEF NoCopy
  <2>2. Unanswered(id) => Fate(id) = "unknown"
    BY <2>1, RepliesTell DEF Unanswered, ReportedOnceOrNever, Fate
  <2>3. id \in dropped => Fate(id) = "lost"
    BY DEF Fate
  <2>4. ASSUME NEW outcome \in Outcomes,
               id \notin dropped, Reported(id) = {outcome}
        PROVE  Fate(id) = outcome
    <3>1. (CHOOSE o \in {outcome} : TRUE) = outcome
      OBVIOUS
    <3> QED BY <2>4, <3>1 DEF Fate
  <2> QED BY <2>1, <2>2, <2>3, <2>4
<1> QED BY <1>2, <1>3

\* The same of the next state.
LEMMA LifeTellsNext == (ConservationInv => LifeIs)'
BY LifeTells, PTL

-----------------------------------------------------------------------------
(* Every step of the client is a step in the life of an event *)

\* Life does not go on for an event whose copy, if any, stays as it is.
LEMMA SameLife ==
  ASSUME ConservationInv, ConservationInv', NEW id \in Ids,
         \A x : x.eventId = id => (Has(Content', x) <=> Has(Content, x)),
         id \in dropped' <=> id \in dropped,
         Reported(id)' = Reported(id)
  PROVE  Fate(id)' = Fate(id) /\ RetryCount(id)' = RetryCount(id)
<1>1. /\ OnlyCopy /\ NoCopy
      /\ \A m : Has(Content', m) =>
            /\ m.eventId \in HeldIds'
            /\ RetryCount(m.eventId)' = m.retryCount
      /\ \A e : (\A m : Has(Content', m) => m.eventId # e) =>
            e \notin HeldIds' /\ RetryCount(e)' = 0
  BY CopiesTell, CopiesTellNext DEF OnlyCopy, NoCopy
<1>2. CASE \E m : Has(Content, m) /\ m.eventId = id
  <2>1. PICK m : Has(Content, m) /\ m.eventId = id
    BY <1>2
  <2>2. Has(Content', m)
    BY <2>1
  <2>3. id \in HeldIds /\ RetryCount(id) = m.retryCount
    BY <1>1, <2>1 DEF OnlyCopy
  <2>4. id \in HeldIds' /\ RetryCount(id)' = m.retryCount
    BY <1>1, <2>1, <2>2
  <2> QED BY <2>3, <2>4 DEF Fate
<1>3. CASE ~ \E m : Has(Content, m) /\ m.eventId = id
  <2>1. id \notin HeldIds /\ RetryCount(id) = 0
    BY <1>1, <1>3 DEF NoCopy
  <2>2. id \notin HeldIds' /\ RetryCount(id)' = 0
    BY <1>1, <1>3
  <2> QED BY <2>1, <2>2 DEF Fate
<1> QED BY <1>2, <1>3

\* The variables of EventLifecycle.
Fates == [id \in Ids |-> Fate(id)]
Tries == [id \in Ids |-> RetryCount(id)]

\* A step that concerns one event only.
LEMMA OneLife ==
  ASSUME ConservationInv, ConservationInv', NEW one \in Ids,
         \A x : x.eventId # one => (Has(Content', x) <=> Has(Content, x)),
         \A id \in Ids \ {one} : /\ id \in dropped' <=> id \in dropped
                               /\ Reported(id)' = Reported(id)
  PROVE  /\ Fates' = [Fates EXCEPT ![one] = Fate(one)']
         /\ Tries' = [Tries EXCEPT ![one] = RetryCount(one)']
<1>1. ASSUME NEW id \in Ids \ {one}
      PROVE  Fate(id)' = Fate(id) /\ RetryCount(id)' = RetryCount(id)
  BY SameLife
<1>2. /\ Fates' = [id \in Ids |-> Fate(id)']
      /\ Tries' = [id \in Ids |-> RetryCount(id)']
  BY DEF Fates, Tries
<1> QED BY <1>1, <1>2 DEF Fates, Tries

\* Nothing becomes of any event.
LEMMA QuietLife ==
  ASSUME ConservationInv, ConservationInv', Quiet
  PROVE  UNCHANGED <<Fates, Tries>>
<1>1. ASSUME NEW id \in Ids
      PROVE  Fate(id)' = Fate(id) /\ RetryCount(id)' = RetryCount(id)
  <2>1. /\ \A x : x.eventId = id => (Has(Content', x) <=> Has(Content, x))
        /\ id \in dropped' <=> id \in dropped
        /\ Reported(id)' = Reported(id)
    BY DEF Quiet, CopiesStay
  <2> QED BY <2>1, SameLife
<1> QED BY <1>1 DEF Fates, Tries

\* An event that arrives is accepted.
LEMMA AcceptedLife ==
  ASSUME ConservationInv, ConservationInv', ArrivesOne
  PROVE  \E id \in Ids : Lifecycle!Accept(id)
<1>1. PICK m \in Events :
        /\ Unanswered(m.eventId)
        /\ \A x : Has(Content, x) => x.eventId # m.eventId
        /\ Relocated(m)
        /\ UNCHANGED historyVars
  BY DEF ArrivesOne
<1> DEFINE id == m.eventId
<1>2. id \in Ids /\ m.retryCount = 0
  BY ClientAssumption DEF Ids
<1>3. LifeIs /\ LifeIs'
  BY LifeTells, LifeTellsNext
<1>4. Fate(id) = "unknown" /\ RetryCount(id) = 0
  BY <1>1, <1>2, <1>3 DEF LifeIs
<1>5. Has(Content', m)
  BY <1>1 DEF Relocated
<1>6. Fate(id)' = "accepted" /\ RetryCount(id)' = 0
  BY <1>2, <1>3, <1>5 DEF LifeIs
<1>7. /\ Fates' = [Fates EXCEPT ![id] = Fate(id)']
      /\ Tries' = [Tries EXCEPT ![id] = RetryCount(id)']
  <2>1. \A x : x.eventId # id => (Has(Content', x) <=> Has(Content, x))
    BY <1>1 DEF Relocated
  <2>2. \A e \in Ids : /\ e \in dropped' <=> e \in dropped
                       /\ Reported(e)' = Reported(e)
    BY <1>1 DEF historyVars, Reported
  <2> QED BY <1>2, <2>1, <2>2, OneLife
<1>8. Tries' = Tries
  BY <1>2, <1>4, <1>6, <1>7 DEF Tries
<1>9. Lifecycle!Accept(id)
  BY <1>2, <1>4, <1>6, <1>7, <1>8 DEF Lifecycle!Accept, Fates, Tries
<1> QED BY <1>2, <1>9

\* An attempt used up is one more retry.
LEMMA RetriedLife ==
  ASSUME ConservationInv, ConservationInv', RetriesOne
  PROVE  \E id \in Ids : Lifecycle!Retry(id)
<1>1. PICK m \in Retried, again \in Retried :
        /\ Has(Content, m) /\ m.retryCount < MAX_EVENT_RETRIES
        /\ again.eventId = m.eventId /\ again.retryCount = m.retryCount + 1
        /\ Relocated(again)
        /\ UNCHANGED historyVars
  BY DEF RetriesOne
<1> DEFINE id == m.eventId
<1>2. id \in Ids
  BY RetriedIds
<1>3. LifeIs /\ LifeIs'
  BY LifeTells, LifeTellsNext
<1>4. Fate(id) = "accepted" /\ RetryCount(id) = m.retryCount
  BY <1>1, <1>2, <1>3 DEF LifeIs
<1>5. Has(Content', again) /\ again.eventId = id
  BY <1>1 DEF Relocated
<1>6. Fate(id)' = "accepted" /\ RetryCount(id)' = m.retryCount + 1
  <2>1. RetryCount(id)' = again.retryCount /\ Fate(id)' = "accepted"
    BY <1>2, <1>3, <1>5 DEF LifeIs
  <2> QED BY <1>1, <2>1
<1>7. /\ Fates' = [Fates EXCEPT ![id] = Fate(id)']
      /\ Tries' = [Tries EXCEPT ![id] = RetryCount(id)']
  <2>1. \A x : x.eventId # id => (Has(Content', x) <=> Has(Content, x))
    BY <1>1 DEF Relocated
  <2>2. \A e \in Ids : /\ e \in dropped' <=> e \in dropped
                       /\ Reported(e)' = Reported(e)
    BY <1>1 DEF historyVars, Reported
  <2> QED BY <1>2, <2>1, <2>2, OneLife
<1>8. Fates' = Fates
  BY <1>2, <1>4, <1>6, <1>7 DEF Fates
<1>9. Tries' = [Tries EXCEPT ![id] = @ + 1]
  BY <1>2, <1>4, <1>6, <1>7 DEF Tries
<1>10. Lifecycle!Retry(id)
  BY <1>1, <1>2, <1>4, <1>8, <1>9 DEF Lifecycle!Retry, Fates, Tries
<1> QED BY <1>2, <1>10

\* Nothing is left of an event the client has given away.
LEMMA LastOfIt ==
  ASSUME ConservationInv, NEW id \in Ids, Accepted(id), Holds(Content, id),
         Removed(id)
  PROVE  /\ Fate(id) = "accepted" /\ id \notin dropped
         /\ \E m : Has(Content, m) /\ m.eventId = id
         /\ \A m : Has(Content', m) => m.eventId # id
         /\ \A x : x.eventId # id => (Has(Content', x) <=> Has(Content, x))
<1>1. id \in HeldIds
  BY HeldIsHeld DEF Accepted, New
<1>2. id \notin dropped
  BY DEF Accepted
<1>3. Reported(id) = {}
  BY RepliesTell DEF Accepted, ReportedOnceOrNever
<1>4. Fate(id) = "accepted"
  BY <1>1, <1>2, <1>3 DEF Fate
<1>5. \E m : Has(Content, m) /\ m.eventId = id
  BY <1>1, CopiesTell DEF NoCopy
<1> QED BY <1>2, <1>4, <1>5 DEF Removed

\* An event that is dropped is lost.
LEMMA LostLife ==
  ASSUME ConservationInv, ConservationInv', LosesOne
  PROVE  \E id \in Ids : Lifecycle!Lose(id)
<1>1. PICK id \in Ids : /\ Accepted(id) /\ Holds(Content, id)
                        /\ Removed(id)
                        /\ dropped' = dropped \cup {id}
                        /\ UNCHANGED replies
  BY DEF LosesOne
<1>2. /\ Fate(id) = "accepted"
      /\ \A m : Has(Content', m) => m.eventId # id
      /\ \A x : x.eventId # id => (Has(Content', x) <=> Has(Content, x))
  BY <1>1, LastOfIt
<1>3. Fate(id)' = "lost" /\ RetryCount(id)' = 0
  BY <1>1, <1>2, LifeTellsNext DEF LifeIs
<1>4. \A e \in Ids \ {id} : /\ e \in dropped' <=> e \in dropped
                            /\ Reported(e)' = Reported(e)
  BY <1>1 DEF Reported
<1>5. /\ Fates' = [Fates EXCEPT ![id] = "lost"]
      /\ Tries' = [Tries EXCEPT ![id] = 0]
  BY <1>2, <1>3, <1>4, OneLife
<1>6. Lifecycle!Lose(id)
  BY <1>2, <1>5 DEF Lifecycle!Lose, Lifecycle!Leave, Fates, Tries
<1> QED BY <1>6

\* An event that is reported leaves with that outcome.
LEMMA ReportedLife ==
  ASSUME ConservationInv, ConservationInv', ReportsOne
  PROVE  \E id \in Ids : \E outcome \in Outcomes :
           Lifecycle!Report(id, outcome)
<1>1. PICK id \in Ids, outcome \in Outcomes :
        /\ Accepted(id) /\ Holds(Content, id)
        /\ Removed(id)
        /\ Send(Completion(id, outcome))
        /\ UNCHANGED dropped
        /\ outcome = STATUS_FAILED =>
             \E m : /\ Has(Content, m)
                    /\ m.eventId = id /\ m.retryCount = MAX_EVENT_RETRIES
  BY DEF ReportsOne
<1>2. /\ Fate(id) = "accepted" /\ id \notin dropped
      /\ \A m : Has(Content', m) => m.eventId # id
      /\ \A x : x.eventId # id => (Has(Content', x) <=> Has(Content, x))
  BY <1>1, LastOfIt
<1>3. /\ replies'[id] = <<Ack(id), Completion(id, outcome)>>
      /\ \A e \in Ids \ {id} : replies'[e] = replies[e]
  <2>1. replies' = [replies EXCEPT ![id] = Append(@, Completion(id, outcome))]
    BY <1>1 DEF Send, Completion
  <2>2. replies \in [Ids -> Seq(ClientMessage)] /\ replies[id] = <<Ack(id)>>
    BY <1>1 DEF ConservationInv, ClientInv, Accepted
  <2>3. replies'[id] = Append(<<Ack(id)>>, Completion(id, outcome))
    BY <2>1, <2>2
  <2> QED BY <2>1, <2>2, <2>3, SecondAppended
<1>4. Reported(id)' = {outcome}
  BY <1>3, RepliesTellNext DEF ReportedOnceOrNever
<1>5. Fate(id)' = outcome /\ RetryCount(id)' = 0
  BY <1>1, <1>2, <1>4, LifeTellsNext DEF LifeIs
<1>6. \A e \in Ids \ {id} : /\ e \in dropped' <=> e \in dropped
                            /\ Reported(e)' = Reported(e)
  BY <1>1, <1>3 DEF Reported
<1>7. /\ Fates' = [Fates EXCEPT ![id] = outcome]
      /\ Tries' = [Tries EXCEPT ![id] = 0]
  BY <1>2, <1>5, <1>6, OneLife
<1>8. outcome = STATUS_FAILED => RetryCount(id) = MAX_EVENT_RETRIES
  BY <1>1, LifeTells DEF LifeIs
<1>9. Lifecycle!Report(id, outcome)
  BY <1>2, <1>7, <1>8
  DEF Lifecycle!Report, Lifecycle!Leave, Fates, Tries
<1> QED BY <1>9

-----------------------------------------------------------------------------
\* A client that starts knows no event.
LEMMA LifecycleInit == ClientInit => Lifecycle!Init
<1> SUFFICES ASSUME ClientInit
             PROVE  \A id \in Ids : Fate(id) = "unknown" /\ RetryCount(id) = 0
  BY DEF Lifecycle!Init
<1> SUFFICES ASSUME NEW id \in Ids
             PROVE  Fate(id) = "unknown" /\ RetryCount(id) = 0
  OBVIOUS
<1>1. ConservationInv /\ replies[id] = << >> /\ dropped = {}
  BY ConservationInit DEF ClientInit
<1>2. \A m : ~Has(Content, m)
  BY NothingHeld DEF Has, AllPlaces
<1>3. Unanswered(id)
  BY NothingHeld, <1>1 DEF Unanswered, Holds
<1> QED BY <1>1, <1>2, <1>3, LifeTells DEF LifeIs

\* A step changes the life of one event as promised, or of none.
LEMMA LifecycleStep ==
  ConservationInv /\ [ClientNext]_clientVars
    => [Lifecycle!Next]_<<[id \in Ids |-> Fate(id)],
                          [id \in Ids |-> RetryCount(id)]>>
<1>1. ConservationInv /\ [ClientNext]_clientVars
        => [Lifecycle!Next]_<<Fates, Tries>>
  <2> SUFFICES ASSUME ConservationInv, [ClientNext]_clientVars
               PROVE  Lifecycle!Next \/ UNCHANGED <<Fates, Tries>>
    OBVIOUS
  <2>1. ConservationInv' /\ EventMoves
    BY ConservationStep
  <2> QED BY <2>1, QuietLife, AcceptedLife, RetriedLife, LostLife, ReportedLife
          DEF EventMoves, Lifecycle!Next
<1> QED BY <1>1 DEF Fates, Tries

\* The client implements the life of an event, for any number of events,
\* vehicles and retries and any length of the queues: an event it accepts is
\* retried MAX_EVENT_RETRIES times at most and leaves it once, as failed only
\* with no retry left (ClientUdpRxTask, FaultManagerTask and VehicleTask
\* together).
THEOREM ClientImplementsLifecycle == ClientSpec => ImplementsLifecycle
BY LifecycleInit, LifecycleStep, ConservationInvariant, PTL
DEF ClientSpec, ImplementsLifecycle, Lifecycle!SafetySpec
=============================================================================
