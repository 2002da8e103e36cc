------------------------- MODULE NodeRequestProofs -------------------------
(***************************************************************************)
(* Proofs about the requests of Node's publishables, for every set of      *)
(* clients and publishables, in both client modes: no request is forgotten *)
(* (PublishingIsOutstanding), and on every link the births come first      *)
(* (BirthFirst).                                                           *)
(***************************************************************************)
EXTENDS NodeProofs

USE PahoClientAssumption, NodeAssumption

----------------------------------------------------------------------------
\* What a client's methods do to its queue.

\* The requests of r are those of q, sent or resent meanwhile.
SameRequests(q, r) ==
    /\ Len(r) = Len(q)
    /\ \A i \in 1..Len(q) : /\ r[i].publisher = q[i].publisher
                            /\ r[i].isBirth = q[i].isBirth

\* Behind the front, nothing was sent.
OnlyFront(q) == \A i \in 2..Len(q) : ~q[i].sent

FrontSent(q) == q # <<>> /\ Head(q).sent

LEMMA FrontReplaced ==
    ASSUME NEW q \in Seq(Requests), q # <<>>, NEW x \in Requests,
           x.publisher = Head(q).publisher, x.isBirth = Head(q).isBirth
    PROVE  LET r == <<x>> \o Tail(q) IN
           /\ r \in Seq(Requests) /\ r # <<>> /\ Head(r) = x
           /\ SameRequests(q, r)
           /\ OnlyFront(q) => OnlyFront(r)
  <1> DEFINE r == <<x>> \o Tail(q)
  <1>1. /\ Tail(q) \in Seq(Requests) /\ Head(q) = q[1]
        /\ Len(Tail(q)) = Len(q) - 1
        /\ \A i \in 1..Len(Tail(q)) : Tail(q)[i] = q[i + 1]
    BY HeadAndTail
  <1>2. <<x>> \in Seq(Requests) /\ Len(<<x>>) = 1 /\ <<x>>[1] = x
    OBVIOUS
  <1>3. /\ r \in Seq(Requests) /\ Len(r) = 1 + Len(Tail(q))
        /\ r[1] = x
        /\ \A i \in 1..Len(Tail(q)) : r[1 + i] = Tail(q)[i]
    BY <1>1, <1>2, Extended
  <1> HIDE DEF r
  <1>4. Len(q) \in Nat \ {0} /\ Len(r) = Len(q)
    BY <1>1, <1>3, EmptySeq
  <1>5. ASSUME NEW i \in 2..Len(q) PROVE r[i] = q[i]
    <2>1. i - 1 \in 1..Len(Tail(q)) /\ 1 + (i - 1) = i /\ (i - 1) + 1 = i
      BY <1>1, <1>4
    <2> QED
      BY <1>1, <1>3, <2>1
  <1>6. r # <<>> /\ Head(r) = x
    BY <1>3, <1>4, EmptySeq
  <1>7. SameRequests(q, r)
    <2>1. \A i \in 1..Len(q) : i = 1 \/ i \in 2..Len(q)
      BY <1>4
    <2> QED
      BY <1>1, <1>3, <1>4, <1>5, <2>1 DEF SameRequests
  <1>8. OnlyFront(q) => OnlyFront(r)
    BY <1>4, <1>5 DEF OnlyFront
  <1> QED
    BY <1>3, <1>6, <1>7, <1>8 DEF r

\* A method of a client that may send the front request, and does nothing else
\* to the queue.
Sends(s, t) ==
    /\ t \in ClientRecords
    /\ SameRequests(s.queue, t.queue)
    /\ OnlyFront(s.queue) => OnlyFront(t.queue)
    /\ s.born \subseteq t.born
    /\ FrontSent(t.queue) /\ ~FrontSent(s.queue)
         => (Head(t.queue).isBirth => Head(t.queue).publisher \in t.born)

LEMMA SendsNothing ==
    ASSUME NEW s \in ClientRecords, NEW t \in ClientRecords,
           t.queue = s.queue, t.born = s.born
    PROVE  Sends(s, t)
  BY DEF Sends, SameRequests

LEMMA SetStateSends ==
    ASSUME NEW s \in ClientRecords, NEW newState \in ClientStates
    PROVE  /\ SetState(s, newState).queue = s.queue
           /\ SetState(s, newState).born = s.born
           /\ Sends(s, SetState(s, newState))
  <1>1. /\ SetState(s, newState).queue = s.queue
        /\ SetState(s, newState).born = s.born
    BY DEF SetState, ClientRecords
  <1> QED
    BY <1>1, SetStateType, SendsNothing

LEMMA ProcessFrontSends ==
    ASSUME NEW s \in ClientRecords, s.queue # <<>>, NEW accepted \in BOOLEAN
    PROVE  Sends(s, ProcessFront(s, accepted))
  <1> DEFINE t == ProcessFront(s, accepted)
             front == [Head(s.queue) EXCEPT !.sent = accepted]
             r == <<front>> \o Tail(s.queue)
             born == IF accepted /\ front.isBirth
                       THEN s.born \cup {front.publisher} ELSE s.born
  <1>1. t \in ClientRecords
    BY ProcessFrontType
  <1>2. CASE s.state = "DISCONNECTED"
    BY <1>1, <1>2, SendsNothing DEF ProcessFront
  <1>3. CASE s.state # "DISCONNECTED"
    <2>1. s.queue \in Seq(Requests) /\ Head(s.queue) \in Requests
      BY HeadAndTail DEF ClientRecords
    <2>2. /\ front \in Requests /\ front.publisher = Head(s.queue).publisher
          /\ front.isBirth = Head(s.queue).isBirth /\ front.sent = accepted
      BY <2>1 DEF Requests
    <2>3. t = [s EXCEPT !.state = "PUBLISHING_PAYLOAD", !.queue = r, !.born = born]
      BY <1>3 DEF ProcessFront
    <2> HIDE DEF front
    <2>4. /\ Head(r) = front /\ SameRequests(s.queue, r)
          /\ OnlyFront(s.queue) => OnlyFront(r)
      BY <2>1, <2>2, FrontReplaced
    <2> HIDE DEF r, t
    <2>5. /\ s.born \subseteq born
          /\ front.sent /\ front.isBirth => front.publisher \in born
      BY <2>2
    <2> HIDE DEF born
    <2>6. t.queue = r /\ t.born = born
      BY <2>3 DEF ClientRecords
    <2> QED
      BY <1>1, <2>4, <2>5, <2>6 DEF Sends, FrontSent, t
  <1> QED
    BY <1>2, <1>3

LEMMA PublishFromQueueSends ==
    ASSUME NEW c, NEW s \in ClientRecords, NEW accepted \in BOOLEAN
    PROVE  Sends(s, PublishFromQueue(c, s, accepted))
  BY ProcessFrontSends, SetStateSends, SendsNothing
     DEF PublishFromQueue, ClientStates

\* A request sent again.
LEMMA ResentSends ==
    ASSUME NEW s \in ClientRecords, FrontSent(s.queue), NEW accepted \in BOOLEAN,
           ~(Head(s.queue).retryCount >= PUBLISH_RETRIES)
    PROVE  /\ Resent(s, accepted) \in ClientRecords
           /\ SameRequests(s.queue, Resent(s, accepted).queue)
           /\ OnlyFront(s.queue) => OnlyFront(Resent(s, accepted).queue)
           /\ s.born \subseteq Resent(s, accepted).born
  <1> DEFINE front == Head(s.queue)
             again == [front EXCEPT !.retryCount = front.retryCount + 1]
             r == <<again>> \o Tail(s.queue)
             u == [s EXCEPT !.queue = r]
  <1>1. s.queue \in Seq(Requests) /\ s.queue # <<>>
    BY DEF ClientRecords, FrontSent
  <1>2. front \in Requests /\ ~(front.retryCount >= PUBLISH_RETRIES)
    BY <1>1, HeadAndTail
  <1> HIDE DEF front
  <1>3. front.retryCount \in 0..PUBLISH_RETRIES
    BY <1>2 DEF Requests
  <1>4. front.retryCount + 1 \in 0..PUBLISH_RETRIES
    BY <1>2, <1>3
  <1>5. /\ again \in Requests
        /\ again.publisher = front.publisher /\ again.isBirth = front.isBirth
    BY <1>2, <1>4 DEF Requests
  <1> HIDE DEF again
  <1>6. /\ r \in Seq(Requests) /\ r # <<>> /\ SameRequests(s.queue, r)
        /\ OnlyFront(s.queue) => OnlyFront(r)
    BY <1>1, <1>5, FrontReplaced DEF front
  <1>7. Resent(s, accepted) = ProcessFront(u, accepted)
    BY DEF Resent, r, again, front
  <1> HIDE DEF r
  <1>8. u \in ClientRecords /\ u.queue = r /\ u.born = s.born
    BY <1>6 DEF ClientRecords
  <1> HIDE DEF u
  <1>9. Sends(u, Resent(s, accepted))
    BY <1>6, <1>7, <1>8, ProcessFrontSends
  <1> QED
    BY <1>6, <1>8, <1>9 DEF Sends, SameRequests

\* PahoClient::request puts requests behind those in the queue, and may send the
\* front one.
Behind(s, requests) == [s EXCEPT !.queue = s.queue \o requests]

LEMMA RequestedSends ==
    ASSUME NEW c, NEW s \in ClientRecords, NEW requests \in Seq(Requests),
           NEW accepted \in BOOLEAN
    PROVE  /\ Behind(s, requests) \in ClientRecords
           /\ Behind(s, requests).queue = s.queue \o requests
           /\ Behind(s, requests).born = s.born
           /\ Sends(Behind(s, requests), Requested(c, s, requests, accepted))
  <1>1. s.queue \o requests \in Seq(Requests)
    BY DEF ClientRecords
  <1>2. /\ Behind(s, requests) \in ClientRecords
        /\ Behind(s, requests).queue = s.queue \o requests
        /\ Behind(s, requests).born = s.born
    BY <1>1 DEF Behind, ClientRecords
  <1>3. CASE s.queue = <<>> /\ IsConnected(c)
    <2>1. Requested(c, s, requests, accepted)
            = PublishFromQueue(c, Behind(s, requests), accepted)
      BY <1>3 DEF Requested, Behind
    <2> QED
      BY <1>2, <2>1, PublishFromQueueSends
  <1>4. CASE ~(s.queue = <<>> /\ IsConnected(c))
    <2>1. Requested(c, s, requests, accepted) = Behind(s, requests)
      BY <1>4 DEF Requested, Behind
    <2> QED
      BY <1>2, <2>1, SendsNothing
  <1> QED
    BY <1>2, <1>3, <1>4

\* The births that are requested, and the one request of Node::publish.
LEMMA BirthRequestsContent ==
    /\ BirthRequests \in Seq(Requests) /\ BirthRequests # <<>>
    /\ Len(BirthRequests) = Len(PublishOrder)
    /\ \A i \in 1..Len(BirthRequests) :
          /\ BirthRequests[i].publisher = PublishOrder[i]
          /\ BirthRequests[i].isBirth /\ ~BirthRequests[i].sent
    /\ BirthRequests[1].publisher = NodeSelf
  <1>1. Len(PublishOrder) \in Nat \ {0}
    BY EmptySeq
  <1>2. ASSUME NEW i \in 1..Len(PublishOrder)
        PROVE  /\ NewRequest(PublishOrder[i], TRUE) \in Requests
               /\ BirthRequests[i] = NewRequest(PublishOrder[i], TRUE)
    BY ElementOfSeq, NewRequestType DEF BirthRequests
  <1>3. BirthRequests \in [1..Len(PublishOrder) -> Requests]
    BY <1>2 DEF BirthRequests
  <1>4. BirthRequests \in Seq(Requests) /\ Len(BirthRequests) = Len(PublishOrder)
    BY <1>1, <1>3, FunctionIsSeq
  <1>5. ASSUME NEW i \in 1..Len(BirthRequests)
        PROVE  /\ BirthRequests[i].publisher = PublishOrder[i]
               /\ BirthRequests[i].isBirth /\ ~BirthRequests[i].sent
    <2>1. i \in 1..Len(PublishOrder)
      BY <1>4
    <2>2. BirthRequests[i] = NewRequest(PublishOrder[i], TRUE)
      BY <1>2, <2>1
    <2> QED
      BY <2>2 DEF NewRequest
  <1>6. BirthRequests # <<>> /\ 1 \in 1..Len(BirthRequests)
    BY <1>1, <1>4, EmptySeq
  <1> QED
    BY <1>4, <1>5, <1>6

LEMMA OneRequest ==
    ASSUME NEW p \in Publishables, NEW isBirth \in BOOLEAN
    PROVE  LET q == <<NewRequest(p, isBirth)>> IN
           /\ q \in Seq(Requests) /\ q # <<>> /\ Len(q) = 1
           /\ q[1].publisher = p /\ q[1].isBirth = isBirth /\ ~q[1].sent
  BY NewRequestType DEF NewRequest

----------------------------------------------------------------------------
\* PublishingIsOutstanding. With the types it is inductive: a request leaves a
\* queue only together with the event that resolves it.

Waits(q, p) == \E i \in 1..Len(q) : q[i].publisher = p

Resolves(e, p) == e.type \in {"DELIVERED", "UNDELIVERED"} /\ e.publisher = p

Outstanding(p) ==
    \/ \E c \in Clients : Waits(client[c].queue, p)
    \/ \E i \in 1..Len(eventQueue) : Resolves(eventQueue[i], p)

LEMMA OutstandingMeans ==
    /\ PublishingIsOutstanding <=> \A p \in publishing : Outstanding(p)
    /\ PublishingIsOutstanding' <=> \A p \in publishing' : Outstanding(p)'
  BY DEF PublishingIsOutstanding, Outstanding, Waits, Resolves

LEMMA SendsWaits ==
    ASSUME NEW s, NEW t, Sends(s, t), NEW p, Waits(s.queue, p)
    PROVE  Waits(t.queue, p)
  BY DEF Sends, SameRequests, Waits

LEMMA RequestedWaits ==
    ASSUME NEW c, NEW s \in ClientRecords, NEW requests \in Seq(Requests),
           NEW accepted \in BOOLEAN, NEW p,
           Waits(s.queue, p) \/ Waits(requests, p)
    PROVE  Waits(Requested(c, s, requests, accepted).queue, p)
  <1>1. s.queue \in Seq(Requests)
    BY DEF ClientRecords
  <1>2. /\ Len(s.queue \o requests) = Len(s.queue) + Len(requests)
        /\ \A i \in 1..Len(s.queue) : (s.queue \o requests)[i] = s.queue[i]
        /\ \A i \in 1..Len(requests) :
              (s.queue \o requests)[Len(s.queue) + i] = requests[i]
    BY <1>1, Extended
  <1>3. Len(s.queue) \in Nat /\ Len(requests) \in Nat
    BY <1>1
  <1>4. Waits(s.queue \o requests, p)
    <2>1. CASE Waits(s.queue, p)
      BY <1>2, <1>3, <2>1 DEF Waits
    <2>2. CASE Waits(requests, p)
      <3>1. PICK i \in 1..Len(requests) : requests[i].publisher = p
        BY <2>2 DEF Waits
      <3>2. /\ Len(s.queue) + i \in 1..Len(s.queue \o requests)
            /\ (s.queue \o requests)[Len(s.queue) + i].publisher = p
        BY <1>2, <1>3, <3>1
      <3> QED
        BY <3>2 DEF Waits
    <2> QED
      BY <2>1, <2>2
  <1>5. /\ Behind(s, requests).queue = s.queue \o requests
        /\ Sends(Behind(s, requests), Requested(c, s, requests, accepted))
    BY RequestedSends
  <1> QED
    BY <1>4, <1>5, SendsWaits

\* A step that adds events, if any, and takes no request out of a queue.
EventsKept ==
    /\ Len(eventQueue') \in Nat /\ Len(eventQueue) \in Nat
    /\ Len(eventQueue') >= Len(eventQueue)
    /\ \A i \in 1..Len(eventQueue) : eventQueue'[i] = eventQueue[i]

LEMMA SameEventsKept ==
    ASSUME ClientTypeOK, UNCHANGED eventQueue
    PROVE  EventsKept
  BY DEF EventsKept, ClientTypeOK

LEMMA AppendKept ==
    ASSUME ClientTypeOK, NEW e \in Events, eventQueue' = Append(eventQueue, e)
    PROVE  /\ EventsKept
           /\ Len(eventQueue') = Len(eventQueue) + 1
           /\ eventQueue'[Len(eventQueue) + 1] = e
  BY Appended DEF EventsKept, ClientTypeOK

LEMMA EventsKeptResolves ==
    ASSUME EventsKept, NEW p,
           \E i \in 1..Len(eventQueue) : Resolves(eventQueue[i], p)
    PROVE  \E i \in 1..Len(eventQueue') : Resolves(eventQueue'[i], p)
  BY DEF EventsKept

LEMMA StaysOutstanding ==
    ASSUME EventsKept, NEW p, Outstanding(p),
           \A c \in Clients : Waits(client[c].queue, p) => Waits(client'[c].queue, p)
    PROVE  Outstanding(p)'
  <1>1. CASE \E c \in Clients : Waits(client[c].queue, p)
    BY <1>1 DEF Outstanding, Waits
  <1>2. CASE \E i \in 1..Len(eventQueue) : Resolves(eventQueue[i], p)
    <2>1. \E i \in 1..Len(eventQueue') : Resolves(eventQueue'[i], p)
      BY <1>2, EventsKeptResolves
    <2> QED
      BY <2>1 DEF Outstanding, Resolves
  <1> QED
    BY <1>1, <1>2 DEF Outstanding

\* Queues that are left alone.
SameQueues == \A c \in Clients : client'[c].queue = client[c].queue

LEMMA SameQueuesWait ==
    ASSUME SameQueues
    PROVE  \A p : \A c \in Clients :
              Waits(client[c].queue, p) => Waits(client'[c].queue, p)
  BY DEF SameQueues

LEMMA ChangedStateSameQueues ==
    ASSUME ClientTypeOK, NEW c \in Clients, NEW newState \in ClientStates,
           client' = [client EXCEPT ![c] = SetState(client[c], newState)]
    PROVE  SameQueues
  <1>1. SetState(client[c], newState).queue = client[c].queue
    BY ClientQueue, SetStateSends
  <1> QED
    BY <1>1 DEF SameQueues, ClientTypeOK

LEMMA DeactivateFields ==
    ASSUME NEW s \in ClientRecords
    PROVE  Deactivate(s).queue = s.queue /\ Deactivate(s).born = s.born
  BY DEF Deactivate, ClientRecords

LEMMA ActivateClientFields ==
    ASSUME ClientTypeOK, NEW c \in Clients, ActivateClient(c), NEW d \in Clients
    PROVE  /\ client'[d].queue = client[d].queue
           /\ client'[d].born = client[d].born
  <1> DEFINE activated == [client[c] EXCEPT !.primary = TRUE]
  <1>1. activated.queue = client[c].queue /\ activated.born = client[c].born
    BY ClientQueue DEF ClientRecords
  <1>2. client' = client \/ client' = [client EXCEPT ![c] = activated]
    BY DEF ActivateClient
  <1> HIDE DEF activated
  <1> QED
    BY <1>1, <1>2 DEF ClientTypeOK

LEMMA DeactivateClientFields ==
    ASSUME ClientTypeOK, NEW c \in Clients, DeactivateClient(c), NEW d \in Clients
    PROVE  /\ client'[d].queue = client[d].queue
           /\ client'[d].born = client[d].born
  <1>1. /\ Deactivate(client[c]).queue = client[c].queue
        /\ Deactivate(client[c]).born = client[c].born
    BY ClientQueue, DeactivateFields
  <1>2. \/ client' = client
        \/ client' = [client EXCEPT ![c] = Deactivate(client[c])]
    BY DEF DeactivateClient
  <1> QED
    BY <1>1, <1>2 DEF ClientTypeOK

\* setActiveClient requests the births of the new client and leaves the queues of
\* the others alone.
LEMMA SetActiveClientFields ==
    ASSUME ClientTypeOK, NEW c \in Clients, NEW accepted \in BOOLEAN,
           SetActiveClient(c, accepted), NEW d \in Clients
    PROVE  /\ d = c => client'[d] = Requested(c, client[c], BirthRequests, accepted)
           /\ d # c => /\ client'[d].queue = client[d].queue
                       /\ client'[d].born = client[d].born
  <1>1. client[d] \in ClientRecords
    BY ClientQueue
  <1>2. client'[d] = IF d = c THEN Requested(c, client[c], BirthRequests, accepted)
                     ELSE IF d = activeClient THEN Deactivate(client[d])
                     ELSE client[d]
    BY DEF SetActiveClient
  <1>3. Deactivate(client[d]).queue = client[d].queue
        /\ Deactivate(client[d]).born = client[d].born
    BY <1>1, DeactivateFields
  <1> QED
    BY <1>2, <1>3

\* A request given up or delivered leaves the queue with its event.
LEMMA PopFrontOutstanding ==
    ASSUME ClientTypeOK, NEW c \in Clients, FrontIsSent(c),
           NEW type \in {"DELIVERED", "UNDELIVERED"}, NEW accepted \in BOOLEAN,
           PopFront(c, type, accepted), NEW p, Outstanding(p)
    PROVE  Outstanding(p)'
  <1> DEFINE q == client[c].queue
             popped == [client[c] EXCEPT !.queue = Tail(q)]
             event == Resolution(c, type, Head(q))
  <1>1. /\ client[c] \in ClientRecords /\ q \in Seq(Requests) /\ q # <<>>
        /\ Head(q) \in Requests /\ Head(q) = q[1] /\ Tail(q) \in Seq(Requests)
        /\ Len(Tail(q)) = Len(q) - 1
        /\ \A i \in 1..Len(Tail(q)) : Tail(q)[i] = q[i + 1]
    BY ClientQueue, HeadAndTail DEF FrontIsSent
  <1>2. popped \in ClientRecords /\ popped.queue = Tail(q)
    BY <1>1, QueueType
  <1>3. /\ event \in Events /\ event.publisher = Head(q).publisher
        /\ event.type \in {"DELIVERED", "UNDELIVERED"}
    BY <1>1, ResolutionType DEF Resolution
  <1>4. /\ client' = [client EXCEPT ![c] = PublishFromQueue(c, popped, accepted)]
        /\ eventQueue' = Append(eventQueue, event)
    BY DEF PopFront
  <1> HIDE DEF event
  <1>5. /\ EventsKept
        /\ Len(eventQueue') = Len(eventQueue) + 1
        /\ eventQueue'[Len(eventQueue) + 1] = event
    BY <1>3, <1>4, AppendKept
  <1>6. CASE p = Head(q).publisher
    <2>1. Len(eventQueue) + 1 \in 1..Len(eventQueue')
      BY <1>5 DEF EventsKept
    <2>2. Resolves(eventQueue'[Len(eventQueue) + 1], p)
      BY <1>3, <1>5, <1>6 DEF Resolves
    <2> QED
      BY <2>1, <2>2 DEF Outstanding, Resolves
  <1>7. CASE p # Head(q).publisher
    <2>1. ASSUME Waits(q, p) PROVE Waits(Tail(q), p)
      <3>1. PICK i \in 1..Len(q) : q[i].publisher = p
        BY <2>1 DEF Waits
      <3>2. i # 1
        BY <1>1, <1>7, <3>1
      <3>3. /\ Len(q) \in Nat /\ i - 1 \in 1..Len(Tail(q))
            /\ Tail(q)[i - 1] = q[i]
        BY <1>1, <3>1, <3>2
      <3> QED
        BY <3>1, <3>3 DEF Waits
    <2>2. Sends(popped, PublishFromQueue(c, popped, accepted))
      BY <1>2, PublishFromQueueSends
    <2> HIDE DEF q, popped
    <2>3. ASSUME NEW d \in Clients, Waits(client[d].queue, p)
          PROVE  Waits(client'[d].queue, p)
      <3>1. CASE d = c
        <4>1. Waits(popped.queue, p)
          BY <1>2, <2>1, <2>3, <3>1 DEF q
        <4>2. Waits(PublishFromQueue(c, popped, accepted).queue, p)
          BY <2>2, <4>1, SendsWaits
        <4> QED
          BY <1>4, <3>1, <4>2 DEF ClientTypeOK
      <3>2. CASE d # c
        BY <1>4, <2>3, <3>2 DEF ClientTypeOK
      <3> QED
        BY <3>1, <3>2
    <2> QED
      BY <1>5, <2>3, StaysOutstanding
  <1> QED
    BY <1>6, <1>7

LEMMA DeliveryOutstanding ==
    ASSUME ClientTypeOK, NEW c \in Clients, Delivery(c), NEW p, Outstanding(p)
    PROVE  Outstanding(p)'
  <1>1. PICK accepted \in BOOLEAN :
            OnDelivery(c, accepted) \/ OnDeliveryFailure(c, accepted)
    BY DEF Delivery
  <1>2. FrontIsSent(c)
    BY <1>1 DEF OnDelivery, OnDeliveryFailure
  <1>3. CASE \E type \in {"DELIVERED", "UNDELIVERED"} : PopFront(c, type, accepted)
    BY <1>2, <1>3, PopFrontOutstanding
  <1>4. CASE /\ ~(Head(client[c].queue).retryCount >= PUBLISH_RETRIES)
             /\ client' = [client EXCEPT ![c] = Resent(client[c], accepted)]
             /\ UNCHANGED eventQueue
    <2>1. client[c] \in ClientRecords /\ FrontSent(client[c].queue)
      BY <1>2, ClientQueue DEF FrontIsSent, FrontSent
    <2>2. SameRequests(client[c].queue, Resent(client[c], accepted).queue)
      BY <1>4, <2>1, ResentSends
    <2>3. \A d \in Clients : SameRequests(client[d].queue, client'[d].queue)
      BY <1>4, <2>2 DEF ClientTypeOK, SameRequests
    <2>4. \A d \in Clients :
             Waits(client[d].queue, p) => Waits(client'[d].queue, p)
      BY <2>3 DEF SameRequests, Waits
    <2>5. EventsKept
      BY <1>4, SameEventsKept
    <2> QED
      BY <2>4, <2>5, StaysOutstanding
  <1> QED
    BY <1>1, <1>3, <1>4 DEF OnDelivery, OnDeliveryFailure

\* A dumped queue becomes events.
LEMMA OnDisconnectOutstanding ==
    ASSUME ClientTypeOK, NEW c \in Clients, OnDisconnect(c), NEW p, Outstanding(p)
    PROVE  Outstanding(p)'
  <1> DEFINE q == client[c].queue
             dump == [i \in 1..Len(q) |-> Resolution(c, "UNDELIVERED", q[i])]
             event == Event(c, "DISCONNECTED")
             n == Len(eventQueue)
             m == Len(dump)
  <1>1. q \in Seq(Requests) /\ eventQueue \in Seq(Events) /\ Len(q) \in Nat
    BY ClientQueue DEF ClientTypeOK
  <1>2. dump \in Seq(Events) /\ Len(dump) = Len(q)
    BY <1>1, DumpType
  <1>3. ASSUME NEW i \in 1..Len(q), q[i].publisher = p
        PROVE  Resolves(dump[i], p)
    BY <1>3 DEF Resolves, Resolution
  <1>4. event \in Events
    BY EventType DEF EventTypes
  <1>5. eventQueue' = Append(eventQueue \o dump, event)
        /\ client' = [client EXCEPT ![c] =
                        SetState([client[c] EXCEPT !.queue = <<>>], "DISCONNECTED")]
    BY DEF OnDisconnect
  <1> HIDE DEF dump, event
  <1>6. /\ eventQueue \o dump \in Seq(Events) /\ Len(eventQueue \o dump) = n + m
        /\ \A i \in 1..n : (eventQueue \o dump)[i] = eventQueue[i]
        /\ \A i \in 1..m : (eventQueue \o dump)[n + i] = dump[i]
    <2>1. eventQueue \in Seq(Events) /\ dump \in Seq(Events)
      BY <1>1, <1>2
    <2> QED
      BY <2>1, Extended
  <1>11. n \in Nat /\ m \in Nat /\ m = Len(q)
    BY <1>1, <1>2
  <1>7. /\ Len(eventQueue') = n + m + 1
        /\ \A i \in 1..(n + m) : eventQueue'[i] = (eventQueue \o dump)[i]
    <2>1. eventQueue' = Append(eventQueue \o dump, event)
      BY <1>5
    <2>2. /\ Len(eventQueue') = Len(eventQueue \o dump) + 1
          /\ \A i \in 1..Len(eventQueue \o dump) :
                eventQueue'[i] = (eventQueue \o dump)[i]
      BY <1>4, <1>6, <2>1, Appended
    <2> QED
      BY <1>6, <2>2
  <1>8. EventsKept
    <2>1. /\ Len(eventQueue') \in Nat /\ Len(eventQueue') >= n
          /\ \A i \in 1..n : i \in 1..(n + m)
      BY <1>7, <1>11
    <2>2. \A i \in 1..n : eventQueue'[i] = eventQueue[i]
      BY <1>6, <1>7, <2>1
    <2> QED
      BY <1>11, <2>1, <2>2 DEF EventsKept
  <1> HIDE DEF n, m, q
  <1>9. CASE Waits(q, p)
    <2>1. PICK i \in 1..Len(q) : q[i].publisher = p
      BY <1>9 DEF Waits
    <2>2. n + i \in 1..Len(eventQueue') /\ eventQueue'[n + i] = dump[i]
      <3>1. /\ i \in 1..m /\ n + i \in 1..(n + m) /\ n + m + 1 \in Nat
            /\ n + i \in 1..(n + m + 1)
        BY <1>11, <2>1
      <3> QED
        BY <1>6, <1>7, <3>1
    <2>3. Resolves(eventQueue'[n + i], p)
      BY <1>3, <2>1, <2>2
    <2> QED
      BY <2>2, <2>3 DEF Outstanding, Resolves
  <1>10. CASE ~Waits(q, p)
    <2>1. \A d \in Clients :
             Waits(client[d].queue, p) => Waits(client'[d].queue, p)
      BY <1>5, <1>10 DEF ClientTypeOK, q
    <2> QED
      BY <1>8, <2>1, StaysOutstanding
  <1> QED
    BY <1>9, <1>10

LEMMA CallbackOutstanding ==
    ASSUME NodeTypeOK, PublishingIsOutstanding, NEW c \in Clients, Callback(c)
    PROVE  PublishingIsOutstanding'
  <1>1. ClientTypeOK /\ publishing' = publishing
    BY DEF NodeTypeOK, Callback, nodeVars
  <1> SUFFICES ASSUME NEW p, Outstanding(p) PROVE Outstanding(p)'
    BY <1>1, OutstandingMeans
  <1>2. CASE Connection(c)
    <2>1. SameQueues
      <3>1. CASE OnConnect(c)
        <4> DEFINE s == [client[c] EXCEPT !.born = {}]
        <4>1. s \in ClientRecords /\ s.queue = client[c].queue
          BY <1>1, ClientQueue DEF ClientRecords
        <4>2. client' = [client EXCEPT ![c] = SetState(s, "CONNECTED")]
          BY <3>1 DEF OnConnect
        <4> HIDE DEF s
        <4>3. SetState(s, "CONNECTED").queue = client[c].queue
          BY <4>1, SetStateSends DEF ClientStates
        <4> QED
          BY <1>1, <4>2, <4>3 DEF SameQueues, ClientTypeOK
      <3>2. CASE OnConnectFailure(c)
        BY <1>1, <3>2, ChangedStateSameQueues DEF OnConnectFailure, ClientStates
      <3> QED
        BY <1>2, <3>1, <3>2 DEF Connection
    <2>2. EventsKept
      <3>1. Event(c, "CONNECTED") \in Events
        BY EventType DEF EventTypes
      <3>2. \/ UNCHANGED eventQueue
            \/ eventQueue' = Append(eventQueue, Event(c, "CONNECTED"))
        BY <1>2 DEF Connection, OnConnect, OnConnectFailure
      <3> QED
        BY <1>1, <3>1, <3>2, AppendKept, SameEventsKept
    <2> QED
      BY <2>1, <2>2, SameQueuesWait, StaysOutstanding
  <1>3. CASE Subscription(c)
    <2>1. SameQueues
      BY <1>3 DEF Subscription, OnCommandSubscription, OnCommandSubscribeFailure,
                  SameQueues
    <2>2. EventsKept
      <3>1. Event(c, "ACTIVE") \in Events
        BY EventType DEF EventTypes
      <3>2. \/ UNCHANGED eventQueue
            \/ eventQueue' = Append(eventQueue, Event(c, "ACTIVE"))
        BY <1>3 DEF Subscription, OnCommandSubscription, OnCommandSubscribeFailure
      <3> QED
        BY <1>1, <3>1, <3>2, AppendKept, SameEventsKept
    <2> QED
      BY <2>1, <2>2, SameQueuesWait, StaysOutstanding
  <1>4. CASE Delivery(c)
    BY <1>1, <1>4, DeliveryOutstanding
  <1>5. CASE OnDisconnect(c)
    BY <1>1, <1>5, OnDisconnectOutstanding
  <1> QED
    BY <1>2, <1>3, <1>4, <1>5 DEF Callback

\* A lost link and the messages of the host leave the queues alone.
LEMMA LibraryOutstanding ==
    ASSUME NodeTypeOK, PublishingIsOutstanding, NEW c \in Clients,
           NEW online \in BOOLEAN, Lose(c) \/ Command(c) \/ HostMessage(c, online)
    PROVE  PublishingIsOutstanding'
  <1>1. ClientTypeOK /\ publishing' = publishing /\ client' = client
    BY DEF NodeTypeOK, Lose, LinkLost, Command, HostMessage, OnMessage
  <1>2. EventsKept
    <2>1. \/ UNCHANGED eventQueue
          \/ \E type \in {"ONLINE", "OFFLINE", "REBIRTH"} :
                eventQueue' = Append(eventQueue, Event(c, type))
      BY DEF Lose, LinkLost, Command, HostMessage, OnMessage
    <2>2. \A type \in {"ONLINE", "OFFLINE", "REBIRTH"} : Event(c, type) \in Events
      BY EventType DEF EventTypes
    <2> QED
      BY <1>1, <2>1, <2>2, AppendKept, SameEventsKept
  <1>3. SameQueues
    BY <1>1 DEF SameQueues
  <1> QED
    BY <1>1, <1>2, <1>3, SameQueuesWait, StaysOutstanding, OutstandingMeans

\* An event is processed: only Publishable::published needs it to have been
\* there, and it releases its publisher.
LEMMA ProcessOutstanding ==
    ASSUME NodeTypeOK, PublishingIsOutstanding, NEW c \in Clients,
           NEW accepted \in BOOLEAN,
           \/ ProcessConnected(c) \/ ProcessDisconnected(c) \/ ProcessResolved(c)
           \/ ProcessOnline(c) \/ ProcessOffline(c)
           \/ ProcessActive(c, accepted) \/ ProcessRebirth(c, accepted)
    PROVE  PublishingIsOutstanding'
  <1> SUFFICES ASSUME NEW p \in publishing' PROVE Outstanding(p)'
    BY OutstandingMeans
  <1> DEFINE n == Len(eventQueue)
  <1>1. ClientTypeOK /\ publishing \subseteq Publishables
    BY DEF NodeTypeOK
  <1>2. /\ eventQueue' = Tail(eventQueue) /\ eventQueue # <<>>
        /\ eventQueue \in Seq(Events)
    BY PopType DEF ProcessConnected, ProcessDisconnected, ProcessResolved,
         ProcessOnline, ProcessOffline, ProcessActive, ProcessRebirth
  <1>3. /\ n \in Nat \ {0} /\ Len(eventQueue') = n - 1
        /\ \A i \in 1..(n - 1) : eventQueue'[i] = eventQueue[i + 1]
        /\ Head(eventQueue) = eventQueue[1]
    BY <1>2, HeadAndTail, EmptySeq
  <1>4. ASSUME ~Resolves(Head(eventQueue), p),
               NEW i \in 1..n, Resolves(eventQueue[i], p)
        PROVE  Outstanding(p)'
    <2>1. i # 1
      BY <1>3, <1>4
    <2>2. i - 1 \in 1..(n - 1) /\ (i - 1) + 1 = i
      BY <1>3, <2>1
    <2>3. Resolves(eventQueue'[i - 1], p) /\ i - 1 \in 1..Len(eventQueue')
      BY <1>3, <1>4, <2>2
    <2> QED
      BY <2>3 DEF Outstanding, Resolves
  <1> HIDE DEF n
  <1>5. CASE ProcessResolved(c)
    <2>1. /\ client' = client /\ publishing' = publishing \ {Head(eventQueue).publisher}
      BY <1>5 DEF ProcessResolved
    <2>2. Outstanding(p) /\ ~Resolves(Head(eventQueue), p)
      BY <2>1, OutstandingMeans DEF Resolves
    <2> QED
      BY <1>4, <2>1, <2>2 DEF Outstanding, Waits, n
  <1>6. CASE ~ProcessResolved(c)
    <2>1. ~Resolves(Head(eventQueue), p)
      BY <1>6 DEF Resolves, Pop, ProcessConnected, ProcessDisconnected,
           ProcessOnline, ProcessOffline, ProcessActive, ProcessRebirth
    <2>2. CASE SetActiveClient(c, accepted)
      <3>1. ASSUME NEW d \in Clients, Waits(client[d].queue, p)
            PROVE  Waits(client'[d].queue, p)
        <4>1. CASE d = c
          <5>1. client'[c] = Requested(c, client[c], BirthRequests, accepted)
            BY <1>1, <2>2, SetActiveClientFields
          <5>2. Waits(Requested(c, client[c], BirthRequests, accepted).queue, p)
            BY <1>1, <3>1, <4>1, ClientQueue, BirthRequestsContent, RequestedWaits
          <5> QED
            BY <4>1, <5>1, <5>2
        <4>2. CASE d # c
          BY <1>1, <2>2, <3>1, <4>2, SetActiveClientFields
        <4> QED
          BY <4>1, <4>2
      <3>2. CASE p \in publishing
        <4>1. Outstanding(p)
          BY <3>2, OutstandingMeans
        <4> QED
          BY <1>4, <2>1, <3>1, <4>1 DEF Outstanding, Waits, n
      <3>3. CASE p \notin publishing
        <4>1. PICK i \in 1..Len(PublishOrder) : p = PublishOrder[i]
          BY <2>2, <3>3 DEF SetActiveClient
        <4>2. Waits(BirthRequests, p)
          BY <4>1, BirthRequestsContent DEF Waits
        <4>3. Waits(Requested(c, client[c], BirthRequests, accepted).queue, p)
          BY <1>1, <4>2, ClientQueue, BirthRequestsContent, RequestedWaits
        <4>4. client'[c] = Requested(c, client[c], BirthRequests, accepted)
          BY <1>1, <2>2, SetActiveClientFields
        <4> QED
          BY <4>3, <4>4 DEF Outstanding, Waits
      <3> QED
        BY <3>2, <3>3
    <2>3. CASE /\ publishing' = publishing
               /\ ActivateClient(c) \/ DeactivateClient(c) \/ client' = client
      <3>1. SameQueues
        BY <1>1, <2>3, ActivateClientFields, DeactivateClientFields DEF SameQueues
      <3>2. Outstanding(p)
        BY <2>3, OutstandingMeans
      <3> QED
        BY <1>4, <2>1, <3>1, <3>2, SameQueuesWait DEF Outstanding, Waits, n
    <2> QED
      BY <1>6, <2>2, <2>3
         DEF ProcessConnected, ProcessDisconnected, ProcessOnline, ProcessOffline,
             ProcessActive, ProcessRebirth
  <1> QED
    BY <1>5, <1>6

\* Node::publish of p puts its request in the active client's queue.
LEMMA PublishFields ==
    ASSUME NodeTypeOK, activeClient # NoClient, NEW p \in Publishables,
           NEW isBirth \in BOOLEAN, NEW accepted \in BOOLEAN,
           Publish(p, isBirth, accepted)
    PROVE  /\ activeClient \in Clients
           /\ client'[activeClient]
                = Requested(activeClient, client[activeClient],
                            <<NewRequest(p, isBirth)>>, accepted)
           /\ \A d \in Clients : d # activeClient => client'[d] = client[d]
           /\ publishing' = publishing \cup {p}
  BY DEF Publish, NodeTypeOK, ClientTypeOK

LEMMA PublishOutstanding ==
    ASSUME NodeTypeOK, PublishingIsOutstanding, activeClient # NoClient,
           NEW p \in Publishables, NEW isBirth \in BOOLEAN,
           NEW accepted \in BOOLEAN, Publish(p, isBirth, accepted),
           UNCHANGED eventQueue
    PROVE  PublishingIsOutstanding'
  <1> SUFFICES ASSUME NEW q \in publishing' PROVE Outstanding(q)'
    BY OutstandingMeans
  <1> DEFINE a == activeClient
             requests == <<NewRequest(p, isBirth)>>
             requested == Requested(a, client[a], requests, accepted)
  <1>1. /\ ClientTypeOK /\ a \in Clients /\ client'[a] = requested
        /\ \A d \in Clients : d # a => client'[d] = client[d]
        /\ publishing' = publishing \cup {p}
    BY PublishFields DEF NodeTypeOK
  <1>2. /\ requests \in Seq(Requests) /\ Len(requests) = 1
        /\ requests[1].publisher = p
    BY OneRequest
  <1>3. client[a] \in ClientRecords
    BY <1>1, ClientQueue
  <1> HIDE DEF requests, a
  <1>4. Waits(client[a].queue, q) \/ Waits(requests, q) => Waits(requested.queue, q)
    BY <1>2, <1>3, RequestedWaits
  <1> HIDE DEF requested
  <1>5. CASE q = p
    <2>1. Waits(requests, q)
      BY <1>2, <1>5 DEF Waits
    <2> QED
      BY <1>1, <1>4, <2>1 DEF Outstanding, Waits
  <1>6. CASE q # p
    <2>1. Outstanding(q)
      BY <1>1, <1>6, OutstandingMeans
    <2>2. \A d \in Clients :
             Waits(client[d].queue, q) => Waits(client'[d].queue, q)
      BY <1>1, <1>4
    <2>3. EventsKept
      BY <1>1, SameEventsKept
    <2> QED
      BY <2>1, <2>2, <2>3, StaysOutstanding
  <1> QED
    BY <1>5, <1>6

\* The other steps of execute() and of the application.
LEMMA OtherOutstanding ==
    ASSUME NodeTypeOK, PublishingIsOutstanding,
           \/ ConnectClient \/ ConnectReturns \/ SkipClient \/ EventsProcessed
           \/ Stop \/ UNCHANGED vars
    PROVE  PublishingIsOutstanding'
  <1>1. ClientTypeOK /\ publishing' = publishing /\ UNCHANGED eventQueue
    BY DEF NodeTypeOK, ConnectClient, ConnectReturns, SkipClient, EventsProcessed,
           Stop, vars, clientVars, nodeVars
  <1>2. SameQueues
    <2>1. CASE ConnectClient \/ ConnectReturns
      <3>1. Self \in Clients
        BY <2>1, OrderType DEF ConnectClient, ConnectReturns
      <3>2. client' = [client EXCEPT ![Self] = SetState(client[Self], "CONNECTING")]
        BY <2>1 DEF ConnectClient, ConnectReturns
      <3> QED
        BY <1>1, <3>1, <3>2, ChangedStateSameQueues DEF ClientStates
    <2>2. CASE SkipClient \/ EventsProcessed \/ UNCHANGED vars
      BY <2>2 DEF SkipClient, EventsProcessed, vars, clientVars, SameQueues
    <2>3. CASE Stop
      <3> SUFFICES ASSUME NEW c \in Clients
                   PROVE  client'[c].queue = client[c].queue
        BY DEF SameQueues
      <3>1. /\ Deactivate(client[c]) \in ClientRecords
            /\ Deactivate(client[c]).queue = client[c].queue
        BY <1>1, ClientQueue, DeactivateType, DeactivateFields
      <3>2. SetState(Deactivate(client[c]), "DISCONNECTING").queue = client[c].queue
        BY <3>1, SetStateSends DEF ClientStates
      <3> QED
        BY <2>3, <3>1, <3>2 DEF Stop
    <2> QED
      BY <2>1, <2>2, <2>3
  <1>3. EventsKept
    BY <1>1, SameEventsKept
  <1> QED
    BY <1>1, <1>2, <1>3, SameQueuesWait, StaysOutstanding, OutstandingMeans

LEMMA NextOutstanding ==
    NodeTypeOK /\ PublishingIsOutstanding /\ [Next]_vars
        => PublishingIsOutstanding'
  <1> SUFFICES ASSUME NodeTypeOK, PublishingIsOutstanding, [Next]_vars
               PROVE  PublishingIsOutstanding'
    OBVIOUS
  <1>1. ASSUME NEW accepted \in BOOLEAN, PublishNext(accepted)
        PROVE  PublishingIsOutstanding'
    <2>1. /\ PublishOrder[turn] \in Publishables /\ activeClient # NoClient
          /\ UNCHANGED eventQueue
      BY <1>1, OrderType DEF PublishNext, NodeTypeOK
    <2>2. CASE Publish(PublishOrder[turn], FALSE, accepted)
      BY <2>1, <2>2, PublishOutstanding
    <2>3. CASE UNCHANGED <<client, publishing>>
      BY <2>1, <2>3 DEF PublishingIsOutstanding
    <2> QED
      BY <1>1, <2>2, <2>3 DEF PublishNext
  <1>2. ASSUME NEW p \in Publishables, NEW isBirth \in BOOLEAN,
               NEW accepted \in BOOLEAN, RequestPublish(p, isBirth, accepted)
        PROVE  PublishingIsOutstanding'
    BY <1>2, PublishOutstanding DEF RequestPublish
  <1>3. CASE Execute
    BY <1>1, <1>3, ProcessOutstanding, OtherOutstanding DEF Execute
  <1>4. CASE Application
    BY <1>2, <1>4, OtherOutstanding DEF Application, Stopped
  <1>5. ASSUME NEW c \in Clients,
               \/ Callback(c) \/ Lose(c) \/ Command(c)
               \/ \E online \in BOOLEAN : HostMessage(c, online)
        PROVE  PublishingIsOutstanding'
    BY <1>5, CallbackOutstanding, LibraryOutstanding
  <1> QED
    BY <1>3, <1>4, <1>5, OtherOutstanding DEF Next

\* A publishable that is held back in PUBLISHING has a request in the queue of
\* some client, or the event that releases it is queued, for any number of
\* clients: neither dumped queues, retries given up nor a change of the active
\* client let a publishable wait for ever for something nobody will report.
THEOREM NoRequestIsForgotten == Spec => []PublishingIsOutstanding
  <1>1. Init => NodeTypeOK /\ PublishingIsOutstanding
    BY InitType DEF Init, PublishingIsOutstanding
  <1>2. NodeTypeOK /\ PublishingIsOutstanding /\ [Next]_vars
          => (NodeTypeOK /\ PublishingIsOutstanding)'
    BY NextType, NextOutstanding
  <1> QED
    BY <1>1, <1>2, PTL DEF Spec

----------------------------------------------------------------------------
\* BirthFirst. First what the client's methods keep of the order of a queue.

\* The birth of p was sent on this link, or is among the first n of the queue.
Coming(s, p, n) ==
    \/ p \in s.born
    \/ \E i \in 1..n : s.queue[i].publisher = p /\ s.queue[i].isBirth

\* DATA is behind the birth of its publishable.
BirthsAhead(s) ==
    \A i \in 1..Len(s.queue) :
        s.queue[i].isBirth \/ Coming(s, s.queue[i].publisher, i - 1)

\* The node's birth was sent, or is the one to be sent.
NodeFirst(s) ==
    NodeSelf \in s.born \/ (s.queue[1].publisher = NodeSelf /\ s.queue[1].isBirth)

\* A queue whose front was sent.
Ordered(s) ==
    NodeSelf \in s.born /\ s.queue[1].publisher \in s.born /\ BirthsAhead(s)

\* Of every publishable the birth was sent or is in the queue.
Complete(s) == \A p \in Publishables : Coming(s, p, Len(s.queue))

\* Nothing will send the front request of this queue on this link.
Stuck(q) == q # <<>> /\ ~Head(q).sent

LEMMA OrderStays ==
    ASSUME NEW s \in ClientRecords, NEW t \in ClientRecords,
           SameRequests(s.queue, t.queue), s.born \subseteq t.born
    PROVE  /\ BirthsAhead(s) => BirthsAhead(t)
           /\ s.queue # <<>> /\ Ordered(s) => Ordered(t)
           /\ Complete(s) => Complete(t)
  <1>1. s.queue \in Seq(Requests) /\ Len(s.queue) \in Nat
    BY DEF ClientRecords
  <1>2. /\ Len(t.queue) = Len(s.queue)
        /\ \A i \in 1..Len(s.queue) : /\ t.queue[i].publisher = s.queue[i].publisher
                                      /\ t.queue[i].isBirth = s.queue[i].isBirth
    BY DEF SameRequests
  <1>3. ASSUME NEW p, NEW n \in 0..Len(s.queue), Coming(s, p, n)
        PROVE  Coming(t, p, n)
    <2>1. \A i \in 1..n : i \in 1..Len(s.queue)
      BY <1>1
    <2> QED
      BY <1>2, <1>3, <2>1 DEF Coming
  <1>4. Complete(s) => Complete(t)
    <2>1. Len(s.queue) \in 0..Len(s.queue)
      BY <1>1
    <2> QED
      BY <1>2, <1>3, <2>1 DEF Complete
  <1>5. BirthsAhead(s) => BirthsAhead(t)
    <2>1. \A i \in 1..Len(s.queue) : i - 1 \in 0..Len(s.queue)
      BY <1>1
    <2> QED
      BY <1>2, <1>3, <2>1 DEF BirthsAhead
  <1>6. s.queue # <<>> => 1 \in 1..Len(s.queue)
    BY <1>1, EmptySeq
  <1> QED
    BY <1>2, <1>4, <1>5, <1>6 DEF Ordered

LEMMA ComingStays ==
    ASSUME NEW s \in ClientRecords, NEW t \in ClientRecords,
           SameRequests(s.queue, t.queue), s.born \subseteq t.born,
           NEW p, Coming(s, p, Len(s.queue))
    PROVE  Coming(t, p, Len(t.queue))
  BY DEF SameRequests, Coming

LEMMA SendsOrdered ==
    ASSUME NEW s \in ClientRecords, NEW t, Sends(s, t), ~FrontSent(s.queue),
           BirthsAhead(s), NodeFirst(s), FrontSent(t.queue)
    PROVE  Ordered(t)
  <1>1. /\ t \in ClientRecords /\ SameRequests(s.queue, t.queue)
        /\ s.born \subseteq t.born
        /\ Head(t.queue).isBirth => Head(t.queue).publisher \in t.born
    BY DEF Sends
  <1>2. BirthsAhead(t)
    BY <1>1, OrderStays
  <1>3. /\ t.queue \in Seq(Requests) /\ t.queue # <<>> /\ Head(t.queue) = t.queue[1]
        /\ s.queue \in Seq(Requests)
    BY <1>1, HeadAndTail DEF ClientRecords, FrontSent
  <1>4. 1 \in 1..Len(t.queue) /\ Len(s.queue) = Len(t.queue)
    BY <1>1, <1>3, EmptySeq DEF SameRequests
  <1>5. /\ t.queue[1].publisher = s.queue[1].publisher
        /\ t.queue[1].isBirth = s.queue[1].isBirth
    BY <1>1, <1>4 DEF SameRequests
  <1>6. t.queue[1].publisher \in t.born
    <2>1. CASE t.queue[1].isBirth
      BY <1>1, <1>3, <2>1
    <2>2. CASE ~t.queue[1].isBirth
      <3>1. Coming(t, t.queue[1].publisher, 1 - 1)
        BY <1>2, <1>4, <2>2 DEF BirthsAhead
      <3> QED
        BY <3>1 DEF Coming
    <2> QED
      BY <2>1, <2>2
  <1>7. NodeSelf \in t.born
    BY <1>1, <1>5, <1>6 DEF NodeFirst
  <1> QED
    BY <1>2, <1>6, <1>7 DEF Ordered

\* The queue behind a front request that was sent.
LEMMA TailReady ==
    ASSUME NEW s \in ClientRecords, FrontSent(s.queue), OnlyFront(s.queue)
    PROVE  LET t == [s EXCEPT !.queue = Tail(s.queue)] IN
           /\ t \in ClientRecords /\ t.queue = Tail(s.queue) /\ t.born = s.born
           /\ OnlyFront(t.queue) /\ ~FrontSent(t.queue)
           /\ Ordered(s) => /\ BirthsAhead(t) /\ NodeFirst(t)
                            /\ Complete(s) => Complete(t)
  <1> DEFINE q == s.queue
             t == [s EXCEPT !.queue = Tail(s.queue)]
  <1>1. /\ q \in Seq(Requests) /\ q # <<>> /\ Tail(q) \in Seq(Requests)
        /\ Len(Tail(q)) = Len(q) - 1
        /\ \A i \in 1..Len(Tail(q)) : Tail(q)[i] = q[i + 1]
    BY HeadAndTail DEF ClientRecords, FrontSent
  <1>2. t \in ClientRecords /\ t.queue = Tail(q) /\ t.born = s.born
    BY <1>1 DEF ClientRecords
  <1>3. Len(q) \in Nat \ {0}
    BY <1>1, EmptySeq
  <1>4. ASSUME NEW i \in 1..Len(Tail(q)) PROVE i + 1 \in 2..Len(q) /\ ~Tail(q)[i].sent
    BY <1>1, <1>3 DEF OnlyFront
  <1>5. OnlyFront(Tail(q)) /\ ~FrontSent(Tail(q))
    <2>1. \A i \in 2..Len(Tail(q)) : i \in 1..Len(Tail(q))
      BY <1>1, <1>3
    <2>2. Tail(q) # <<>> => 1 \in 1..Len(Tail(q)) /\ Head(Tail(q)) = Tail(q)[1]
      BY <1>1, EmptySeq
    <2> QED
      BY <1>4, <2>1, <2>2 DEF OnlyFront, FrontSent
  <1> HIDE DEF q, t
  <1>6. ASSUME Ordered(s), NEW p, NEW n \in 0..Len(Tail(q)), Coming(s, p, n + 1)
        PROVE  Coming(t, p, n)
    <2>1. CASE p \in s.born
      BY <1>2, <2>1 DEF Coming
    <2>2. CASE p \notin s.born
      <3>1. PICK i \in 1..(n + 1) : q[i].publisher = p /\ q[i].isBirth
        BY <1>6, <2>2 DEF Coming, q
      <3>2. i # 1
        BY <1>6, <2>2, <3>1 DEF Ordered, q
      <3>3. /\ i - 1 \in 1..n /\ i - 1 \in 1..Len(Tail(q)) /\ (i - 1) + 1 = i
        BY <1>1, <1>3, <3>1, <3>2
      <3>4. Tail(q)[i - 1] = q[i]
        BY <1>1, <3>3
      <3> QED
        BY <1>2, <3>1, <3>3, <3>4 DEF Coming
    <2> QED
      BY <2>1, <2>2
  <1>7. ASSUME Ordered(s) PROVE BirthsAhead(t)
    <2> SUFFICES ASSUME NEW i \in 1..Len(Tail(q)), ~Tail(q)[i].isBirth
                 PROVE  Coming(t, Tail(q)[i].publisher, i - 1)
      BY <1>2 DEF BirthsAhead
    <2>1. /\ i + 1 \in 1..Len(q) /\ Tail(q)[i] = q[i + 1]
          /\ i - 1 \in 0..Len(Tail(q)) /\ (i + 1) - 1 = (i - 1) + 1
      BY <1>1, <1>3
    <2>2. Coming(s, q[i + 1].publisher, (i + 1) - 1)
      BY <1>7, <2>1 DEF Ordered, BirthsAhead, q
    <2> QED
      BY <1>6, <1>7, <2>1, <2>2
  <1>8. Ordered(s) => NodeFirst(t)
    BY <1>2 DEF Ordered, NodeFirst
  <1>9. ASSUME Ordered(s), Complete(s) PROVE Complete(t)
    <2>1. Len(Tail(q)) \in 0..Len(Tail(q)) /\ Len(Tail(q)) + 1 = Len(q)
      BY <1>1, <1>3
    <2> QED
      BY <1>2, <1>6, <1>9, <2>1 DEF Complete, q
  <1> QED
    BY <1>2, <1>5, <1>7, <1>8, <1>9 DEF q, t

\* What publishBirth and publish ask a client for: requests not sent yet.
Unsent(requests) ==
    /\ requests \in Seq(Requests) /\ requests # <<>>
    /\ \A i \in 1..Len(requests) : ~requests[i].sent

\* They are births with the node's first, or DATA of publishables whose births
\* were asked for.
InOrder(s, requests) ==
    \/ /\ \A i \in 1..Len(requests) : requests[i].isBirth
       /\ requests[1].publisher = NodeSelf
    \/ Complete(s)

BirthOf(p, requests) ==
    \E i \in 1..Len(requests) : requests[i].publisher = p /\ requests[i].isBirth

LEMMA BehindOrdered ==
    ASSUME NEW s \in ClientRecords, NEW requests, Unsent(requests)
    PROVE  LET t == Behind(s, requests) IN
           /\ t.queue # <<>>
           /\ OnlyFront(s.queue) => OnlyFront(t.queue)
           /\ FrontSent(t.queue) <=> FrontSent(s.queue)
           /\ Complete(s) => Complete(t)
           /\ \A p : BirthOf(p, requests) => Coming(t, p, Len(t.queue))
           /\ InOrder(s, requests) =>
                 /\ FrontSent(s.queue) /\ Ordered(s) => Ordered(t)
                 /\ s.queue = <<>> => BirthsAhead(t) /\ NodeFirst(t)
  <1> DEFINE q == s.queue
             r == q \o requests
             t == Behind(s, requests)
             n == Len(q)
             m == Len(requests)
  <1>1. q \in Seq(Requests) /\ requests \in Seq(Requests)
    BY DEF ClientRecords, Unsent
  <1>2. /\ r \in Seq(Requests) /\ Len(r) = n + m
        /\ \A i \in 1..n : r[i] = q[i]
        /\ \A i \in 1..m : r[n + i] = requests[i]
    BY <1>1, Extended
  <1>3. /\ n \in Nat /\ m \in Nat \ {0}
        /\ q = <<>> <=> n = 0
    BY <1>1, EmptySeq DEF Unsent
  <1>4. t.queue = r /\ t.born = s.born
    BY <1>1, <1>2 DEF Behind, ClientRecords
  <1>5. ASSUME NEW i \in 1..Len(r), i \notin 1..n
        PROVE  /\ i - n \in 1..m /\ r[i] = requests[i - n]
               /\ n + (i - n) = i
    <2>1. i \in Nat /\ i > n /\ i <= n + m
      BY <1>2, <1>3, <1>5
    <2>2. i - n \in 1..m /\ n + (i - n) = i
      BY <1>3, <2>1
    <2> QED
      BY <1>2, <2>2
  <1>6. /\ r # <<>> /\ Head(r) = r[1] /\ 1 \in 1..Len(r)
        /\ q # <<>> => Head(q) = q[1] /\ 1 \in 1..n
        /\ q = <<>> => r[1] = requests[1] /\ 1 \in 1..m
    <2>1. r # <<>> /\ 1 \in 1..Len(r)
      BY <1>2, <1>3, EmptySeq
    <2>2. Head(r) = r[1]
      BY <1>2, <2>1, HeadAndTail
    <2>3. q # <<>> => Head(q) = q[1] /\ 1 \in 1..n
      BY <1>1, <1>3, HeadAndTail
    <2>4. q = <<>> => 1 \in 1..m /\ n + 1 = 1
      BY <1>3
    <2> QED
      BY <1>2, <2>1, <2>2, <2>3, <2>4
  <1> HIDE DEF q, r, t, n, m
  <1>7. FrontSent(r) <=> FrontSent(q)
    <2>1. ~requests[1].sent \/ 1 \notin 1..m
      BY DEF Unsent, m
    <2> QED
      BY <1>2, <1>6, <2>1 DEF FrontSent
  <1>8. OnlyFront(q) => OnlyFront(r)
    <2> SUFFICES ASSUME OnlyFront(q), NEW i \in 2..Len(r) PROVE ~r[i].sent
      BY DEF OnlyFront
    <2>0. i \in 1..Len(r)
      BY <1>2, <1>3
    <2>1. CASE i \in 1..n
      BY <1>2, <1>3, <2>1 DEF OnlyFront, n
    <2>2. CASE i \notin 1..n
      BY <1>5, <2>0, <2>2 DEF Unsent, m
    <2> QED
      BY <2>1, <2>2
  <1>9. ASSUME NEW p, NEW k \in 0..n, NEW l \in 0..(n + m), k <= l, Coming(s, p, k)
        PROVE  Coming(t, p, l)
    <2>1. \A i \in 1..k : i \in 1..n /\ i \in 1..l
      BY <1>3, <1>9
    <2> QED
      BY <1>2, <1>4, <1>9, <2>1 DEF Coming, q
  <1>10. ASSUME InOrder(s, requests), BirthsAhead(s) PROVE BirthsAhead(t)
    <2> SUFFICES ASSUME NEW i \in 1..Len(r), ~r[i].isBirth
                 PROVE  Coming(t, r[i].publisher, i - 1)
      BY <1>4 DEF BirthsAhead
    <2>0. i - 1 \in 0..(n + m)
      BY <1>2, <1>3
    <2>1. CASE i \in 1..n
      <3>1. i - 1 \in 0..n /\ i - 1 <= i - 1
        BY <1>3, <2>1
      <3>2. Coming(s, r[i].publisher, i - 1)
        BY <1>2, <1>10, <2>1 DEF BirthsAhead, q, n
      <3> QED
        BY <1>9, <2>0, <3>1, <3>2
    <2>2. CASE i \notin 1..n
      <3>1. i - n \in 1..m /\ r[i] = requests[i - n]
        BY <1>5, <2>2
      <3>2. Complete(s)
        BY <1>10, <3>1 DEF InOrder, m
      <3>3. r[i].publisher \in Publishables
        <4>1. r[i] \in Requests
          BY <1>2, ElementOfSeq
        <4> QED
          BY <4>1 DEF Requests
      <3>4. Coming(s, r[i].publisher, n)
        BY <3>2, <3>3 DEF Complete, n, q
      <3>5. n \in 0..n /\ n <= i - 1
        BY <1>2, <1>3, <2>2
      <3> QED
        BY <1>9, <2>0, <3>4, <3>5
    <2> QED
      BY <2>1, <2>2
  <1>11. InOrder(s, requests) /\ FrontSent(q) /\ Ordered(s) => Ordered(t)
    <2>1. q # <<>> => r[1] = q[1]
      BY <1>2, <1>6
    <2> QED
      BY <1>4, <1>10, <2>1 DEF FrontSent, Ordered, q
  <1>12. ASSUME InOrder(s, requests), q = <<>> PROVE BirthsAhead(t) /\ NodeFirst(t)
    <2>1. BirthsAhead(s)
      BY <1>3, <1>12 DEF BirthsAhead, q, n
    <2>2. NodeFirst(t)
      <3>1. CASE Complete(s)
        <4>1. Coming(s, NodeSelf, n)
          BY <3>1 DEF Complete, q, n
        <4>2. NodeSelf \in s.born
          BY <1>3, <1>12, <4>1 DEF Coming
        <4> QED
          BY <1>4, <4>2 DEF NodeFirst
      <3>2. CASE ~Complete(s)
        <4>1. requests[1].publisher = NodeSelf /\ requests[1].isBirth
          BY <1>6, <1>12, <3>2 DEF InOrder, m
        <4> QED
          BY <1>4, <1>6, <1>12, <4>1 DEF NodeFirst
      <3> QED
        BY <3>1, <3>2
    <2> QED
      BY <1>10, <1>12, <2>1, <2>2
  <1>13. Complete(s) => Complete(t)
    <2>1. n \in 0..n /\ Len(t.queue) = n + m /\ n + m \in 0..(n + m) /\ n <= n + m
      BY <1>2, <1>3, <1>4
    <2> QED
      BY <1>9, <2>1 DEF Complete, n, q
  <1>14. ASSUME NEW p, NEW i \in 1..m, requests[i].publisher = p, requests[i].isBirth
         PROVE  Coming(t, p, Len(t.queue))
    <2>1. n + i \in 1..Len(t.queue) /\ r[n + i] = requests[i]
      BY <1>2, <1>3, <1>4
    <2> QED
      BY <1>4, <1>14, <2>1 DEF Coming
  <1>15. \A p : BirthOf(p, requests) => Coming(t, p, Len(t.queue))
    BY <1>14 DEF BirthOf, m
  <1> QED
    BY <1>4, <1>6, <1>7, <1>8, <1>11, <1>12, <1>13, <1>15 DEF q, t

\* A client that was asked for them. If it cannot send them now, they wait behind
\* others, or for ever.
LEMMA RequestedOrdered ==
    ASSUME NEW c, NEW s \in ClientRecords, NEW requests, NEW accepted \in BOOLEAN,
           OnlyFront(s.queue), IsConnected(c) /\ FrontSent(s.queue) => Ordered(s),
           Unsent(requests),
           IsConnected(c) /\ ~Stuck(s.queue) => InOrder(s, requests)
    PROVE  LET t == Requested(c, s, requests, accepted) IN
           /\ OnlyFront(t.queue)
           /\ IsConnected(c) /\ FrontSent(t.queue) => Ordered(t)
           /\ ~IsConnected(c) /\ FrontSent(t.queue) => FrontSent(s.queue)
           /\ Stuck(s.queue) => Stuck(t.queue)
           /\ Complete(s) => Complete(t)
           /\ \A p : BirthOf(p, requests) => Coming(t, p, Len(t.queue))
  <1> DEFINE u == Behind(s, requests)
             t == Requested(c, s, requests, accepted)
  <1>1. u \in ClientRecords /\ Sends(u, t)
    BY RequestedSends DEF Unsent
  <1>2. /\ OnlyFront(u.queue) /\ u.queue # <<>>
        /\ FrontSent(u.queue) <=> FrontSent(s.queue)
        /\ Complete(s) => Complete(u)
        /\ \A p : BirthOf(p, requests) => Coming(u, p, Len(u.queue))
        /\ InOrder(s, requests) =>
              /\ FrontSent(s.queue) /\ Ordered(s) => Ordered(u)
              /\ s.queue = <<>> => BirthsAhead(u) /\ NodeFirst(u)
    BY BehindOrdered
  <1>3. s.queue = <<>> => ~FrontSent(s.queue) /\ ~Stuck(s.queue)
    BY DEF FrontSent, Stuck
  <1>4. Stuck(s.queue) <=> s.queue # <<>> /\ ~FrontSent(s.queue)
    BY DEF FrontSent, Stuck
  <1>5. ~(s.queue = <<>> /\ IsConnected(c)) => t = u
    BY DEF Requested, Behind
  <1>6. t.queue # <<>> /\ ~FrontSent(t.queue) => Stuck(t.queue)
    BY DEF FrontSent, Stuck
  <1> HIDE DEF u, t
  <1>7. CASE s.queue = <<>> /\ IsConnected(c)
    <2>1. /\ t \in ClientRecords /\ SameRequests(u.queue, t.queue)
          /\ u.born \subseteq t.born /\ OnlyFront(t.queue)
      BY <1>1, <1>2 DEF Sends
    <2>2. FrontSent(t.queue) => Ordered(t)
      BY <1>1, <1>2, <1>3, <1>7, SendsOrdered
    <2>3. Complete(s) => Complete(t)
      BY <1>1, <1>2, <2>1, OrderStays
    <2>4. \A p : BirthOf(p, requests) => Coming(t, p, Len(t.queue))
      BY <1>1, <1>2, <2>1, ComingStays
    <2> QED
      BY <1>3, <1>7, <2>1, <2>2, <2>3, <2>4 DEF t
  <1>8. CASE ~(s.queue = <<>> /\ IsConnected(c))
    <2>1. IsConnected(c) /\ FrontSent(t.queue) => Ordered(t)
      BY <1>2, <1>4, <1>5, <1>8
    <2> QED
      BY <1>2, <1>4, <1>5, <1>6, <1>8, <2>1 DEF t
  <1> QED
    BY <1>7, <1>8

\* Only the queue and the births sent matter.
LEMMA SameOrder ==
    ASSUME NEW s, NEW t, t.queue = s.queue, t.born = s.born
    PROVE  /\ Ordered(s) => Ordered(t)
           /\ Complete(s) => Complete(t)
  BY DEF Ordered, Complete, BirthsAhead, Coming

\* The client is active, and nothing queued will change that.
Serving(c) == Running /\ activeClient = c /\ ~Queued(c, "DISCONNECTED")

\* A client with link l: without a link nothing in its queue was sent, with one
\* what was sent is in order, and a serving client has every birth sent or in
\* its queue, or will not send what it has.
Ready(s, l, running, serving) ==
    /\ OnlyFront(s.queue)
    /\ l = "connecting" \/ (running /\ l = "down") => ~FrontSent(s.queue)
    /\ l = "up" /\ FrontSent(s.queue) => Ordered(s)
    /\ l = "up" /\ serving /\ ~Stuck(s.queue) => Complete(s)

ClientsReady ==
    \A c \in Clients : Ready(client[c], link[c], Running, Serving(c))

\* A client that has a link again was told of the loss of the previous one only
\* if its CLIENT_DISCONNECTED event will be processed before the node publishes.
NoOldNews ==
    \A c \in Clients :
        Queued(c, "DISCONNECTED") /\ link[c] # "down"
            => pc \in {"connecting", "events"} \/ (pc = "execute" /\ turn > 1)

BirthInv == ActiveInv /\ ClientsReady /\ NoOldNews

LEMMA ReadyStays ==
    ASSUME NEW s, NEW t, t.queue = s.queue, t.born = s.born,
           NEW l, NEW m, m = "up" => l = "up",
           NEW wasRunning, NEW running,
           m = "connecting" \/ (running /\ m = "down")
              => l = "connecting" \/ (wasRunning /\ l = "down"),
           NEW served, NEW serving, m = "up" /\ serving => served,
           Ready(s, l, wasRunning, served)
    PROVE  Ready(t, m, running, serving)
  <1>1. (Ordered(s) => Ordered(t)) /\ (Complete(s) => Complete(t))
    BY SameOrder
  <1> QED
    BY <1>1 DEF Ready

\* A front request is resolved, and the next one may be sent.
LEMMA ReadyPopped ==
    ASSUME NEW c, NEW s \in ClientRecords, FrontSent(s.queue),
           NEW accepted \in BOOLEAN, NEW running, NEW served, NEW serving,
           serving => served, Ready(s, link[c], running, served),
           link[c] \in {"up", "lost"}
    PROVE  LET popped == [s EXCEPT !.queue = Tail(s.queue)] IN
           Ready(PublishFromQueue(c, popped, accepted), link[c], running, serving)
  <1> DEFINE popped == [s EXCEPT !.queue = Tail(s.queue)]
             t == PublishFromQueue(c, popped, accepted)
  <1>1. OnlyFront(s.queue)
    BY DEF Ready
  <1>2. /\ popped \in ClientRecords
        /\ OnlyFront(popped.queue) /\ ~FrontSent(popped.queue)
        /\ Ordered(s) => /\ BirthsAhead(popped) /\ NodeFirst(popped)
                         /\ Complete(s) => Complete(popped)
    BY <1>1, TailReady
  <1>3. Sends(popped, t)
    BY <1>2, PublishFromQueueSends
  <1> HIDE DEF popped, t
  <1>4. /\ OnlyFront(t.queue) /\ t \in ClientRecords
        /\ SameRequests(popped.queue, t.queue) /\ popped.born \subseteq t.born
    BY <1>2, <1>3 DEF Sends
  <1>5. link[c] = "lost" => Ready(t, link[c], running, serving)
    BY <1>4 DEF Ready
  <1>6. ASSUME link[c] = "up" PROVE Ready(t, link[c], running, serving)
    <2>1. Ordered(s)
      BY <1>6 DEF Ready
    <2>2. FrontSent(t.queue) => Ordered(t)
      BY <1>2, <1>3, <2>1, SendsOrdered
    <2>3. serving => Complete(s)
      BY <1>6 DEF Ready, Stuck, FrontSent
    <2>4. Complete(popped) => Complete(t)
      BY <1>2, <1>4, OrderStays
    <2> QED
      BY <1>2, <1>4, <1>6, <2>1, <2>2, <2>3, <2>4 DEF Ready
  <1> QED
    BY <1>5, <1>6 DEF t, popped

\* The front request is sent again.
LEMMA ReadyResent ==
    ASSUME NEW c, NEW s \in ClientRecords, FrontSent(s.queue),
           ~(Head(s.queue).retryCount >= PUBLISH_RETRIES),
           NEW accepted \in BOOLEAN, NEW running, NEW served, NEW serving,
           serving => served, Ready(s, link[c], running, served),
           link[c] = "up"
    PROVE  Ready(Resent(s, accepted), link[c], running, serving)
  <1> DEFINE t == Resent(s, accepted)
  <1>1. /\ t \in ClientRecords /\ SameRequests(s.queue, t.queue)
        /\ OnlyFront(s.queue) => OnlyFront(t.queue)
        /\ s.born \subseteq t.born
    BY ResentSends
  <1> HIDE DEF t
  <1>2. /\ s.queue # <<>> /\ Ordered(s) => Ordered(t)
        /\ Complete(s) => Complete(t)
    BY <1>1, OrderStays
  <1>3. s.queue # <<>> /\ ~Stuck(s.queue)
    BY DEF FrontSent, Stuck
  <1> QED
    BY <1>1, <1>2, <1>3 DEF Ready, t

\* Births or DATA are requested.
LEMMA ReadyRequested ==
    ASSUME NEW c, NEW s \in ClientRecords, NEW requests, Unsent(requests),
           NEW accepted \in BOOLEAN, NEW running, NEW served, NEW serving,
           Ready(s, link[c], running, served),
           IsConnected(c) /\ ~Stuck(s.queue) => InOrder(s, requests),
           \/ \A p \in Publishables : BirthOf(p, requests)
           \/ serving => served
    PROVE  Ready(Requested(c, s, requests, accepted), link[c], running, serving)
  <1> DEFINE t == Requested(c, s, requests, accepted)
  <1>1. /\ OnlyFront(s.queue)
        /\ IsConnected(c) /\ FrontSent(s.queue) => Ordered(s)
    BY DEF Ready, IsConnected
  <1>2. /\ OnlyFront(t.queue)
        /\ IsConnected(c) /\ FrontSent(t.queue) => Ordered(t)
        /\ ~IsConnected(c) /\ FrontSent(t.queue) => FrontSent(s.queue)
        /\ Stuck(s.queue) => Stuck(t.queue)
        /\ Complete(s) => Complete(t)
        /\ \A p : BirthOf(p, requests) => Coming(t, p, Len(t.queue))
    BY <1>1, RequestedOrdered
  <1> HIDE DEF t
  <1>3. CASE \A p \in Publishables : BirthOf(p, requests)
    <2>1. Complete(t)
      BY <1>2, <1>3 DEF Complete
    <2> QED
      BY <1>2, <2>1 DEF Ready, IsConnected, t
  <1>4. CASE serving => served
    BY <1>2, <1>4 DEF Ready, IsConnected, t
  <1> QED
    BY <1>3, <1>4

----------------------------------------------------------------------------
\* BirthFirst. Then the steps.

LEMMA ServingStays ==
    ASSUME EventsKept, UNCHANGED activeClient, Running' => Running, NEW c
    PROVE  Serving(c)' => Serving(c)
  BY DEF EventsKept, Serving, Queued

\* No step here changes a queue or the births sent, or gives a client a link.
LEMMA FramedReady ==
    ASSUME ClientsReady, Running' => Running,
           \A d \in Clients :
              /\ client'[d].queue = client[d].queue
              /\ client'[d].born = client[d].born
              /\ link'[d] = "up" => link[d] = "up"
              /\ link'[d] = "connecting" \/ (Running' /\ link'[d] = "down")
                    => \/ link[d] = "connecting"
                       \/ Running /\ link[d] = "down"
              /\ Serving(d)' => Serving(d)
    PROVE  ClientsReady'
  <1> SUFFICES ASSUME NEW d \in Clients
               PROVE  Ready(client'[d], link'[d], Running', Serving(d)')
    BY DEF ClientsReady
  <1>1. Ready(client[d], link[d], Running, Serving(d))
    BY DEF ClientsReady
  <1> QED
    BY <1>1, ReadyStays

\* One client does the step.
LEMMA OneClientReady ==
    ASSUME ClientTypeOK, ClientsReady, Running' => Running, NEW c \in Clients,
           Ready(client'[c], link'[c], Running', Serving(c)'),
           \A d \in Clients : d # c =>
              /\ client'[d].queue = client[d].queue
              /\ client'[d].born = client[d].born
              /\ link'[d] = link[d]
              /\ Serving(d)' => Serving(d)
    PROVE  ClientsReady'
  <1> SUFFICES ASSUME NEW d \in Clients, d # c
               PROVE  Ready(client'[d], link'[d], Running', Serving(d)')
    BY DEF ClientsReady
  <1>1. Ready(client[d], link[d], Running, Serving(d))
    BY DEF ClientsReady
  <1> QED
    BY <1>1, ReadyStays

LEMMA NoOldNewsStays ==
    ASSUME NoOldNews, UNCHANGED <<pc, turn>>,
           \A d \in Clients : Queued(d, "DISCONNECTED")' /\ link'[d] # "down"
              => Queued(d, "DISCONNECTED") /\ link[d] # "down"
    PROVE  NoOldNews'
  BY DEF NoOldNews

\* Events of c put behind the queued ones, its CLIENT_DISCONNECTED only when it
\* has no link.
NewsOf(c) ==
    /\ EventsKept
    /\ \A i \in 1..Len(eventQueue') :
          i > Len(eventQueue)
              => /\ eventQueue'[i].client = c
                 /\ eventQueue'[i].type = "DISCONNECTED" => link'[c] = "down"

LEMMA NewsOfQueued ==
    ASSUME NEW c, NewsOf(c), NEW d
    PROVE  Queued(d, "DISCONNECTED")'
              => \/ Queued(d, "DISCONNECTED")
                 \/ d = c /\ link'[d] = "down"
  <1> SUFFICES ASSUME NEW i \in 1..Len(eventQueue'), eventQueue'[i].client = d,
                      eventQueue'[i].type = "DISCONNECTED"
               PROVE  \/ Queued(d, "DISCONNECTED")
                      \/ d = c /\ link'[d] = "down"
    BY DEF Queued
  <1>1. CASE i > Len(eventQueue)
    BY <1>1 DEF NewsOf
  <1>2. CASE ~(i > Len(eventQueue))
    <2>1. i \in 1..Len(eventQueue) /\ eventQueue'[i] = eventQueue[i]
      BY <1>2 DEF NewsOf, EventsKept
    <2> QED
      BY <2>1 DEF Queued
  <1> QED
    BY <1>1, <1>2

LEMMA NoNews ==
    ASSUME ClientTypeOK, UNCHANGED eventQueue, NEW c
    PROVE  NewsOf(c)
  BY SameEventsKept DEF NewsOf, EventsKept

LEMMA OneNews ==
    ASSUME ClientTypeOK, NEW c, NEW e \in Events, e.client = c,
           eventQueue' = Append(eventQueue, e),
           e.type = "DISCONNECTED" => link'[c] = "down"
    PROVE  NewsOf(c)
  <1>1. /\ EventsKept /\ Len(eventQueue') = Len(eventQueue) + 1
        /\ eventQueue'[Len(eventQueue) + 1] = e
    BY AppendKept
  <1>2. \A i \in 1..Len(eventQueue') :
           i > Len(eventQueue) => i = Len(eventQueue) + 1
    BY <1>1 DEF EventsKept
  <1> QED
    BY <1>1, <1>2 DEF NewsOf

LEMMA DumpNews ==
    ASSUME ClientTypeOK, NEW c \in Clients, OnDisconnect(c)
    PROVE  /\ NewsOf(c) /\ Queued(c, "DISCONNECTED")'
           /\ link' = [link EXCEPT ![c] = "down"]
  <1> DEFINE q == client[c].queue
             dump == [i \in 1..Len(q) |-> Resolution(c, "UNDELIVERED", q[i])]
             event == Event(c, "DISCONNECTED")
             n == Len(eventQueue)
             m == Len(dump)
  <1>1. q \in Seq(Requests) /\ eventQueue \in Seq(Events)
    BY ClientQueue DEF ClientTypeOK
  <1>2. dump \in Seq(Events) /\ Len(dump) = Len(q)
    BY <1>1, DumpType
  <1>3. \A i \in 1..Len(q) : dump[i].client = c
    BY DEF Resolution
  <1>4. event \in Events /\ event.client = c /\ event.type = "DISCONNECTED"
    BY EventType DEF EventTypes
  <1>5. /\ eventQueue' = Append(eventQueue \o dump, event)
        /\ link' = [link EXCEPT ![c] = "down"] /\ link'[c] = "down"
    BY DEF OnDisconnect, ClientTypeOK
  <1>6. \A i \in 1..m : dump[i].client = c
    BY <1>2, <1>3
  <1> HIDE DEF dump, event
  <1>7. /\ eventQueue \o dump \in Seq(Events) /\ Len(eventQueue \o dump) = n + m
        /\ \A i \in 1..n : (eventQueue \o dump)[i] = eventQueue[i]
        /\ \A i \in 1..m : (eventQueue \o dump)[n + i] = dump[i]
    <2>1. eventQueue \in Seq(Events) /\ dump \in Seq(Events)
      BY <1>1, <1>2
    <2> QED
      BY <2>1, Extended
  <1>8. n \in Nat /\ m \in Nat
    BY <1>1, <1>2
  <1>9. /\ Len(eventQueue') = n + m + 1
        /\ \A i \in 1..(n + m) : eventQueue'[i] = (eventQueue \o dump)[i]
        /\ eventQueue'[n + m + 1] = event
    BY <1>4, <1>5, <1>7, Appended
  <1>10. EventsKept
    <2>1. /\ Len(eventQueue') \in Nat /\ Len(eventQueue') >= n
          /\ \A i \in 1..n : i \in 1..(n + m)
      BY <1>8, <1>9
    <2>2. \A i \in 1..n : eventQueue'[i] = eventQueue[i]
      BY <1>7, <1>9, <2>1
    <2> QED
      BY <1>8, <2>1, <2>2 DEF EventsKept
  <1> HIDE DEF n, m
  <1>11. ASSUME NEW i \in 1..Len(eventQueue'), i > n
         PROVE  eventQueue'[i].client = c
    <2>1. CASE i = n + m + 1
      BY <1>4, <1>9, <2>1
    <2>2. CASE i # n + m + 1
      <3>1. i - n \in 1..m /\ n + (i - n) = i /\ i \in 1..(n + m)
        BY <1>8, <1>9, <1>11, <2>2
      <3> QED
        <4>1. eventQueue'[i] = (eventQueue \o dump)[i]
          BY <1>9, <3>1
        <4>2. (eventQueue \o dump)[i] = dump[i - n]
          BY <1>7, <3>1, Zenon
        <4>3. dump[i - n].client = c
          BY <1>6, <3>1
        <4> QED
          BY <4>1, <4>2, <4>3
    <2> QED
      BY <2>1, <2>2
  <1>12. NewsOf(c)
    BY <1>5, <1>10, <1>11 DEF NewsOf, n
  <1>13. n + m + 1 \in 1..Len(eventQueue')
    BY <1>8, <1>9
  <1> QED
    BY <1>4, <1>5, <1>9, <1>12, <1>13 DEF Queued

LEMMA OnConnectBirths ==
    ASSUME NodeTypeOK, BirthInv, NEW c \in Clients, OnConnect(c), UNCHANGED nodeVars
    PROVE  ClientsReady' /\ NoOldNews'
  <1> DEFINE s == client[c]
             r == [s EXCEPT !.born = {}]
             t == SetState(r, "CONNECTED")
  <1>1. /\ ClientTypeOK /\ s \in ClientRecords
        /\ UNCHANGED <<activeClient, pc, turn>> /\ Running' = Running
    BY ClientQueue DEF NodeTypeOK, nodeVars, Running
  <1>2. /\ link[c] = "connecting" /\ link' = [link EXCEPT ![c] = "up"]
        /\ client' = [client EXCEPT ![c] = t]
        /\ eventQueue' = Append(eventQueue, Event(c, "CONNECTED"))
    BY DEF OnConnect
  <1>3. r \in ClientRecords /\ r.queue = s.queue
    BY <1>1 DEF ClientRecords
  <1> HIDE DEF r
  <1>4. t.queue = s.queue
    BY <1>3, SetStateSends DEF ClientStates
  <1> HIDE DEF t
  <1>5. /\ client'[c] = t /\ link'[c] = "up"
        /\ \A d \in Clients : d # c => client'[d] = client[d] /\ link'[d] = link[d]
    BY <1>1, <1>2 DEF ClientTypeOK
  <1>6. NewsOf(c) /\ EventsKept
    <2>1. /\ Event(c, "CONNECTED") \in Events /\ Event(c, "CONNECTED").client = c
          /\ Event(c, "CONNECTED").type # "DISCONNECTED"
      BY EventType DEF EventTypes
    <2> QED
      BY <1>1, <1>2, <2>1, OneNews DEF NewsOf
  <1>7. \A d : Serving(d)' => Serving(d)
    BY <1>1, <1>6, ServingStays
  <1>8. ~Serving(c)
    <2>1. Running /\ activeClient = c
             => link[c] \in {"up", "lost"} \/ Queued(c, "DISCONNECTED")
      BY DEF BirthInv, ActiveInv, ActiveIsAlive
    <2> QED
      BY <1>2, <2>1 DEF Serving
  <1>9. Ready(s, link[c], Running, Serving(c))
    BY DEF BirthInv, ClientsReady
  <1>10. Ready(client'[c], link'[c], Running', Serving(c)')
    BY <1>2, <1>4, <1>5, <1>7, <1>8, <1>9 DEF Ready
  <1>11. ClientsReady'
    BY <1>1, <1>5, <1>7, <1>10, OneClientReady DEF BirthInv
  <1>12. \A d \in Clients : Queued(d, "DISCONNECTED")' /\ link'[d] # "down"
            => Queued(d, "DISCONNECTED") /\ link[d] # "down"
    BY <1>2, <1>5, <1>6, NewsOfQueued
  <1> QED
    BY <1>1, <1>11, <1>12, NoOldNewsStays DEF BirthInv

\* The steps of the library that leave every queue alone and connect no client.
LEMMA QuietBirths ==
    ASSUME NodeTypeOK, BirthInv, NEW c \in Clients, NEW online \in BOOLEAN,
           \/ (OnConnectFailure(c) \/ Subscription(c)) /\ UNCHANGED nodeVars
           \/ Lose(c) \/ Command(c) \/ HostMessage(c, online)
    PROVE  ClientsReady' /\ NoOldNews'
  <1>1. /\ ClientTypeOK /\ Running' = Running
        /\ UNCHANGED <<activeClient, pc, turn>>
    BY DEF NodeTypeOK, nodeVars, Running, Lose, Command, HostMessage
  <1>2. /\ \/ UNCHANGED link
           \/ link[c] = "connecting" /\ link' = [link EXCEPT ![c] = "down"]
           \/ link[c] = "up" /\ link' = [link EXCEPT ![c] = "lost"]
        /\ \/ UNCHANGED eventQueue
           \/ \E type \in {"ACTIVE", "ONLINE", "OFFLINE", "REBIRTH"} :
                 eventQueue' = Append(eventQueue, Event(c, type))
        /\ \/ UNCHANGED client
           \/ client' = [client EXCEPT ![c] = SetState(client[c], "DISCONNECTED")]
    BY DEF OnConnectFailure, Subscription, OnCommandSubscription,
           OnCommandSubscribeFailure, Lose, LinkLost, Command, HostMessage, OnMessage
  <1>3. NewsOf(c) /\ EventsKept
    <2>1. ASSUME NEW type \in {"ACTIVE", "ONLINE", "OFFLINE", "REBIRTH"}
          PROVE  /\ Event(c, type) \in Events /\ Event(c, type).client = c
                 /\ Event(c, type).type # "DISCONNECTED"
      BY EventType DEF EventTypes
    <2> QED
      BY <1>1, <1>2, <2>1, OneNews, NoNews DEF NewsOf
  <1>4. \A d : Serving(d)' => Serving(d)
    BY <1>1, <1>3, ServingStays
  <1>5. ASSUME NEW d \in Clients
        PROVE  client'[d].queue = client[d].queue /\ client'[d].born = client[d].born
    <2>1. /\ SetState(client[c], "DISCONNECTED").queue = client[c].queue
          /\ SetState(client[c], "DISCONNECTED").born = client[c].born
      BY <1>1, ClientQueue, SetStateSends DEF ClientStates
    <2> QED
      BY <1>1, <1>2, <2>1 DEF ClientTypeOK
  <1>6. ASSUME NEW d \in Clients
        PROVE  /\ link'[d] = "up" => link[d] = "up"
               /\ link'[d] # "down" => link[d] # "down"
               /\ link'[d] = "connecting" => link[d] = "connecting"
               /\ link'[d] = "down" => link[d] \in {"connecting", "down"}
    BY <1>1, <1>2 DEF ClientTypeOK
  <1>7. ClientsReady'
    BY <1>1, <1>4, <1>5, <1>6, FramedReady DEF BirthInv
  <1>8. \A d \in Clients : Queued(d, "DISCONNECTED")' /\ link'[d] # "down"
            => Queued(d, "DISCONNECTED") /\ link[d] # "down"
    BY <1>3, <1>6, NewsOfQueued
  <1> QED
    BY <1>1, <1>7, <1>8, NoOldNewsStays DEF BirthInv

LEMMA DeliveryBirths ==
    ASSUME NodeTypeOK, BirthInv, NEW c \in Clients, Delivery(c), UNCHANGED nodeVars
    PROVE  ClientsReady' /\ NoOldNews'
  <1> DEFINE s == client[c]
             popped == [s EXCEPT !.queue = Tail(s.queue)]
  <1>1. /\ ClientTypeOK /\ s \in ClientRecords /\ s.queue \in Seq(Requests)
        /\ UNCHANGED <<activeClient, pc, turn>> /\ Running' = Running
    BY ClientQueue DEF NodeTypeOK, nodeVars, Running
  <1>2. PICK accepted \in BOOLEAN :
            OnDelivery(c, accepted) \/ OnDeliveryFailure(c, accepted)
    BY DEF Delivery
  <1>3. /\ link[c] \in {"up", "lost"} /\ FrontSent(s.queue) /\ UNCHANGED link
        /\ \/ /\ client' = [client EXCEPT ![c] = PublishFromQueue(c, popped, accepted)]
              /\ \E type \in {"DELIVERED", "UNDELIVERED"} :
                    eventQueue' = Append(eventQueue,
                                         Resolution(c, type, Head(s.queue)))
           \/ /\ ~(Head(s.queue).retryCount >= PUBLISH_RETRIES) /\ link[c] = "up"
              /\ client' = [client EXCEPT ![c] = Resent(s, accepted)]
              /\ UNCHANGED eventQueue
    BY <1>2 DEF OnDelivery, OnDeliveryFailure, PopFront, FrontIsSent, FrontSent,
                IsConnected
  <1>4. NewsOf(c) /\ EventsKept
    <2>1. Head(s.queue) \in Requests
      BY <1>1, <1>3, HeadAndTail DEF FrontSent
    <2>2. ASSUME NEW type \in {"DELIVERED", "UNDELIVERED"}
          PROVE  LET e == Resolution(c, type, Head(s.queue)) IN
                 e \in Events /\ e.client = c /\ e.type # "DISCONNECTED"
      BY <2>1, ResolutionType DEF Resolution
    <2> QED
      BY <1>1, <1>3, <2>2, OneNews, NoNews DEF NewsOf
  <1>5. \A d : Serving(d)' => Serving(d)
    BY <1>1, <1>4, ServingStays
  <1>6. Ready(s, link[c], Running, Serving(c))
    BY DEF BirthInv, ClientsReady
  <1>7. Ready(client'[c], link'[c], Running', Serving(c)')
    <2>1. CASE client' = [client EXCEPT ![c] = PublishFromQueue(c, popped, accepted)]
      <3>1. Ready(PublishFromQueue(c, popped, accepted), link[c], Running,
                  Serving(c)')
        BY <1>1, <1>3, <1>5, <1>6, ReadyPopped
      <3>2. client'[c] = PublishFromQueue(c, popped, accepted)
        BY <1>1, <2>1 DEF ClientTypeOK
      <3> QED
        BY <1>1, <1>3, <3>1, <3>2
    <2>2. CASE /\ ~(Head(s.queue).retryCount >= PUBLISH_RETRIES) /\ link[c] = "up"
               /\ client' = [client EXCEPT ![c] = Resent(s, accepted)]
      <3>1. Ready(Resent(s, accepted), link[c], Running, Serving(c)')
        BY <1>1, <1>3, <1>5, <1>6, <2>2, ReadyResent
      <3>2. client'[c] = Resent(s, accepted)
        BY <1>1, <2>2 DEF ClientTypeOK
      <3> QED
        BY <1>1, <1>3, <3>1, <3>2
    <2> QED
      BY <1>3, <2>1, <2>2
  <1>8. \A d \in Clients : d # c => client'[d] = client[d] /\ link'[d] = link[d]
    BY <1>1, <1>3 DEF ClientTypeOK
  <1>9. ClientsReady'
    BY <1>1, <1>5, <1>7, <1>8, OneClientReady DEF BirthInv
  <1>10. \A d \in Clients : Queued(d, "DISCONNECTED")' /\ link'[d] # "down"
            => Queued(d, "DISCONNECTED") /\ link[d] # "down"
    BY <1>3, <1>4, NewsOfQueued
  <1> QED
    BY <1>1, <1>9, <1>10, NoOldNewsStays DEF BirthInv

LEMMA OnDisconnectBirths ==
    ASSUME NodeTypeOK, BirthInv, NEW c \in Clients, OnDisconnect(c),
           UNCHANGED nodeVars
    PROVE  ClientsReady' /\ NoOldNews'
  <1> DEFINE s == client[c]
             r == [s EXCEPT !.queue = <<>>]
             t == SetState(r, "DISCONNECTED")
  <1>1. /\ ClientTypeOK /\ s \in ClientRecords
        /\ UNCHANGED <<activeClient, pc, turn>> /\ Running' = Running
    BY ClientQueue DEF NodeTypeOK, nodeVars, Running
  <1>2. NewsOf(c) /\ EventsKept /\ link' = [link EXCEPT ![c] = "down"]
    BY <1>1, DumpNews DEF NewsOf
  <1>3. \A d : Serving(d)' => Serving(d)
    BY <1>1, <1>2, ServingStays
  <1>4. r \in ClientRecords /\ r.queue = <<>>
    <2>1. <<>> \in Seq(Requests)
      BY EmptySeq
    <2> QED
      BY <1>1, <2>1, QueueType
  <1>5. client' = [client EXCEPT ![c] = t]
    BY DEF OnDisconnect
  <1> HIDE DEF r
  <1>6. t.queue = <<>>
    BY <1>4, SetStateSends DEF ClientStates
  <1> HIDE DEF t
  <1>7. /\ client'[c].queue = <<>> /\ link'[c] = "down"
        /\ \A d \in Clients : d # c => client'[d] = client[d] /\ link'[d] = link[d]
    BY <1>1, <1>2, <1>5, <1>6 DEF ClientTypeOK
  <1>8. Ready(client'[c], link'[c], Running', Serving(c)')
    <2>1. OnlyFront(client'[c].queue)
      <3>1. Len(client'[c].queue) = 0
        BY <1>7
      <3> QED
        BY <3>1 DEF OnlyFront
    <2>2. ~FrontSent(client'[c].queue)
      BY <1>7 DEF FrontSent
    <2> QED
      BY <1>7, <2>1, <2>2 DEF Ready
  <1>9. ClientsReady'
    BY <1>1, <1>3, <1>7, <1>8, OneClientReady DEF BirthInv
  <1>10. \A d \in Clients : Queued(d, "DISCONNECTED")' /\ link'[d] # "down"
            => Queued(d, "DISCONNECTED") /\ link[d] # "down"
    BY <1>2, <1>7, NewsOfQueued
  <1> QED
    BY <1>1, <1>9, <1>10, NoOldNewsStays DEF BirthInv

\* The events: only CLIENT_ACTIVE and a rebirth ask for requests, and those are
\* births, of every publishable.
LEMMA BirthsUnsent ==
    /\ Unsent(BirthRequests)
    /\ \A s : InOrder(s, BirthRequests)
    /\ \A p \in Publishables : BirthOf(p, BirthRequests)
  <1>1. ASSUME NEW p \in Publishables PROVE BirthOf(p, BirthRequests)
    <2>1. PICK i \in 1..Len(PublishOrder) : PublishOrder[i] = p
      BY PublishOrderAssumption
    <2> QED
      BY <2>1, BirthRequestsContent DEF BirthOf
  <1> QED
    BY <1>1, BirthRequestsContent DEF Unsent, InOrder

LEMMA PopServing ==
    ASSUME ClientTypeOK, eventQueue # <<>>, eventQueue' = Tail(eventQueue),
           Running' => Running, NEW d, activeClient' = d => activeClient = d,
           activeClient' = d => ~(/\ Head(eventQueue).client = d
                                  /\ Head(eventQueue).type = "DISCONNECTED")
    PROVE  Serving(d)' => Serving(d)
  <1> DEFINE n == Len(eventQueue)
  <1> SUFFICES ASSUME activeClient' = d, Queued(d, "DISCONNECTED")
               PROVE  Queued(d, "DISCONNECTED")'
    BY DEF Serving
  <1>1. /\ n \in Nat \ {0} /\ Len(eventQueue') = n - 1
        /\ \A i \in 1..(n - 1) : eventQueue'[i] = eventQueue[i + 1]
        /\ Head(eventQueue) = eventQueue[1]
    BY HeadAndTail, EmptySeq DEF ClientTypeOK
  <1>2. PICK i \in 1..n : /\ eventQueue[i].client = d
                          /\ eventQueue[i].type = "DISCONNECTED"
    BY DEF Queued
  <1>3. i # 1
    BY <1>1, <1>2
  <1>4. i - 1 \in 1..(n - 1) /\ (i - 1) + 1 = i
    BY <1>1, <1>3
  <1>5. i - 1 \in 1..Len(eventQueue') /\ eventQueue'[i - 1] = eventQueue[i]
    BY <1>1, <1>4
  <1> QED
    BY <1>2, <1>5 DEF Queued

LEMMA ProcessBirths ==
    ASSUME NodeTypeOK, BirthInv, NEW c \in Clients, NEW accepted \in BOOLEAN,
           \/ ProcessConnected(c) \/ ProcessDisconnected(c) \/ ProcessResolved(c)
           \/ ProcessOnline(c) \/ ProcessOffline(c)
           \/ ProcessActive(c, accepted) \/ ProcessRebirth(c, accepted)
    PROVE  ClientsReady' /\ NoOldNews'
  <1>1. PICK type \in EventTypes :
           /\ Pop(c, type)
           /\ \/ SetActiveClient(c, accepted) /\ type \in {"ACTIVE", "REBIRTH"}
              \/ DeactivateClient(c)
              \/ /\ ActivateClient(c) \/ UNCHANGED client
                 /\ UNCHANGED activeClient /\ type # "DISCONNECTED"
    BY DEF ProcessConnected, ProcessDisconnected, ProcessResolved, ProcessOnline,
           ProcessOffline, ProcessActive, ProcessRebirth, EventTypes
  <1>2. /\ ClientTypeOK /\ eventQueue # <<>> /\ eventQueue' = Tail(eventQueue)
        /\ Head(eventQueue).client = c /\ Head(eventQueue).type = type
        /\ UNCHANGED link /\ pc' = "events" /\ Running' = Running
    BY <1>1 DEF NodeTypeOK, Pop, Running
  <1>3. NoOldNews'
    BY <1>2 DEF NoOldNews
  <1>4. CASE SetActiveClient(c, accepted) /\ type \in {"ACTIVE", "REBIRTH"}
    <2>1. client[c] \in ClientRecords
      BY <1>2, ClientQueue
    <2>2. Ready(client[c], link[c], Running, Serving(c))
      BY DEF BirthInv, ClientsReady
    <2>3. Ready(Requested(c, client[c], BirthRequests, accepted), link[c],
                Running', Serving(c)')
      BY <1>2, <2>1, <2>2, BirthsUnsent, ReadyRequested
    <2>4. ASSUME NEW d \in Clients
          PROVE  /\ d = c => client'[d] = Requested(c, client[c], BirthRequests,
                                                    accepted)
                 /\ d # c => /\ client'[d].queue = client[d].queue
                             /\ client'[d].born = client[d].born
      BY <1>2, <1>4, SetActiveClientFields
    <2>5. \A d \in Clients : d # c => ~Serving(d)'
      BY <1>4 DEF SetActiveClient, Serving
    <2> QED
      BY <1>2, <1>3, <2>3, <2>4, <2>5, OneClientReady DEF BirthInv
  <1>5. CASE ~(SetActiveClient(c, accepted) /\ type \in {"ACTIVE", "REBIRTH"})
    <2>1. ASSUME NEW d \in Clients
          PROVE  client'[d].queue = client[d].queue /\ client'[d].born = client[d].born
      BY <1>1, <1>2, <1>5, ActivateClientFields, DeactivateClientFields
    <2>2. ASSUME NEW d \in Clients PROVE Serving(d)' => Serving(d)
      <3>1. activeClient' = d => activeClient = d
        BY <1>1, <1>5 DEF DeactivateClient
      <3>2. activeClient' = d => ~(c = d /\ type = "DISCONNECTED")
        BY <1>1, <1>5 DEF DeactivateClient
      <3> QED
        BY <1>2, <3>1, <3>2, PopServing
    <2>3. ClientsReady'
      BY <1>2, <2>1, <2>2, FramedReady DEF BirthInv
    <2> QED
      BY <1>3, <2>3
  <1> QED
    BY <1>4, <1>5

\* DATA, or the births an application asks for: only when the events have been
\* processed, so that a connected active client is one that serves.
LEMMA PublishBirths ==
    ASSUME NodeTypeOK, BirthInv, activeClient # NoClient,
           pc = "publish" \/ Idle,
           NEW p \in Publishables, NEW isBirth \in BOOLEAN,
           NEW accepted \in BOOLEAN, Publish(p, isBirth, accepted),
           Running', UNCHANGED <<link, eventQueue, activeClient>>
    PROVE  ClientsReady'
  <1> DEFINE a == activeClient
             requests == <<NewRequest(p, isBirth)>>
             s == client[a]
  <1>1. /\ ClientTypeOK /\ a \in Clients
        /\ client'[a] = Requested(a, s, requests, accepted)
        /\ \A d \in Clients : d # a => client'[d] = client[d]
    BY PublishFields DEF NodeTypeOK
  <1>2. s \in ClientRecords
    BY <1>1, ClientQueue
  <1>3. Unsent(requests)
    <2>1. /\ requests \in Seq(Requests) /\ requests # <<>> /\ Len(requests) = 1
          /\ ~requests[1].sent
      BY OneRequest
    <2> HIDE DEF requests
    <2>2. \A i \in 1..Len(requests) : i = 1
      BY <2>1
    <2> QED
      BY <2>1, <2>2 DEF Unsent
  <1>4. Running
    BY DEF Idle, Running
  <1>5. EventsKept
    BY <1>1, SameEventsKept
  <1>6. \A d : Serving(d)' => Serving(d)
    BY <1>4, <1>5, ServingStays
  <1>7. Ready(s, link[a], Running, Serving(a))
    BY <1>1 DEF BirthInv, ClientsReady
  <1>8. IsConnected(a) => Serving(a)
    BY <1>1, <1>4 DEF BirthInv, NoOldNews, Serving, IsConnected, Idle
  <1> HIDE DEF requests
  <1>9. IsConnected(a) /\ ~Stuck(s.queue) => InOrder(s, requests)
    BY <1>7, <1>8 DEF Ready, IsConnected, InOrder
  <1>10. Ready(Requested(a, s, requests, accepted), link[a], Running', Serving(a)')
    BY <1>2, <1>3, <1>4, <1>6, <1>7, <1>9, ReadyRequested
  <1> QED
    BY <1>1, <1>4, <1>6, <1>10, OneClientReady DEF BirthInv

LEMMA PublishNextBirths ==
    ASSUME NodeTypeOK, BirthInv, NEW accepted \in BOOLEAN, PublishNext(accepted)
    PROVE  ClientsReady' /\ NoOldNews'
  <1>1. /\ PublishOrder[turn] \in Publishables /\ activeClient # NoClient
        /\ pc = "publish" /\ Running /\ Running' /\ ClientTypeOK
        /\ UNCHANGED <<link, eventQueue, activeClient>>
    BY OrderType DEF PublishNext, NodeTypeOK, Running
  <1>2. ClientsReady'
    <2>1. CASE Publish(PublishOrder[turn], FALSE, accepted)
      BY <1>1, <2>1, PublishBirths
    <2>2. CASE UNCHANGED client
      BY <1>1, <2>2, SameEventsKept, ServingStays, FramedReady DEF BirthInv
    <2> QED
      BY <1>1, <2>1, <2>2 DEF PublishNext
  <1>3. NoOldNews'
    BY <1>1 DEF BirthInv, NoOldNews, Queued
  <1> QED
    BY <1>2, <1>3

LEMMA RequestPublishBirths ==
    ASSUME NodeTypeOK, BirthInv, NEW p \in Publishables, NEW isBirth \in BOOLEAN,
           NEW accepted \in BOOLEAN, RequestPublish(p, isBirth, accepted)
    PROVE  ClientsReady' /\ NoOldNews'
  <1>1. /\ activeClient # NoClient /\ Idle /\ Running'
        /\ Publish(p, isBirth, accepted)
        /\ UNCHANGED <<link, eventQueue, activeClient, pc, turn>>
    BY DEF RequestPublish, Idle, Running
  <1>2. ClientsReady'
    BY <1>1, PublishBirths
  <1>3. NoOldNews'
    BY <1>1 DEF BirthInv, NoOldNews, Queued
  <1> QED
    BY <1>2, <1>3

\* The steps of execute() that ask for nothing.
LEMMA QuietExecuteBirths ==
    ASSUME NodeTypeOK, BirthInv,
           \/ ConnectClient \/ ConnectReturns \/ SkipClient \/ EventsProcessed
           \/ UNCHANGED vars
    PROVE  ClientsReady' /\ NoOldNews'
  <1>1. /\ ClientTypeOK /\ (Running' => Running)
        /\ UNCHANGED <<eventQueue, activeClient>>
    BY DEF NodeTypeOK, Running, ConnectClient, ConnectReturns, SkipClient,
           EventsProcessed, vars, clientVars, nodeVars
  <1>2. \A d : Serving(d)' => Serving(d)
    BY <1>1, SameEventsKept, ServingStays
  <1>3. \A d \in Clients :
           client'[d].queue = client[d].queue /\ client'[d].born = client[d].born
    <2>1. CASE ConnectClient \/ ConnectReturns
      <3>1. Self \in Clients
        BY <2>1, OrderType DEF ConnectClient, ConnectReturns
      <3>2. client' = [client EXCEPT ![Self] = SetState(client[Self], "CONNECTING")]
        BY <2>1 DEF ConnectClient, ConnectReturns
      <3>3. /\ SetState(client[Self], "CONNECTING").queue = client[Self].queue
            /\ SetState(client[Self], "CONNECTING").born = client[Self].born
        BY <1>1, <3>1, ClientQueue, SetStateSends DEF ClientStates
      <3> QED
        BY <1>1, <3>1, <3>2, <3>3 DEF ClientTypeOK
    <2>2. CASE UNCHANGED client
      BY <2>2
    <2> QED
      BY <2>1, <2>2 DEF SkipClient, EventsProcessed, vars, clientVars
  <1>4. CASE ConnectClient
    <2>1. \A d \in Clients :
             \/ link'[d] = link[d]
             \/ Running /\ link[d] = "down" /\ link'[d] = "connecting"
      BY <1>1, <1>4 DEF ConnectClient, ClientTypeOK, Running
    <2>2. ClientsReady'
      BY <1>1, <1>2, <1>3, <2>1, FramedReady DEF BirthInv
    <2>3. NoOldNews'
      BY <1>4 DEF ConnectClient, NoOldNews
    <2> QED
      BY <2>2, <2>3
  <1>5. CASE ConnectReturns \/ SkipClient \/ EventsProcessed \/ UNCHANGED vars
    <2>1. UNCHANGED link
      BY <1>5 DEF ConnectReturns, SkipClient, EventsProcessed, vars, clientVars
    <2>2. ClientsReady'
      BY <1>1, <1>2, <1>3, <2>1, FramedReady DEF BirthInv
    <2>3. NoOldNews'
      <3>1. CASE ConnectReturns \/ SkipClient
        <4>1. /\ turn \in Nat \ {0}
              /\ \/ pc' = "execute" /\ turn' = turn + 1
                 \/ pc' = "events"
          BY <3>1 DEF ConnectReturns, SkipClient, NextClient, NodeTypeOK
        <4>2. pc' = "execute" => turn' > 1
          BY <4>1
        <4> QED
          BY <4>1, <4>2 DEF NoOldNews
      <3>2. CASE EventsProcessed
        <4>1. Len(eventQueue') = 0
          BY <3>2 DEF EventsProcessed, clientVars
        <4> QED
          BY <4>1 DEF NoOldNews, Queued
      <3>3. CASE UNCHANGED vars
        BY <3>3 DEF vars, clientVars, nodeVars, BirthInv, NoOldNews, Queued
      <3> QED
        BY <1>5, <3>1, <3>2, <3>3
    <2> QED
      BY <2>2, <2>3
  <1> QED
    BY <1>4, <1>5

LEMMA StopBirths ==
    ASSUME NodeTypeOK, BirthInv, Stop
    PROVE  ClientsReady' /\ NoOldNews'
  <1>1. /\ ~Running' /\ UNCHANGED <<eventQueue, activeClient>>
        /\ \A d \in Clients : link'[d] = IF link[d] = "up" THEN "down" ELSE link[d]
        /\ Idle
    BY DEF Stop, Running
  <1>2. \A d \in Clients :
           client'[d].queue = client[d].queue /\ client'[d].born = client[d].born
    <2> SUFFICES ASSUME NEW d \in Clients
                 PROVE  /\ client'[d].queue = client[d].queue
                        /\ client'[d].born = client[d].born
      OBVIOUS
    <2>1. /\ Deactivate(client[d]) \in ClientRecords
          /\ Deactivate(client[d]).queue = client[d].queue
          /\ Deactivate(client[d]).born = client[d].born
      BY ClientQueue, DeactivateType, DeactivateFields DEF NodeTypeOK
    <2>2. /\ SetState(Deactivate(client[d]), "DISCONNECTING").queue = client[d].queue
          /\ SetState(Deactivate(client[d]), "DISCONNECTING").born = client[d].born
      BY <2>1, SetStateSends DEF ClientStates
    <2> QED
      BY <2>1, <2>2 DEF Stop
  <1>3. ClientsReady'
    BY <1>1, <1>2, FramedReady DEF BirthInv, Serving
  <1>4. NoOldNews'
    BY <1>1 DEF BirthInv, NoOldNews, Queued, Idle
  <1> QED
    BY <1>3, <1>4

LEMMA NextBirthInv == NodeTypeOK /\ BirthInv /\ [Next]_vars => BirthInv'
  <1> SUFFICES ASSUME NodeTypeOK, BirthInv, [Next]_vars
               PROVE  ClientsReady' /\ NoOldNews'
    BY NextActiveInv DEF BirthInv
  <1>1. CASE Execute
    BY <1>1, ProcessBirths, QuietExecuteBirths, PublishNextBirths DEF Execute
  <1>2. CASE Application
    <2>1. CASE Stopped
      BY <2>1, QuietExecuteBirths DEF Stopped
    <2> QED
      BY <1>2, <2>1, RequestPublishBirths, StopBirths DEF Application
  <1>3. ASSUME NEW c \in Clients, Callback(c)
        PROVE  ClientsReady' /\ NoOldNews'
    BY <1>3, OnConnectBirths, QuietBirths, DeliveryBirths, OnDisconnectBirths
       DEF Callback, Connection
  <1>4. ASSUME NEW c \in Clients,
               \/ Lose(c) \/ Command(c)
               \/ \E online \in BOOLEAN : HostMessage(c, online)
        PROVE  ClientsReady' /\ NoOldNews'
    BY <1>4, QuietBirths
  <1>5. CASE UNCHANGED vars
    BY <1>5, QuietExecuteBirths
  <1> QED
    BY <1>1, <1>2, <1>3, <1>4, <1>5 DEF Next

LEMMA InitBirthInv == Init => BirthInv
  <1> SUFFICES ASSUME Init PROVE BirthInv
    OBVIOUS
  <1>1. /\ \A c \in Clients : client[c].queue = <<>> /\ link[c] = "down"
        /\ Len(eventQueue) = 0
    BY DEF Init, ClientInit
  <1>2. ClientsReady
    <2> SUFFICES ASSUME NEW c \in Clients
                 PROVE  Ready(client[c], link[c], Running, Serving(c))
      BY DEF ClientsReady
    <2>1. client[c].queue = <<>> /\ link[c] = "down" /\ Len(client[c].queue) = 0
      BY <1>1
    <2> QED
      BY <2>1 DEF Ready, OnlyFront, FrontSent
  <1>3. NoOldNews
    BY <1>1 DEF NoOldNews, Queued
  <1> QED
    BY <1>2, <1>3, InitActiveInv DEF BirthInv

\* What is in flight on a link is a birth, or DATA of a publishable whose birth
\* went out on that link before, and the node's birth came before them all, for
\* every number of clients and devices, in both client modes: whatever links
\* were lost, events are stale or births were asked for again.
THEOREM BirthsComeFirst == Spec => []BirthFirst
  <1>1. Init => NodeTypeOK /\ BirthInv
    BY InitType, InitBirthInv
  <1>2. NodeTypeOK /\ BirthInv /\ [Next]_vars => (NodeTypeOK /\ BirthInv)'
    BY NextType, NextBirthInv
  <1>3. NodeTypeOK /\ BirthInv => BirthFirst
    <2> SUFFICES ASSUME NodeTypeOK, BirthInv, NEW c \in Clients,
                        IsConnected(c), FrontIsSent(c)
                 PROVE  /\ NodeSelf \in client[c].born
                        /\ Head(client[c].queue).publisher \in client[c].born
      BY DEF BirthFirst
    <2>1. /\ client[c].queue # <<>> /\ client[c].queue \in Seq(Requests)
          /\ FrontSent(client[c].queue)
      BY ClientQueue DEF FrontIsSent, FrontSent, NodeTypeOK
    <2>2. Ready(client[c], link[c], Running, Serving(c))
      BY DEF BirthInv, ClientsReady
    <2>3. Ordered(client[c])
      BY <2>1, <2>2 DEF Ready, IsConnected
    <2>4. Head(client[c].queue) = client[c].queue[1]
      BY <2>1, HeadAndTail
    <2> QED
      BY <2>3, <2>4 DEF Ordered
  <1> QED
    BY <1>1, <1>2, <1>3, PTL DEF Spec

=============================================================================
