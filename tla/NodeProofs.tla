----------------------------- MODULE NodeProofs -----------------------------
(***************************************************************************)
(* Proofs about Node, for every set of clients and publishables, in both   *)
(* client modes: its type invariant, and that the active client has a link *)
(* or the event that will replace it is queued (ActiveIsAlive).            *)
(***************************************************************************)
EXTENDS Node, SequenceTheorems, TLAPS

USE PahoClientAssumption, NodeAssumption

----------------------------------------------------------------------------
\* Sequences.

\* The front and the rest of a queue of elements of S.
LEMMA HeadAndTail ==
    ASSUME NEW S, NEW s \in Seq(S), s # <<>>
    PROVE  /\ Head(s) \in S /\ Head(s) = s[1]
           /\ Tail(s) \in Seq(S)
           /\ Len(Tail(s)) = Len(s) - 1
           /\ \A i \in 1..Len(Tail(s)) : Tail(s)[i] = s[i + 1]
  OBVIOUS

\* Replacing the front of a queue.
LEMMA ReplaceFront ==
    ASSUME NEW S, NEW s \in Seq(S), s # <<>>, NEW x \in S
    PROVE  <<x>> \o Tail(s) \in Seq(S)
  <1>1. Tail(s) \in Seq(S)
    BY HeadAndTail
  <1>2. <<x>> \in Seq(S)
    OBVIOUS
  <1> QED
    BY <1>1, <1>2

\* What is in a queue stays where it is when more is put behind it.
LEMMA Extended ==
    ASSUME NEW S, NEW s \in Seq(S), NEW t \in Seq(S)
    PROVE  /\ s \o t \in Seq(S)
           /\ Len(s \o t) = Len(s) + Len(t)
           /\ \A i \in 1..Len(s) : (s \o t)[i] = s[i]
           /\ \A i \in 1..Len(t) : (s \o t)[Len(s) + i] = t[i]
  BY ConcatProperties

LEMMA Appended ==
    ASSUME NEW S, NEW s \in Seq(S), NEW x \in S
    PROVE  /\ Append(s, x) \in Seq(S)
           /\ Len(Append(s, x)) = Len(s) + 1
           /\ \A i \in 1..Len(s) : Append(s, x)[i] = s[i]
           /\ Append(s, x)[Len(s) + 1] = x
  BY AppendProperties

LEMMA FunctionIsSeq ==
    ASSUME NEW S, NEW n \in Nat, NEW f \in [1..n -> S]
    PROVE  f \in Seq(S) /\ Len(f) = n
  OBVIOUS

----------------------------------------------------------------------------
\* The client's methods keep a client's record one.

LEMMA SetStateType ==
    ASSUME NEW s \in ClientRecords, NEW newState \in ClientStates
    PROVE  SetState(s, newState) \in ClientRecords
  BY DEF SetState, ClientRecords

LEMMA DeactivateType ==
    ASSUME NEW s \in ClientRecords
    PROVE  Deactivate(s) \in ClientRecords
  BY DEF Deactivate, ClientRecords

LEMMA QueueType ==
    ASSUME NEW s \in ClientRecords, NEW q \in Seq(Requests)
    PROVE  /\ [s EXCEPT !.queue = q] \in ClientRecords
           /\ [s EXCEPT !.queue = q].queue = q
  BY DEF ClientRecords

LEMMA ProcessFrontType ==
    ASSUME NEW s \in ClientRecords, s.queue # <<>>, NEW accepted \in BOOLEAN
    PROVE  ProcessFront(s, accepted) \in ClientRecords
  <1> DEFINE front == [Head(s.queue) EXCEPT !.sent = accepted]
             born == IF accepted /\ front.isBirth
                       THEN s.born \cup {front.publisher} ELSE s.born
  <1>1. s.queue \in Seq(Requests) /\ s.born \subseteq Publishables
    BY DEF ClientRecords
  <1>2. Head(s.queue) \in Requests
    BY <1>1, HeadAndTail
  <1>3. front \in Requests
    BY <1>2 DEF Requests
  <1>4. <<front>> \o Tail(s.queue) \in Seq(Requests)
    BY <1>1, <1>3, ReplaceFront
  <1>5. born \subseteq Publishables
    BY <1>1, <1>3 DEF Requests
  <1>6. ProcessFront(s, accepted) =
          IF s.state = "DISCONNECTED" THEN s
          ELSE [s EXCEPT !.state = "PUBLISHING_PAYLOAD",
                         !.queue = <<front>> \o Tail(s.queue),
                         !.born = born]
    BY DEF ProcessFront
  <1> HIDE DEF front, born
  <1> QED
    BY <1>4, <1>5, <1>6 DEF ClientRecords, ClientStates

LEMMA ResentType ==
    ASSUME NEW s \in ClientRecords, s.queue # <<>>, NEW accepted \in BOOLEAN,
           ~(Head(s.queue).retryCount >= PUBLISH_RETRIES)
    PROVE  Resent(s, accepted) \in ClientRecords
  <1> DEFINE front == Head(s.queue)
             again == [front EXCEPT !.retryCount = front.retryCount + 1]
             queue == <<again>> \o Tail(s.queue)
  <1>1. s.queue \in Seq(Requests)
    BY DEF ClientRecords
  <1>2. front \in Requests
    BY <1>1, HeadAndTail
  <1> HIDE DEF front
  <1>3. front.retryCount \in 0..PUBLISH_RETRIES
    BY <1>2 DEF Requests
  <1>4. front.retryCount + 1 \in 0..PUBLISH_RETRIES
    BY <1>3 DEF front
  <1>5. again \in Requests
    BY <1>2, <1>4 DEF Requests
  <1> HIDE DEF again
  <1>6. queue \in Seq(Requests) /\ queue # <<>>
    BY <1>1, <1>5, ReplaceFront, HeadAndTail
  <1>7. Resent(s, accepted) = ProcessFront([s EXCEPT !.queue = queue], accepted)
    BY DEF Resent, queue, again, front
  <1> HIDE DEF queue
  <1>8. [s EXCEPT !.queue = queue] \in ClientRecords
        /\ [s EXCEPT !.queue = queue].queue # <<>>
    BY <1>6, QueueType
  <1> QED
    BY <1>7, <1>8, ProcessFrontType

LEMMA PublishFromQueueType ==
    ASSUME NEW c, NEW s \in ClientRecords, NEW accepted \in BOOLEAN
    PROVE  PublishFromQueue(c, s, accepted) \in ClientRecords
  BY ProcessFrontType, SetStateType DEF PublishFromQueue, ClientStates

LEMMA RequestedType ==
    ASSUME NEW c, NEW s \in ClientRecords, NEW requests \in Seq(Requests),
           NEW accepted \in BOOLEAN
    PROVE  Requested(c, s, requests, accepted) \in ClientRecords
  <1>1. s.queue \o requests \in Seq(Requests)
    BY DEF ClientRecords
  <1>2. [s EXCEPT !.queue = s.queue \o requests] \in ClientRecords
    BY <1>1, QueueType
  <1> QED
    BY <1>2, PublishFromQueueType DEF Requested

LEMMA NewRequestType ==
    ASSUME NEW p \in Publishables, NEW isBirth \in BOOLEAN
    PROVE  NewRequest(p, isBirth) \in Requests
  BY DEF NewRequest, Requests

LEMMA BirthRequestsType == BirthRequests \in Seq(Requests)
  <1>1. Len(PublishOrder) \in Nat
    OBVIOUS
  <1>2. ASSUME NEW i \in 1..Len(PublishOrder)
        PROVE  NewRequest(PublishOrder[i], TRUE) \in Requests
    BY ElementOfSeq, NewRequestType
  <1>3. BirthRequests \in [1..Len(PublishOrder) -> Requests]
    BY <1>2 DEF BirthRequests
  <1> QED
    BY <1>1, <1>3, FunctionIsSeq

LEMMA EventType ==
    ASSUME NEW c \in Clients, NEW type \in EventTypes
    PROVE  /\ Event(c, type) \in Events
           /\ Event(c, type).client = c /\ Event(c, type).type = type
  BY DEF Event, Events

LEMMA ResolutionType ==
    ASSUME NEW c \in Clients, NEW r \in Requests,
           NEW type \in {"DELIVERED", "UNDELIVERED"}
    PROVE  /\ Resolution(c, type, r) \in Events
           /\ Resolution(c, type, r).type = type
  BY DEF Resolution, Requests, Events, EventTypes

\* The events with which a queue is dumped.
LEMMA DumpType ==
    ASSUME NEW c \in Clients, NEW q \in Seq(Requests)
    PROVE  LET dump == [i \in 1..Len(q) |-> Resolution(c, "UNDELIVERED", q[i])] IN
           /\ dump \in Seq(Events)
           /\ Len(dump) = Len(q)
           /\ \A i \in 1..Len(dump) : dump[i].type = "UNDELIVERED"
  <1> DEFINE dump == [i \in 1..Len(q) |-> Resolution(c, "UNDELIVERED", q[i])]
  <1>1. Len(q) \in Nat
    OBVIOUS
  <1>2. ASSUME NEW i \in 1..Len(q)
        PROVE  /\ Resolution(c, "UNDELIVERED", q[i]) \in Events
               /\ Resolution(c, "UNDELIVERED", q[i]).type = "UNDELIVERED"
    BY ElementOfSeq, ResolutionType
  <1>3. dump \in [1..Len(q) -> Events]
    BY <1>2
  <1>4. dump \in Seq(Events) /\ Len(dump) = Len(q)
    BY <1>1, <1>3, FunctionIsSeq
  <1> QED
    BY <1>2, <1>4

----------------------------------------------------------------------------
\* The type invariant. The client's part comes first: one step per callback.

LEMMA InitType == Init => NodeTypeOK
  <1> SUFFICES ASSUME Init PROVE NodeTypeOK
    OBVIOUS
  <1>1. ClientTypeOK
    BY DEF Init, ClientInit, ClientTypeOK, ClientRecords, ClientStates, Links
  <1>2. Len(ClientOrder) \in Nat \ {0}
    BY EmptySeq
  <1> QED
    BY <1>1, <1>2 DEF Init, NodeTypeOK

LEMMA ClientQueue ==
    ASSUME ClientTypeOK, NEW c \in Clients
    PROVE  /\ client[c] \in ClientRecords
           /\ client[c].queue \in Seq(Requests)
           /\ link[c] \in Links
           /\ subscribing[c] \in Nat
  BY DEF ClientTypeOK, ClientRecords

LEMMA PopFrontType ==
    ASSUME ClientTypeOK, NEW c \in Clients, FrontIsSent(c),
           NEW type \in {"DELIVERED", "UNDELIVERED"},
           NEW accepted \in BOOLEAN, PopFront(c, type, accepted)
    PROVE  ClientTypeOK'
  <1> DEFINE popped == [client[c] EXCEPT !.queue = Tail(client[c].queue)]
             event == Resolution(c, type, Head(client[c].queue))
  <1>1. client[c] \in ClientRecords /\ client[c].queue \in Seq(Requests)
    BY ClientQueue
  <1>2. /\ Head(client[c].queue) \in Requests
        /\ Tail(client[c].queue) \in Seq(Requests)
    BY <1>1, HeadAndTail DEF FrontIsSent
  <1>3. popped \in ClientRecords
    BY <1>1, <1>2, QueueType
  <1>4. PublishFromQueue(c, popped, accepted) \in ClientRecords
    BY <1>3, PublishFromQueueType
  <1>5. event \in Events
    BY <1>2, ResolutionType
  <1>6. Append(eventQueue, event) \in Seq(Events)
    BY <1>5, Appended DEF ClientTypeOK
  <1>7. /\ client' = [client EXCEPT ![c] = PublishFromQueue(c, popped, accepted)]
        /\ eventQueue' = Append(eventQueue, event)
        /\ UNCHANGED <<link, subscribing>>
    BY DEF PopFront
  <1> HIDE DEF popped, event
  <1> QED
    BY <1>4, <1>6, <1>7 DEF ClientTypeOK

LEMMA OnDisconnectType ==
    ASSUME ClientTypeOK, NEW c \in Clients, OnDisconnect(c)
    PROVE  ClientTypeOK'
  <1> DEFINE dumped == [client[c] EXCEPT !.queue = <<>>]
             dump == [i \in 1..Len(client[c].queue) |->
                        Resolution(c, "UNDELIVERED", client[c].queue[i])]
             event == Event(c, "DISCONNECTED")
  <1>1. client[c] \in ClientRecords /\ client[c].queue \in Seq(Requests)
    BY ClientQueue
  <1>2. dumped \in ClientRecords
    <2>1. <<>> \in Seq(Requests)
      BY EmptySeq
    <2> QED
      BY <1>1, <2>1, QueueType
  <1>3. SetState(dumped, "DISCONNECTED") \in ClientRecords
    BY <1>2, SetStateType DEF ClientStates
  <1>4. dump \in Seq(Events)
    BY <1>1, DumpType
  <1>5. eventQueue \o dump \in Seq(Events)
    BY <1>4, Extended DEF ClientTypeOK
  <1>6. event \in Events
    BY EventType DEF EventTypes
  <1>7. Append(eventQueue \o dump, event) \in Seq(Events)
    BY <1>5, <1>6, Appended
  <1>8. /\ client' = [client EXCEPT ![c] = SetState(dumped, "DISCONNECTED")]
        /\ eventQueue' = Append(eventQueue \o dump, event)
        /\ link' = [link EXCEPT ![c] = "down"]
        /\ UNCHANGED subscribing
    BY DEF OnDisconnect
  <1> HIDE DEF dumped, dump, event
  <1> QED
    BY <1>3, <1>7, <1>8 DEF ClientTypeOK, Links

LEMMA DeliveryType ==
    ASSUME ClientTypeOK, NEW c \in Clients, Delivery(c)
    PROVE  ClientTypeOK'
  <1>1. PICK accepted \in BOOLEAN :
            OnDelivery(c, accepted) \/ OnDeliveryFailure(c, accepted)
    BY DEF Delivery
  <1>2. FrontIsSent(c)
    BY <1>1 DEF OnDelivery, OnDeliveryFailure
  <1>3. CASE OnDelivery(c, accepted)
    BY <1>2, <1>3, PopFrontType DEF OnDelivery
  <1>4. CASE OnDeliveryFailure(c, accepted)
    <2> DEFINE givenUp == \/ Head(client[c].queue).retryCount >= PUBLISH_RETRIES
                          \/ ~IsConnected(c)
    <2>1. CASE givenUp
      <3>1. PopFront(c, "UNDELIVERED", accepted)
        BY <1>4, <2>1 DEF OnDeliveryFailure
      <3> QED
        BY <1>2, <3>1, PopFrontType
    <2>2. CASE ~givenUp
      <3>1. client[c] \in ClientRecords
        BY ClientQueue
      <3>2. Resent(client[c], accepted) \in ClientRecords
        BY <1>2, <2>2, <3>1, ResentType DEF FrontIsSent
      <3>3. /\ client' = [client EXCEPT ![c] = Resent(client[c], accepted)]
            /\ UNCHANGED <<link, subscribing, eventQueue>>
        BY <1>4, <2>2 DEF OnDeliveryFailure
      <3> QED
        BY <3>2, <3>3 DEF ClientTypeOK
    <2> QED
      BY <2>1, <2>2
  <1> QED
    BY <1>1, <1>3, <1>4

LEMMA ConnectionType ==
    ASSUME ClientTypeOK, NEW c \in Clients, Connection(c)
    PROVE  ClientTypeOK'
  <1>1. client[c] \in ClientRecords
    BY ClientQueue
  <1>2. CASE OnConnect(c)
    <2>1. [client[c] EXCEPT !.born = {}] \in ClientRecords
      BY <1>1 DEF ClientRecords
    <2>2. SetState([client[c] EXCEPT !.born = {}], "CONNECTED") \in ClientRecords
      BY <2>1, SetStateType DEF ClientStates
    <2>3. Append(eventQueue, Event(c, "CONNECTED")) \in Seq(Events)
      BY EventType, Appended DEF EventTypes, ClientTypeOK
    <2> QED
      BY <1>2, <2>2, <2>3 DEF OnConnect, ClientTypeOK, Links
  <1>3. CASE OnConnectFailure(c)
    <2>1. SetState(client[c], "DISCONNECTED") \in ClientRecords
      BY <1>1, SetStateType DEF ClientStates
    <2> QED
      BY <1>3, <2>1 DEF OnConnectFailure, ClientTypeOK, Links
  <1> QED
    BY <1>2, <1>3 DEF Connection

LEMMA SubscriptionType ==
    ASSUME ClientTypeOK, NEW c \in Clients, Subscription(c)
    PROVE  ClientTypeOK'
  <1>1. subscribing[c] \in Nat /\ subscribing[c] > 0
    BY ClientQueue DEF Subscription, OnCommandSubscription,
                       OnCommandSubscribeFailure
  <1>2. subscribing[c] - 1 \in Nat
    BY <1>1
  <1>3. Append(eventQueue, Event(c, "ACTIVE")) \in Seq(Events)
    BY EventType, Appended DEF EventTypes, ClientTypeOK
  <1> QED
    BY <1>2, <1>3 DEF Subscription, OnCommandSubscription,
                      OnCommandSubscribeFailure, ClientTypeOK

LEMMA OnMessageType ==
    ASSUME ClientTypeOK, NEW c \in Clients, NEW type \in EventTypes,
           OnMessage(c, type)
    PROVE  ClientTypeOK'
  <1>1. Append(eventQueue, Event(c, type)) \in Seq(Events)
    BY EventType, Appended DEF ClientTypeOK
  <1> QED
    BY <1>1 DEF OnMessage, ClientTypeOK

----------------------------------------------------------------------------
\* The steps of the thread that calls execute(), and of the application.

LEMMA OrderType ==
    ASSUME NodeTypeOK
    PROVE  /\ Len(ClientOrder) \in Nat \ {0} /\ Len(PublishOrder) \in Nat \ {0}
           /\ pc \in {"execute", "connecting"} => Self \in Clients
           /\ pc = "publish" => PublishOrder[turn] \in Publishables
  <1>1. Len(ClientOrder) \in Nat \ {0} /\ Len(PublishOrder) \in Nat \ {0}
    BY EmptySeq
  <1>2. ASSUME pc \in {"execute", "connecting"} PROVE Self \in Clients
    <2>1. turn \in 1..Len(ClientOrder)
      BY <1>1, <1>2 DEF NodeTypeOK
    <2> QED
      BY <2>1, ElementOfSeq DEF Self
  <1>3. ASSUME pc = "publish" PROVE PublishOrder[turn] \in Publishables
    <2>1. turn \in 1..Len(PublishOrder)
      BY <1>1, <1>3 DEF NodeTypeOK
    <2> QED
      BY <2>1, ElementOfSeq
  <1> QED
    BY <1>1, <1>2, <1>3

LEMMA ConnectType ==
    ASSUME NodeTypeOK, ConnectClient \/ ConnectReturns \/ SkipClient
    PROVE  NodeTypeOK'
  <1>1. /\ Self \in Clients /\ Len(ClientOrder) \in Nat \ {0}
        /\ turn \in Nat \ {0} /\ turn <= Len(ClientOrder)
        /\ pc \in {"execute", "connecting"}
    BY OrderType DEF ConnectClient, ConnectReturns, SkipClient, NodeTypeOK
  <1>2. client[Self] \in ClientRecords
    BY <1>1, ClientQueue DEF NodeTypeOK
  <1>3. SetState(client[Self], "CONNECTING") \in ClientRecords
    BY <1>2, SetStateType DEF ClientStates
  <1>4. /\ client' \in [Clients -> ClientRecords]
        /\ link' \in [Clients -> Links]
        /\ UNCHANGED <<subscribing, eventQueue>>
    <2>1. client \in [Clients -> ClientRecords] /\ link \in [Clients -> Links]
      BY DEF NodeTypeOK, ClientTypeOK
    <2>2. client' = [client EXCEPT ![Self] = SetState(client[Self], "CONNECTING")]
          \/ UNCHANGED client
      BY DEF ConnectClient, ConnectReturns, SkipClient, clientVars
    <2>3. link' = [link EXCEPT ![Self] = "connecting"] \/ UNCHANGED link
      BY DEF ConnectClient, ConnectReturns, SkipClient, clientVars
    <2>4. UNCHANGED <<subscribing, eventQueue>>
      BY DEF ConnectClient, ConnectReturns, SkipClient, clientVars
    <2>5. "connecting" \in Links
      BY DEF Links
    <2> QED
      BY <1>3, <2>1, <2>2, <2>3, <2>4, <2>5
  <1>5. /\ pc' \in {"execute", "connecting", "events"}
        /\ turn' \in Nat \ {0}
        /\ pc' \in {"execute", "connecting"} => turn' <= Len(ClientOrder)
        /\ UNCHANGED <<hostMode, activeClient, publishing, hostOnline, disruptions>>
    BY <1>1 DEF ConnectClient, ConnectReturns, SkipClient, NextClient
  <1> QED
    BY <1>4, <1>5 DEF NodeTypeOK, ClientTypeOK

LEMMA PopType ==
    ASSUME NodeTypeOK, NEW c, NEW type, Pop(c, type)
    PROVE  /\ eventQueue \in Seq(Events) /\ eventQueue # <<>>
           /\ eventQueue' = Tail(eventQueue)
           /\ eventQueue' \in Seq(Events)
           /\ pc = "events"
           /\ UNCHANGED <<link, hostMode, pc, turn, hostOnline, disruptions>>
  BY HeadAndTail DEF Pop, NodeTypeOK, ClientTypeOK

LEMMA ActivateClientType ==
    ASSUME ClientTypeOK, NEW c \in Clients, ActivateClient(c)
    PROVE  /\ client' \in [Clients -> ClientRecords]
           /\ subscribing' \in [Clients -> Nat]
  <1>1. client[c] \in ClientRecords /\ subscribing[c] + 1 \in Nat
    BY ClientQueue
  <1>2. [client[c] EXCEPT !.primary = TRUE] \in ClientRecords
    BY <1>1 DEF ClientRecords
  <1> QED
    BY <1>1, <1>2 DEF ActivateClient, ClientTypeOK

LEMMA DeactivateClientType ==
    ASSUME NodeTypeOK, NEW c \in Clients, DeactivateClient(c)
    PROVE  /\ client' \in [Clients -> ClientRecords]
           /\ activeClient' \in Clients \cup {NoClient}
  <1>1. Deactivate(client[c]) \in ClientRecords
    BY ClientQueue, DeactivateType DEF NodeTypeOK
  <1> QED
    BY <1>1 DEF DeactivateClient, NodeTypeOK, ClientTypeOK

LEMMA SetActiveClientType ==
    ASSUME NodeTypeOK, NEW c \in Clients, NEW accepted \in BOOLEAN,
           SetActiveClient(c, accepted)
    PROVE  /\ client' \in [Clients -> ClientRecords]
           /\ activeClient' = c
           /\ publishing' \subseteq Publishables
  <1>1. ASSUME NEW d \in Clients
        PROVE  /\ client[d] \in ClientRecords
               /\ Deactivate(client[d]) \in ClientRecords
    BY ClientQueue, DeactivateType DEF NodeTypeOK
  <1>2. Requested(c, client[c], BirthRequests, accepted) \in ClientRecords
    BY <1>1, BirthRequestsType, RequestedType
  <1>3. {PublishOrder[i] : i \in 1..Len(PublishOrder)} \subseteq Publishables
    BY ElementOfSeq
  <1> QED
    BY <1>1, <1>2, <1>3 DEF SetActiveClient, NodeTypeOK

LEMMA ProcessType ==
    ASSUME NodeTypeOK, NEW c \in Clients, NEW accepted \in BOOLEAN,
           \/ ProcessConnected(c) \/ ProcessDisconnected(c) \/ ProcessResolved(c)
           \/ ProcessOnline(c) \/ ProcessOffline(c)
           \/ ProcessActive(c, accepted) \/ ProcessRebirth(c, accepted)
    PROVE  NodeTypeOK'
  <1>1. /\ eventQueue' \in Seq(Events) /\ pc = "events"
        /\ UNCHANGED <<link, hostMode, pc, turn, hostOnline, disruptions>>
    BY PopType DEF ProcessConnected, ProcessDisconnected, ProcessResolved,
         ProcessOnline, ProcessOffline, ProcessActive, ProcessRebirth
  <1>2. /\ client' \in [Clients -> ClientRecords]
        /\ subscribing' \in [Clients -> Nat]
        /\ activeClient' \in Clients \cup {NoClient}
        /\ publishing' \subseteq Publishables
    <2>1. ClientTypeOK /\ publishing \subseteq Publishables
          /\ activeClient \in Clients \cup {NoClient}
          /\ client \in [Clients -> ClientRecords]
          /\ subscribing \in [Clients -> Nat]
      BY DEF NodeTypeOK, ClientTypeOK
    <2>2. CASE ProcessConnected(c) \/ ProcessOnline(c)
      BY <2>1, <2>2, ActivateClientType DEF ProcessConnected, ProcessOnline
    <2>3. CASE ProcessDisconnected(c) \/ ProcessOffline(c)
      BY <2>1, <2>3, DeactivateClientType DEF ProcessDisconnected, ProcessOffline
    <2>4. CASE ProcessActive(c, accepted) \/ ProcessRebirth(c, accepted)
      BY <2>1, <2>4, SetActiveClientType DEF ProcessActive, ProcessRebirth
    <2>5. CASE ProcessResolved(c)
      BY <2>1, <2>5 DEF ProcessResolved
    <2> QED
      BY <2>2, <2>3, <2>4, <2>5
  <1> QED
    BY <1>1, <1>2 DEF NodeTypeOK, ClientTypeOK

LEMMA PublishType ==
    ASSUME NodeTypeOK, activeClient # NoClient, NEW p \in Publishables,
           NEW isBirth \in BOOLEAN, NEW accepted \in BOOLEAN,
           Publish(p, isBirth, accepted)
    PROVE  /\ client' \in [Clients -> ClientRecords]
           /\ publishing' \subseteq Publishables
  <1>1. activeClient \in Clients /\ client[activeClient] \in ClientRecords
    BY ClientQueue DEF NodeTypeOK
  <1>2. <<NewRequest(p, isBirth)>> \in Seq(Requests)
    BY NewRequestType
  <1>3. Requested(activeClient, client[activeClient],
                  <<NewRequest(p, isBirth)>>, accepted) \in ClientRecords
    BY <1>1, <1>2, RequestedType
  <1> QED
    BY <1>1, <1>3 DEF Publish, NodeTypeOK, ClientTypeOK

LEMMA PublishNextType ==
    ASSUME NodeTypeOK, NEW accepted \in BOOLEAN, PublishNext(accepted)
    PROVE  NodeTypeOK'
  <1>1. /\ PublishOrder[turn] \in Publishables /\ activeClient # NoClient
        /\ Len(PublishOrder) \in Nat \ {0} /\ Len(ClientOrder) \in Nat \ {0}
        /\ turn \in Nat \ {0} /\ turn <= Len(PublishOrder)
    BY OrderType DEF PublishNext, NodeTypeOK
  <1>2. /\ client' \in [Clients -> ClientRecords]
        /\ publishing' \subseteq Publishables
    <2>1. CASE Publish(PublishOrder[turn], FALSE, accepted)
      BY <1>1, <2>1, PublishType
    <2>2. CASE UNCHANGED <<client, publishing>>
      BY <2>2 DEF NodeTypeOK, ClientTypeOK
    <2> QED
      BY <2>1, <2>2 DEF PublishNext
  <1>3. /\ pc' \in {"execute", "publish"} /\ turn' \in Nat \ {0}
        /\ pc' = "execute" => turn' <= Len(ClientOrder)
        /\ pc' = "publish" => turn' <= Len(PublishOrder)
        /\ UNCHANGED <<link, subscribing, eventQueue, hostMode, activeClient,
                       hostOnline, disruptions>>
    BY <1>1 DEF PublishNext
  <1> QED
    BY <1>1, <1>2, <1>3 DEF NodeTypeOK, ClientTypeOK

LEMMA EventsProcessedType ==
    ASSUME NodeTypeOK, EventsProcessed
    PROVE  NodeTypeOK'
  <1>1. Len(PublishOrder) \in Nat \ {0} /\ Len(ClientOrder) \in Nat \ {0}
    BY OrderType
  <1> QED
    BY <1>1 DEF EventsProcessed, clientVars, NodeTypeOK, ClientTypeOK

LEMMA DisruptType ==
    ASSUME NodeTypeOK, Disrupt
    PROVE  disruptions' \in 0..MaxDisruptions
  BY DEF NodeTypeOK, Disrupt

LEMMA ApplicationType ==
    ASSUME NodeTypeOK, Application
    PROVE  NodeTypeOK'
  <1>1. CASE \E p \in Publishables, isBirth, accepted \in BOOLEAN :
                RequestPublish(p, isBirth, accepted)
    <2>1. PICK p \in Publishables, isBirth \in BOOLEAN, accepted \in BOOLEAN :
                  RequestPublish(p, isBirth, accepted)
      BY <1>1
    <2>2. /\ client' \in [Clients -> ClientRecords]
          /\ publishing' \subseteq Publishables
      BY <2>1, PublishType DEF RequestPublish
    <2>3. disruptions' \in 0..MaxDisruptions
      BY <2>1, DisruptType DEF RequestPublish
    <2> QED
      BY <2>1, <2>2, <2>3 DEF RequestPublish, NodeTypeOK, ClientTypeOK
  <1>2. CASE Stop
    <2>1. ASSUME NEW c \in Clients
          PROVE  /\ Deactivate(client[c]) \in ClientRecords
                 /\ SetState(Deactivate(client[c]), "DISCONNECTING") \in ClientRecords
      BY ClientQueue, DeactivateType, SetStateType DEF NodeTypeOK, ClientStates
    <2>2. client' \in [Clients -> ClientRecords]
      BY <1>2, <2>1 DEF Stop
    <2>3. link' \in [Clients -> Links] /\ subscribing' \in [Clients -> Nat]
      BY <1>2 DEF Stop, NodeTypeOK, ClientTypeOK, Links
    <2> QED
      BY <1>2, <2>2, <2>3 DEF Stop, NodeTypeOK, ClientTypeOK
  <1>3. CASE Stopped
    BY <1>3 DEF Stopped, vars, clientVars, nodeVars, NodeTypeOK, ClientTypeOK
  <1> QED
    BY <1>1, <1>2, <1>3 DEF Application

\* The library's threads leave the node's own variables alone.
LEMMA LibraryType ==
    ASSUME NodeTypeOK, NEW c \in Clients, NEW online \in BOOLEAN,
           Callback(c) \/ Lose(c) \/ Command(c) \/ HostMessage(c, online)
    PROVE  NodeTypeOK'
  <1>0. ClientTypeOK
    BY DEF NodeTypeOK
  <1>1. CASE Callback(c)
    <2>1. ClientTypeOK'
      BY <1>0, <1>1, ConnectionType, SubscriptionType, DeliveryType,
         OnDisconnectType DEF Callback
    <2> QED
      BY <1>1, <2>1 DEF Callback, nodeVars, NodeTypeOK
  <1>2. CASE Lose(c)
    <2>1. ClientTypeOK'
      BY <1>0, <1>2 DEF Lose, LinkLost, ClientTypeOK, Links
    <2>2. disruptions' \in 0..MaxDisruptions
      BY <1>2, DisruptType DEF Lose
    <2> QED
      BY <1>2, <2>1, <2>2 DEF Lose, NodeTypeOK
  <1>3. CASE Command(c)
    <2>1. ClientTypeOK'
      BY <1>0, <1>3, OnMessageType DEF Command, EventTypes
    <2>2. disruptions' \in 0..MaxDisruptions
      BY <1>3, DisruptType DEF Command
    <2> QED
      BY <1>3, <2>1, <2>2 DEF Command, NodeTypeOK
  <1>4. CASE HostMessage(c, online)
    <2>1. ClientTypeOK'
      BY <1>0, <1>4, OnMessageType DEF HostMessage, EventTypes
    <2>2. disruptions' \in 0..MaxDisruptions
      BY <1>4, DisruptType DEF HostMessage
    <2>3. hostOnline' \in [Clients -> BOOLEAN]
      BY <1>4 DEF HostMessage, NodeTypeOK
    <2> QED
      BY <1>4, <2>1, <2>2, <2>3 DEF HostMessage, NodeTypeOK
  <1> QED
    BY <1>1, <1>2, <1>3, <1>4

LEMMA NextType == NodeTypeOK /\ [Next]_vars => NodeTypeOK'
  <1> SUFFICES ASSUME NodeTypeOK, [Next]_vars PROVE NodeTypeOK'
    OBVIOUS
  <1>1. CASE Execute
    <2>1. CASE ConnectClient \/ ConnectReturns \/ SkipClient
      BY <2>1, ConnectType
    <2>2. ASSUME NEW c \in Clients,
                 \/ ProcessConnected(c) \/ ProcessDisconnected(c)
                 \/ ProcessResolved(c)
                 \/ ProcessOnline(c) \/ ProcessOffline(c)
                 \/ \E accepted \in BOOLEAN :
                       ProcessActive(c, accepted) \/ ProcessRebirth(c, accepted)
          PROVE  NodeTypeOK'
      BY <2>2, ProcessType
    <2>3. CASE EventsProcessed
      BY <2>3, EventsProcessedType
    <2>4. CASE \E accepted \in BOOLEAN : PublishNext(accepted)
      BY <2>4, PublishNextType
    <2> QED
      BY <1>1, <2>1, <2>2, <2>3, <2>4 DEF Execute
  <1>2. CASE Application
    BY <1>2, ApplicationType
  <1>3. ASSUME NEW c \in Clients,
               \/ Callback(c) \/ Lose(c) \/ Command(c)
               \/ \E online \in BOOLEAN : HostMessage(c, online)
        PROVE  NodeTypeOK'
    BY <1>3, LibraryType
  <1>4. CASE UNCHANGED vars
    BY <1>4 DEF vars, clientVars, nodeVars, NodeTypeOK, ClientTypeOK
  <1> QED
    BY <1>1, <1>2, <1>3, <1>4 DEF Next

\* Node's variables have their types in every reachable state; among them, that
\* a client's queue holds requests whose retryCount stays within
\* PUBLISH_RETRIES, and that execute() publishes only with an active client.
THEOREM NodeTypeCorrect == Spec => []NodeTypeOK
  <1>1. Init => NodeTypeOK
    BY InitType
  <1>2. NodeTypeOK /\ [Next]_vars => NodeTypeOK'
    BY NextType
  <1> QED
    BY <1>1, <1>2, PTL DEF Spec

----------------------------------------------------------------------------
\* ActiveIsAlive. Its strengthening, ActiveEventIsAlive, is what makes the
\* activation of a client by a queued event safe: the event may be older than
\* the loss of the connection it is about.

ActiveInv == ActiveIsAlive /\ ActiveEventIsAlive

HasLink(l, c) == l[c] \in {"up", "lost"}

\* A step that only puts events behind the queued ones, none of them ACTIVE for
\* a client without a link, and DISCONNECTED for each client that loses it.
EventsAdded ==
    /\ Len(eventQueue') \in Nat /\ Len(eventQueue) \in Nat
    /\ Len(eventQueue') >= Len(eventQueue)
    /\ \A i \in 1..Len(eventQueue) : eventQueue'[i] = eventQueue[i]
    /\ \A i \in 1..Len(eventQueue') :
          i > Len(eventQueue) /\ eventQueue'[i].type = "ACTIVE"
              => HasLink(link', eventQueue'[i].client)
    /\ \A c \in Clients : HasLink(link, c) =>
          \/ HasLink(link', c)
          \/ \E i \in 1..Len(eventQueue') :
                /\ i > Len(eventQueue)
                /\ eventQueue'[i].client = c
                /\ eventQueue'[i].type = "DISCONNECTED"

LEMMA EventClient ==
    ASSUME ClientTypeOK
    PROVE  /\ Len(eventQueue) \in Nat
           /\ \A i \in 1..Len(eventQueue) : eventQueue[i].client \in Clients
  <1>1. \A i \in 1..Len(eventQueue) : eventQueue[i] \in Events
    BY ElementOfSeq DEF ClientTypeOK
  <1>2. \A e \in Events : e.client \in Clients
    BY DEF Events
  <1> QED
    BY <1>1, <1>2 DEF ClientTypeOK

LEMMA EventsAddedKeepsActiveInv ==
    ASSUME ClientTypeOK, ActiveInv, EventsAdded, UNCHANGED activeClient,
           Running' => Running
    PROVE  ActiveInv'
  <1>1. ActiveIsAlive'
    <2> SUFFICES ASSUME NEW c \in Clients, Running', activeClient = c
                 PROVE  HasLink(link', c) \/ Queued(c, "DISCONNECTED")'
      BY DEF ActiveIsAlive, HasLink
    <2>1. HasLink(link, c) \/ Queued(c, "DISCONNECTED")
      BY DEF ActiveInv, ActiveIsAlive, HasLink
    <2>2. CASE HasLink(link, c)
      BY <2>2 DEF EventsAdded, Queued
    <2>3. CASE Queued(c, "DISCONNECTED")
      BY <2>3 DEF EventsAdded, Queued
    <2> QED
      BY <2>1, <2>2, <2>3
  <1>2. ActiveEventIsAlive'
    <2> SUFFICES ASSUME NEW i \in 1..Len(eventQueue'), Running',
                        eventQueue'[i].type = "ACTIVE"
                 PROVE  \/ HasLink(link', eventQueue'[i].client)
                        \/ \E j \in i + 1 .. Len(eventQueue') :
                              /\ eventQueue'[j].client = eventQueue'[i].client
                              /\ eventQueue'[j].type = "DISCONNECTED"
      BY DEF ActiveEventIsAlive, HasLink
    <2>1. CASE i > Len(eventQueue)
      BY <2>1 DEF EventsAdded
    <2>2. CASE ~(i > Len(eventQueue))
      <3>1. /\ i \in 1..Len(eventQueue) /\ i \in Nat /\ Len(eventQueue) \in Nat
            /\ eventQueue'[i] = eventQueue[i]
        BY <2>2 DEF EventsAdded
      <3>2. PICK c \in Clients : c = eventQueue[i].client
        BY <3>1, EventClient
      <3>3. \/ HasLink(link, c)
            \/ \E j \in i + 1 .. Len(eventQueue) :
                  eventQueue[j].client = c /\ eventQueue[j].type = "DISCONNECTED"
        BY <3>1, <3>2 DEF ActiveInv, ActiveEventIsAlive, HasLink
      <3>4. CASE HasLink(link, c)
        <4>1. CASE HasLink(link', c)
          BY <3>1, <3>2, <4>1
        <4>2. CASE ~HasLink(link', c)
          <5>1. PICK j \in 1..Len(eventQueue') :
                    /\ j > Len(eventQueue)
                    /\ eventQueue'[j].client = c
                    /\ eventQueue'[j].type = "DISCONNECTED"
            BY <3>4, <4>2 DEF EventsAdded
          <5>2. j \in i + 1 .. Len(eventQueue')
            BY <3>1, <5>1 DEF EventsAdded
          <5>3. eventQueue'[i].client = c
            BY <3>1, <3>2
          <5> QED
            BY <5>1, <5>2, <5>3
        <4> QED
          BY <4>1, <4>2
      <3>5. CASE \E j \in i + 1 .. Len(eventQueue) :
                    eventQueue[j].client = c /\ eventQueue[j].type = "DISCONNECTED"
        BY <3>1, <3>2, <3>5 DEF EventsAdded
      <3> QED
        BY <3>3, <3>4, <3>5
    <2> QED
      BY <2>1, <2>2
  <1> QED
    BY <1>1, <1>2 DEF ActiveInv

\* A step that processes the front event: a client becomes active only by its
\* ACTIVE event, and its DISCONNECTED event ends that.
LEMMA PopKeepsActiveInv ==
    ASSUME ClientTypeOK, ActiveInv, eventQueue # <<>>,
           eventQueue' = Tail(eventQueue), UNCHANGED link, Running' => Running,
           \A c \in Clients : activeClient' = c =>
              \/ /\ activeClient = c
                 /\ ~(Head(eventQueue).client = c /\ Head(eventQueue).type = "DISCONNECTED")
              \/ Head(eventQueue).client = c /\ Head(eventQueue).type = "ACTIVE"
    PROVE  ActiveInv'
  <1> DEFINE n == Len(eventQueue)
  <1>1. /\ n \in Nat \ {0} /\ Len(eventQueue') = n - 1
        /\ \A i \in 1..(n - 1) : eventQueue'[i] = eventQueue[i + 1]
        /\ Head(eventQueue) = eventQueue[1]
    BY HeadAndTail, EmptySeq DEF ClientTypeOK
  <1>2. ASSUME NEW j \in 2..n
        PROVE  j - 1 \in 1..(n - 1) /\ eventQueue'[j - 1] = eventQueue[j]
    BY <1>1
  <1>3. ActiveIsAlive'
    <2> SUFFICES ASSUME NEW c \in Clients, Running', activeClient' = c
                 PROVE  HasLink(link, c) \/ Queued(c, "DISCONNECTED")'
      BY DEF ActiveIsAlive, HasLink
    <2>1. \/ HasLink(link, c)
          \/ \E j \in 2..n : /\ eventQueue[j].client = c
                             /\ eventQueue[j].type = "DISCONNECTED"
      <3>1. CASE /\ activeClient = c
                 /\ ~(/\ Head(eventQueue).client = c
                      /\ Head(eventQueue).type = "DISCONNECTED")
        BY <1>1, <3>1 DEF ActiveInv, ActiveIsAlive, HasLink, Queued
      <3>2. CASE Head(eventQueue).client = c /\ Head(eventQueue).type = "ACTIVE"
        BY <1>1, <3>2 DEF ActiveInv, ActiveEventIsAlive, HasLink
      <3> QED
        BY <3>1, <3>2
    <2> QED
      BY <1>1, <1>2, <2>1 DEF Queued
  <1>4. ActiveEventIsAlive'
    <2> SUFFICES ASSUME NEW i \in 1..(n - 1), Running',
                        eventQueue'[i].type = "ACTIVE"
                 PROVE  \/ HasLink(link, eventQueue'[i].client)
                        \/ \E j \in i + 1 .. n - 1 :
                              /\ eventQueue'[j].client = eventQueue'[i].client
                              /\ eventQueue'[j].type = "DISCONNECTED"
      BY <1>1 DEF ActiveEventIsAlive, HasLink
    <2>1. /\ i + 1 \in 1..n /\ i \in Nat /\ n \in Nat
          /\ eventQueue'[i] = eventQueue[i + 1]
      BY <1>1
    <2>2. \/ HasLink(link, eventQueue[i + 1].client)
          \/ \E j \in (i + 1) + 1 .. n :
                /\ eventQueue[j].client = eventQueue[i + 1].client
                /\ eventQueue[j].type = "DISCONNECTED"
      BY <2>1 DEF ActiveInv, ActiveEventIsAlive, HasLink
    <2>3. ASSUME NEW j \in (i + 1) + 1 .. n
          PROVE  /\ j - 1 \in i + 1 .. n - 1
                 /\ eventQueue'[j - 1] = eventQueue[j]
      BY <1>1, <2>1
    <2> HIDE DEF n
    <2>4. CASE HasLink(link, eventQueue[i + 1].client)
      BY <2>1, <2>4
    <2>5. ASSUME NEW j \in (i + 1) + 1 .. n,
                 eventQueue[j].client = eventQueue[i + 1].client,
                 eventQueue[j].type = "DISCONNECTED"
          PROVE  \E k \in i + 1 .. n - 1 :
                    /\ eventQueue'[k].client = eventQueue'[i].client
                    /\ eventQueue'[k].type = "DISCONNECTED"
      <3>1. /\ j - 1 \in i + 1 .. n - 1
            /\ eventQueue'[j - 1].client = eventQueue'[i].client
            /\ eventQueue'[j - 1].type = "DISCONNECTED"
        BY <2>1, <2>3, <2>5
      <3> QED
        BY <3>1
    <2> QED
      BY <2>2, <2>4, <2>5
  <1> QED
    BY <1>3, <1>4 DEF ActiveInv

LEMMA SameEvents ==
    ASSUME ClientTypeOK, UNCHANGED eventQueue,
           \A c \in Clients : HasLink(link, c) => HasLink(link', c)
    PROVE  EventsAdded
  BY EventClient DEF EventsAdded

LEMMA OneEventAdded ==
    ASSUME ClientTypeOK, NEW e \in Events, eventQueue' = Append(eventQueue, e),
           e.type = "ACTIVE" => HasLink(link', e.client),
           \A c \in Clients : HasLink(link, c) => HasLink(link', c)
    PROVE  EventsAdded
  <1>1. /\ Len(eventQueue') = Len(eventQueue) + 1
        /\ \A i \in 1..Len(eventQueue) : eventQueue'[i] = eventQueue[i]
        /\ eventQueue'[Len(eventQueue) + 1] = e
    BY Appended DEF ClientTypeOK
  <1> QED
    BY <1>1, EventClient DEF EventsAdded

LEMMA OnDisconnectAddsEvents ==
    ASSUME ClientTypeOK, NEW c \in Clients, OnDisconnect(c)
    PROVE  EventsAdded
  <1> DEFINE dump == [i \in 1..Len(client[c].queue) |->
                        Resolution(c, "UNDELIVERED", client[c].queue[i])]
             event == Event(c, "DISCONNECTED")
             n == Len(eventQueue)
             m == Len(dump)
  <1>1. client[c].queue \in Seq(Requests) /\ eventQueue \in Seq(Events)
    BY ClientQueue DEF ClientTypeOK
  <1>2. /\ dump \in Seq(Events)
        /\ \A i \in 1..Len(dump) : dump[i].type = "UNDELIVERED"
    BY <1>1, DumpType
  <1>3. event \in Events /\ event.client = c /\ event.type = "DISCONNECTED"
    BY EventType DEF EventTypes
  <1>4. eventQueue' = Append(eventQueue \o dump, event)
        /\ link' = [link EXCEPT ![c] = "down"]
    BY DEF OnDisconnect
  <1> HIDE DEF dump, event
  <1>5. /\ eventQueue \o dump \in Seq(Events) /\ Len(eventQueue \o dump) = n + m
        /\ \A i \in 1..n : (eventQueue \o dump)[i] = eventQueue[i]
        /\ \A i \in 1..m : (eventQueue \o dump)[n + i] = dump[i]
        /\ n \in Nat /\ m \in Nat
    BY <1>1, <1>2, Extended
  <1>6. /\ Len(eventQueue') = n + m + 1
        /\ \A i \in 1..(n + m) : eventQueue'[i] = (eventQueue \o dump)[i]
        /\ eventQueue'[n + m + 1] = event
    BY <1>3, <1>4, <1>5, Appended
  <1>7. \A i \in 1..n : eventQueue'[i] = eventQueue[i]
    BY <1>5, <1>6
  <1>8. ASSUME NEW i \in 1..Len(eventQueue'), i > n
        PROVE  eventQueue'[i].type # "ACTIVE"
    <2>1. CASE i = n + m + 1
      BY <1>3, <1>6, <2>1
    <2>2. CASE i # n + m + 1
      <3>1. i - n \in 1..m /\ n + (i - n) = i /\ i \in 1..(n + m)
        BY <1>5, <1>6, <1>8, <2>2
      <3>2. eventQueue'[i] = dump[i - n]
        BY <1>5, <1>6, <3>1
      <3> QED
        BY <1>2, <3>1, <3>2
    <2> QED
      BY <2>1, <2>2
  <1>9. \A d \in Clients : HasLink(link, d) => HasLink(link', d) \/ d = c
    BY <1>4 DEF HasLink, ClientTypeOK
  <1>10. n + m + 1 \in 1..Len(eventQueue') /\ n + m + 1 > n
    BY <1>5, <1>6
  <1> QED
    BY <1>3, <1>5, <1>6, <1>7, <1>8, <1>9, <1>10 DEF EventsAdded

LEMMA CallbackKeepsActiveInv ==
    ASSUME NodeTypeOK, ActiveInv, NEW c \in Clients, Callback(c)
    PROVE  ActiveInv'
  <1>1. ClientTypeOK /\ UNCHANGED activeClient /\ (Running' => Running)
    BY DEF NodeTypeOK, Callback, nodeVars, Running
  <1>2. CASE OnConnect(c)
    <2>1. Event(c, "CONNECTED") \in Events /\ Event(c, "CONNECTED").type = "CONNECTED"
      BY EventType DEF EventTypes
    <2>2. \A d \in Clients : HasLink(link, d) => HasLink(link', d)
      BY <1>1, <1>2 DEF OnConnect, HasLink, ClientTypeOK
    <2> QED
      BY <1>1, <1>2, <2>1, <2>2, OneEventAdded, EventsAddedKeepsActiveInv
         DEF OnConnect
  <1>3. CASE OnConnectFailure(c)
    <2>1. \A d \in Clients : HasLink(link, d) => HasLink(link', d)
      BY <1>1, <1>3 DEF OnConnectFailure, HasLink, ClientTypeOK
    <2> QED
      BY <1>1, <1>3, <2>1, SameEvents, EventsAddedKeepsActiveInv
         DEF OnConnectFailure
  <1>4. CASE OnDisconnect(c)
    BY <1>1, <1>4, OnDisconnectAddsEvents, EventsAddedKeepsActiveInv
  <1>5. CASE Subscription(c)
    <2>1. Event(c, "ACTIVE") \in Events /\ Event(c, "ACTIVE").client = c
      BY EventType DEF EventTypes
    <2>2. HasLink(link', c) /\ link' = link
      BY <1>5 DEF Subscription, OnCommandSubscription,
                  OnCommandSubscribeFailure, HasLink
    <2>3. CASE UNCHANGED eventQueue
      BY <1>1, <2>2, <2>3, SameEvents, EventsAddedKeepsActiveInv
    <2>4. CASE eventQueue' = Append(eventQueue, Event(c, "ACTIVE"))
      BY <1>1, <2>1, <2>2, <2>4, OneEventAdded, EventsAddedKeepsActiveInv
    <2> QED
      BY <1>5, <2>3, <2>4 DEF Subscription, OnCommandSubscription,
                              OnCommandSubscribeFailure
  <1>6. CASE Delivery(c)
    <2>1. PICK accepted \in BOOLEAN :
             OnDelivery(c, accepted) \/ OnDeliveryFailure(c, accepted)
      BY <1>6 DEF Delivery
    <2>2. /\ link' = link /\ FrontIsSent(c)
          /\ \/ UNCHANGED eventQueue
             \/ \E type \in {"DELIVERED", "UNDELIVERED"} :
                   eventQueue' = Append(eventQueue,
                                   Resolution(c, type, Head(client[c].queue)))
      BY <2>1 DEF OnDelivery, OnDeliveryFailure, PopFront
    <2>3. Head(client[c].queue) \in Requests
      BY <1>1, <2>2, ClientQueue, HeadAndTail DEF FrontIsSent
    <2>4. CASE UNCHANGED eventQueue
      BY <1>1, <2>2, <2>4, SameEvents, EventsAddedKeepsActiveInv
    <2>5. ASSUME NEW type \in {"DELIVERED", "UNDELIVERED"},
                 eventQueue' = Append(eventQueue,
                                 Resolution(c, type, Head(client[c].queue)))
          PROVE  ActiveInv'
      <3>1. /\ Resolution(c, type, Head(client[c].queue)) \in Events
            /\ Resolution(c, type, Head(client[c].queue)).type # "ACTIVE"
        BY <2>3, ResolutionType
      <3> QED
        BY <1>1, <2>2, <2>5, <3>1, OneEventAdded, EventsAddedKeepsActiveInv
    <2> QED
      BY <2>2, <2>4, <2>5
  <1> QED
    BY <1>2, <1>3, <1>4, <1>5, <1>6 DEF Callback, Connection

LEMMA LibraryKeepsActiveInv ==
    ASSUME NodeTypeOK, ActiveInv, NEW c \in Clients, NEW online \in BOOLEAN,
           Lose(c) \/ Command(c) \/ HostMessage(c, online)
    PROVE  ActiveInv'
  <1>1. ClientTypeOK /\ UNCHANGED activeClient /\ (Running' => Running)
    BY DEF NodeTypeOK, Lose, Command, HostMessage, Running
  <1>2. CASE Lose(c)
    <2>1. \A d \in Clients : HasLink(link, d) => HasLink(link', d)
      BY <1>1, <1>2 DEF Lose, LinkLost, HasLink, ClientTypeOK
    <2> QED
      BY <1>1, <1>2, <2>1, SameEvents, EventsAddedKeepsActiveInv
         DEF Lose, LinkLost
  <1>3. CASE Command(c) \/ HostMessage(c, online)
    <2>1. PICK type \in {"ONLINE", "OFFLINE", "REBIRTH"} : OnMessage(c, type)
      BY <1>3 DEF Command, HostMessage
    <2>2. Event(c, type) \in Events /\ Event(c, type).type # "ACTIVE"
      BY EventType DEF EventTypes
    <2> QED
      BY <1>1, <2>1, <2>2, OneEventAdded, EventsAddedKeepsActiveInv DEF OnMessage
  <1> QED
    BY <1>2, <1>3

LEMMA ProcessKeepsActiveInv ==
    ASSUME NodeTypeOK, ActiveInv, NEW c \in Clients, NEW accepted \in BOOLEAN,
           \/ ProcessConnected(c) \/ ProcessDisconnected(c) \/ ProcessResolved(c)
           \/ ProcessOnline(c) \/ ProcessOffline(c)
           \/ ProcessActive(c, accepted) \/ ProcessRebirth(c, accepted)
    PROVE  ActiveInv'
  <1>1. PICK type \in EventTypes :
           /\ Pop(c, type)
           /\ type = "DISCONNECTED" => DeactivateClient(c)
           /\ \/ type = "ACTIVE" /\ activeClient' = c
              \/ UNCHANGED activeClient
              \/ activeClient' = NoClient
    BY DEF ProcessConnected, ProcessDisconnected, ProcessResolved,
           ProcessOnline, ProcessOffline, ProcessActive, ProcessRebirth,
           DeactivateClient, SetActiveClient, EventTypes
  <1>2. /\ eventQueue # <<>> /\ eventQueue' = Tail(eventQueue)
        /\ Head(eventQueue).client = c /\ Head(eventQueue).type = type
        /\ UNCHANGED link /\ (Running' => Running)
    BY <1>1 DEF Pop, Running
  <1>3. ASSUME NEW d \in Clients, activeClient' = d
        PROVE  \/ /\ activeClient = d
                  /\ ~(Head(eventQueue).client = d /\ Head(eventQueue).type = "DISCONNECTED")
               \/ Head(eventQueue).client = d /\ Head(eventQueue).type = "ACTIVE"
    <2>1. d # NoClient
      OBVIOUS
    <2>2. CASE type = "DISCONNECTED" /\ c = d
      BY <1>1, <1>3, <2>1, <2>2 DEF DeactivateClient
    <2>3. CASE ~(type = "DISCONNECTED" /\ c = d)
      BY <1>1, <1>2, <1>3, <2>1, <2>3
    <2> QED
      BY <2>2, <2>3
  <1>4. ClientTypeOK
    BY DEF NodeTypeOK
  <1> QED
    BY <1>2, <1>3, <1>4, PopKeepsActiveInv

\* The steps of execute() that process no event, and requestPublish.
LEMMA OtherStepsKeepActiveInv ==
    ASSUME NodeTypeOK, ActiveInv,
           \/ ConnectClient \/ ConnectReturns \/ SkipClient \/ EventsProcessed
           \/ \E accepted \in BOOLEAN : PublishNext(accepted)
           \/ \E p \in Publishables, isBirth, accepted \in BOOLEAN :
                 RequestPublish(p, isBirth, accepted)
           \/ UNCHANGED vars
    PROVE  ActiveInv'
  <1>1. ClientTypeOK
    BY DEF NodeTypeOK
  <1>2. UNCHANGED <<eventQueue, activeClient>> /\ (Running' => Running)
    BY DEF ConnectClient, ConnectReturns, SkipClient, EventsProcessed,
           PublishNext, RequestPublish, Idle, vars, clientVars, nodeVars, Running
  <1>3. \A c \in Clients : HasLink(link, c) => HasLink(link', c)
    <2>1. \/ UNCHANGED link
          \/ link[Self] = "down" /\ link' = [link EXCEPT ![Self] = "connecting"]
      BY DEF ConnectClient, ConnectReturns, SkipClient, EventsProcessed,
             PublishNext, RequestPublish, vars, clientVars
    <2> QED
      BY <1>1, <2>1 DEF HasLink, ClientTypeOK
  <1> QED
    BY <1>1, <1>2, <1>3, SameEvents, EventsAddedKeepsActiveInv

LEMMA NextActiveInv == NodeTypeOK /\ ActiveInv /\ [Next]_vars => ActiveInv'
  <1> SUFFICES ASSUME NodeTypeOK, ActiveInv, [Next]_vars PROVE ActiveInv'
    OBVIOUS
  <1>1. CASE Execute
    <2>1. CASE \E c \in Clients :
                  \/ ProcessConnected(c) \/ ProcessDisconnected(c)
                  \/ ProcessResolved(c)
                  \/ ProcessOnline(c) \/ ProcessOffline(c)
                  \/ \E accepted \in BOOLEAN :
                        ProcessActive(c, accepted) \/ ProcessRebirth(c, accepted)
      BY <2>1, ProcessKeepsActiveInv
    <2>2. CASE \/ ConnectClient \/ ConnectReturns \/ SkipClient \/ EventsProcessed
               \/ \E accepted \in BOOLEAN : PublishNext(accepted)
      BY <2>2, OtherStepsKeepActiveInv
    <2> QED
      BY <1>1, <2>1, <2>2 DEF Execute
  <1>2. CASE Application
    <2>1. CASE Stop \/ Stopped
      <3>1. pc' = "stopped"
        BY <2>1 DEF Stop, Stopped, vars, nodeVars
      <3> QED
        BY <3>1 DEF ActiveInv, ActiveIsAlive, ActiveEventIsAlive, Running
    <2>2. CASE \E p \in Publishables, isBirth, accepted \in BOOLEAN :
                  RequestPublish(p, isBirth, accepted)
      BY <2>2, OtherStepsKeepActiveInv
    <2> QED
      BY <1>2, <2>1, <2>2 DEF Application
  <1>3. ASSUME NEW c \in Clients,
               \/ Callback(c) \/ Lose(c) \/ Command(c)
               \/ \E online \in BOOLEAN : HostMessage(c, online)
        PROVE  ActiveInv'
    BY <1>3, CallbackKeepsActiveInv, LibraryKeepsActiveInv
  <1>4. CASE UNCHANGED vars
    BY <1>4, OtherStepsKeepActiveInv
  <1> QED
    BY <1>1, <1>2, <1>3, <1>4 DEF Next

LEMMA InitActiveInv == Init => ActiveInv
  <1> SUFFICES ASSUME Init PROVE ActiveInv
    OBVIOUS
  <1>1. eventQueue = <<>> /\ activeClient = NoClient
    BY DEF Init, ClientInit
  <1>2. Len(eventQueue) = 0
    BY <1>1
  <1>3. ActiveEventIsAlive
    BY <1>2 DEF ActiveEventIsAlive
  <1>4. ActiveIsAlive
    BY <1>1 DEF ActiveIsAlive
  <1> QED
    BY <1>3, <1>4 DEF ActiveInv

\* Until the node is stopped, its active client has a link or its
\* CLIENT_DISCONNECTED event is queued, for any number of clients and any
\* interleaving of the library's callbacks with Node::processEvents.
THEOREM ActiveClientIsAlive == Spec => []ActiveIsAlive
  <1>1. Init => NodeTypeOK /\ ActiveInv
    BY InitType, InitActiveInv
  <1>2. NodeTypeOK /\ ActiveInv /\ [Next]_vars => (NodeTypeOK /\ ActiveInv)'
    BY NextType, NextActiveInv
  <1>3. ActiveInv => ActiveIsAlive
    BY DEF ActiveInv
  <1> QED
    BY <1>1, <1>2, <1>3, PTL DEF Spec

\* A queued CLIENT_ACTIVE event that outlived its connection has that
\* connection's CLIENT_DISCONNECTED event behind it.
THEOREM ActiveEventsAreAlive == Spec => []ActiveEventIsAlive
  <1>1. Init => NodeTypeOK /\ ActiveInv
    BY InitType, InitActiveInv
  <1>2. NodeTypeOK /\ ActiveInv /\ [Next]_vars => (NodeTypeOK /\ ActiveInv)'
    BY NextType, NextActiveInv
  <1>3. ActiveInv => ActiveEventIsAlive
    BY DEF ActiveInv
  <1> QED
    BY <1>1, <1>2, <1>3, PTL DEF Spec

=============================================================================
