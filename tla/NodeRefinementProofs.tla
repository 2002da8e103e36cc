------------------------ MODULE NodeRefinementProofs ------------------------
(***************************************************************************)
(* Proof that Node implements ActiveClient, for every set of clients and   *)
(* publishables, in both client modes: every step of a callback, of        *)
(* execute() or of the application is a step of ActiveClient or leaves its *)
(* variables alone.                                                        *)
(***************************************************************************)
EXTENDS NodeRequestProofs

USE PahoClientAssumption, NodeAssumption

----------------------------------------------------------------------------
\* The variables of ActiveClient.
Linked == {c \in Clients : link[c] \in {"up", "lost"}}
Offered == {c \in Clients : Queued(c, "ACTIVE")}
Lost == {c \in Clients : Queued(c, "DISCONNECTED")}
Load == [c \in Clients |-> Len(client[c].queue)]

AbstractStep == [AC!ACNext]_(AC!acVars)

LEMMA Stutters ==
    ASSUME UNCHANGED <<activeClient, Linked, Offered, Lost, Load, Running>>
    PROVE  AbstractStep
  BY DEF AbstractStep, AC!acVars, Linked, Offered, Lost, Load

LEMMA GetsLink ==
    ASSUME NEW c \in Clients, c \notin Linked, Linked' = Linked \cup {c},
           UNCHANGED <<activeClient, Offered, Lost, Load, Running>>
    PROVE  AbstractStep
  BY DEF AbstractStep, AC!ACNext, AC!Link, Linked, Offered, Lost, Load

LEMMA LosesLink ==
    ASSUME NEW c \in Clients, c \in Linked, Linked' = Linked \ {c},
           Lost' = Lost \cup {c}, Load' = [Load EXCEPT ![c] = 0],
           UNCHANGED <<activeClient, Offered, Running>>
    PROVE  AbstractStep
  BY DEF AbstractStep, AC!ACNext, AC!Unlink, Linked, Offered, Lost, Load

LEMMA Offers ==
    ASSUME NEW c \in Clients, c \in Linked, Offered' = Offered \cup {c},
           UNCHANGED <<activeClient, Linked, Lost, Load, Running>>
    PROVE  AbstractStep
  BY DEF AbstractStep, AC!ACNext, AC!Offer, Linked, Offered, Lost, Load

LEMMA Reports ==
    ASSUME NEW c \in Clients, Load[c] > 0, Load' = [Load EXCEPT ![c] = Load[c] - 1],
           UNCHANGED <<activeClient, Linked, Offered, Lost, Running>>
    PROVE  AbstractStep
  BY DEF AbstractStep, AC!ACNext, AC!Report, Linked, Offered, Lost, Load

LEMMA Chooses ==
    ASSUME NEW c \in Clients, Running, c \in Offered,
           Offered' \in {Offered, Offered \ {c}}, activeClient' = c,
           Load'[c] > Load[c], Load' = [Load EXCEPT ![c] = Load'[c]],
           UNCHANGED <<Linked, Lost, Running>>
    PROVE  AbstractStep
  BY DEF AbstractStep, AC!ACNext, AC!Choose, AC!Serve, Linked, Offered, Lost, Load

LEMMA Drops ==
    ASSUME NEW c \in Clients, Running, c \in Lost, Lost' \in {Lost, Lost \ {c}},
           c \in Offered => c \in Linked \cup Lost',
           activeClient' = IF activeClient = c THEN NoClient ELSE activeClient,
           UNCHANGED <<Linked, Offered, Load, Running>>
    PROVE  AbstractStep
  BY DEF AbstractStep, AC!ACNext, AC!Drop, Linked, Offered, Lost, Load

LEMMA LetsGo ==
    ASSUME Running, activeClient # NoClient, activeClient' = NoClient,
           UNCHANGED <<Linked, Offered, Lost, Load, Running>>
    PROVE  AbstractStep
  BY DEF AbstractStep, AC!ACNext, AC!LetGo, Linked, Offered, Lost, Load

LEMMA Publishes ==
    ASSUME Running, activeClient # NoClient, Load'[activeClient] > Load[activeClient],
           Load' = [Load EXCEPT ![activeClient] = Load'[activeClient]],
           UNCHANGED <<activeClient, Linked, Offered, Lost, Running>>
    PROVE  AbstractStep
  BY DEF AbstractStep, AC!ACNext, AC!Publish, AC!Serve, Linked, Offered, Lost, Load

LEMMA Stops ==
    ASSUME Running, ~Running', Linked' \subseteq Linked,
           UNCHANGED <<activeClient, Offered, Lost, Load>>
    PROVE  AbstractStep
  BY DEF AbstractStep, AC!ACNext, AC!Stop, Linked, Offered, Lost, Load

----------------------------------------------------------------------------
\* What is queued, after a step.
LEMMA SameQueued ==
    ASSUME UNCHANGED eventQueue
    PROVE  UNCHANGED <<Offered, Lost>>
  BY DEF Offered, Lost, Queued

LEMMA OneQueued ==
    ASSUME ClientTypeOK, NEW e \in Events, eventQueue' = Append(eventQueue, e)
    PROVE  /\ Offered' = Offered \cup {c \in {e.client} : e.type = "ACTIVE"}
           /\ Lost' = Lost \cup {c \in {e.client} : e.type = "DISCONNECTED"}
  <1>1. /\ Len(eventQueue) \in Nat /\ Len(eventQueue') = Len(eventQueue) + 1
        /\ \A i \in 1..Len(eventQueue) : eventQueue'[i] = eventQueue[i]
        /\ eventQueue'[Len(eventQueue) + 1] = e
    BY AppendKept DEF EventsKept
  <1>2. e.client \in Clients
    BY DEF Events
  <1>3. ASSUME NEW c, NEW type
        PROVE  Queued(c, type)'
                 <=> Queued(c, type) \/ (e.client = c /\ e.type = type)
    <2>1. ASSUME Queued(c, type)'
          PROVE  Queued(c, type) \/ (e.client = c /\ e.type = type)
      <3>1. PICK i \in 1..Len(eventQueue') :
                eventQueue'[i].client = c /\ eventQueue'[i].type = type
        BY <2>1 DEF Queued
      <3>2. i \in 1..Len(eventQueue) \/ i = Len(eventQueue) + 1
        BY <1>1
      <3> QED
        BY <1>1, <3>1, <3>2 DEF Queued
    <2>2. /\ Len(eventQueue) + 1 \in 1..Len(eventQueue')
          /\ \A i \in 1..Len(eventQueue) : i \in 1..Len(eventQueue')
      BY <1>1
    <2> QED
      BY <1>1, <2>1, <2>2 DEF Queued
  <1>4. \A c : c \in Offered' <=> c \in Clients /\ Queued(c, "ACTIVE")'
    BY DEF Offered
  <1>5. \A c : c \in Lost' <=> c \in Clients /\ Queued(c, "DISCONNECTED")'
    BY DEF Lost
  <1>6. \A c : c \in Offered' <=> c \in Offered \/ (c = e.client /\ e.type = "ACTIVE")
    BY <1>2, <1>3, <1>4 DEF Offered
  <1>7. \A c : c \in Lost' <=> c \in Lost \/ (c = e.client /\ e.type = "DISCONNECTED")
    BY <1>2, <1>3, <1>5 DEF Lost
  <1> QED
    BY <1>6, <1>7

\* An event that is neither.
LEMMA OtherQueued ==
    ASSUME ClientTypeOK, NEW e \in Events, eventQueue' = Append(eventQueue, e),
           e.type \notin {"ACTIVE", "DISCONNECTED"}
    PROVE  UNCHANGED <<Offered, Lost>>
  BY OneQueued

\* A lost connection is reported, with the requests that are given up.
LEMMA DumpQueued ==
    ASSUME ClientTypeOK, NEW c \in Clients, OnDisconnect(c)
    PROVE  Offered' = Offered /\ Lost' = Lost \cup {c}
  <1>1. NewsOf(c) /\ Queued(c, "DISCONNECTED")' /\ EventsKept
    BY DumpNews DEF NewsOf
  <1>2. EventsAdded /\ link'[c] = "down"
    BY OnDisconnectAddsEvents DEF OnDisconnect, ClientTypeOK
  <1>3. ASSUME NEW d, NEW type, Queued(d, type)
        PROVE  Queued(d, type)'
    BY <1>1, <1>3 DEF EventsKept, Queued
  <1>4. ASSUME NEW d, Queued(d, "ACTIVE")'
        PROVE  Queued(d, "ACTIVE")
    <2>1. PICK i \in 1..Len(eventQueue') :
              eventQueue'[i].client = d /\ eventQueue'[i].type = "ACTIVE"
      BY <1>4 DEF Queued
    <2>2. CASE i > Len(eventQueue)
      <3>1. HasLink(link', eventQueue'[i].client) /\ eventQueue'[i].client = c
        BY <1>1, <1>2, <2>1, <2>2 DEF EventsAdded, NewsOf
      <3> QED
        BY <1>2, <3>1 DEF HasLink
    <2>3. CASE ~(i > Len(eventQueue))
      <3>1. i \in 1..Len(eventQueue) /\ eventQueue'[i] = eventQueue[i]
        BY <1>1, <2>3 DEF EventsKept
      <3> QED
        BY <2>1, <3>1 DEF Queued
    <2> QED
      BY <2>2, <2>3
  <1>5. \A d : Queued(d, "DISCONNECTED")' => Queued(d, "DISCONNECTED") \/ d = c
    BY <1>1, NewsOfQueued
  <1>6. \A d : d \in Offered' <=> d \in Clients /\ Queued(d, "ACTIVE")'
    BY DEF Offered
  <1>7. \A d : d \in Lost' <=> d \in Clients /\ Queued(d, "DISCONNECTED")'
    BY DEF Lost
  <1>8. \A d : d \in Offered' <=> d \in Offered
    BY <1>3, <1>4, <1>6 DEF Offered
  <1>9. \A d : d \in Lost' <=> d \in Lost \/ d = c
    BY <1>1, <1>3, <1>5, <1>7 DEF Lost
  <1> QED
    BY <1>8, <1>9

\* The front event is processed: it was queued, and perhaps its like still is.
LEMMA PopQueued ==
    ASSUME ClientTypeOK, NEW c \in Clients, NEW type \in EventTypes, Pop(c, type)
    PROVE  /\ Running /\ UNCHANGED <<Linked, Running>>
           /\ type = "ACTIVE" => c \in Offered
           /\ type = "DISCONNECTED" => c \in Lost
           /\ Offered' \in {Offered, Offered \ {d \in {c} : type = "ACTIVE"}}
           /\ Lost' \in {Lost, Lost \ {d \in {c} : type = "DISCONNECTED"}}
  <1>1. /\ eventQueue \in Seq(Events) /\ eventQueue # <<>>
        /\ eventQueue' = Tail(eventQueue)
        /\ Head(eventQueue).client = c /\ Head(eventQueue).type = type
        /\ UNCHANGED <<link, pc>> /\ pc = "events"
    BY DEF Pop, ClientTypeOK
  <1>2. /\ Head(eventQueue) = eventQueue[1]
        /\ Len(eventQueue') = Len(eventQueue) - 1
        /\ \A i \in 1..Len(eventQueue') : eventQueue'[i] = eventQueue[i + 1]
    BY <1>1, HeadAndTail
  <1>3. Len(eventQueue) \in Nat \ {0}
    BY <1>1, EmptySeq
  <1>4. ASSUME NEW d, NEW t, Queued(d, t)'
        PROVE  Queued(d, t)
    <2>1. PICK i \in 1..Len(eventQueue') :
              eventQueue'[i].client = d /\ eventQueue'[i].type = t
      BY <1>4 DEF Queued
    <2>2. i + 1 \in 1..Len(eventQueue) /\ eventQueue'[i] = eventQueue[i + 1]
      BY <1>2, <1>3, <2>1
    <2> QED
      BY <2>1, <2>2 DEF Queued
  <1>5. ASSUME NEW d, NEW t, Queued(d, t), ~(d = c /\ t = type)
        PROVE  Queued(d, t)'
    <2>1. PICK i \in 1..Len(eventQueue) :
              eventQueue[i].client = d /\ eventQueue[i].type = t
      BY <1>5 DEF Queued
    <2>2. i # 1
      BY <1>1, <1>2, <1>5, <2>1
    <2>3. i - 1 \in 1..Len(eventQueue') /\ (i - 1) + 1 = i
      BY <1>2, <1>3, <2>1, <2>2
    <2>4. eventQueue'[i - 1] = eventQueue[i]
      BY <1>2, <2>3
    <2> QED
      BY <2>1, <2>3, <2>4 DEF Queued
  <1>6. Queued(c, type)
    <2>1. 1 \in 1..Len(eventQueue)
      BY <1>3
    <2> QED
      BY <1>1, <1>2, <2>1 DEF Queued
  <1>7. \A d : d \in Offered' <=> d \in Clients /\ Queued(d, "ACTIVE")'
    BY DEF Offered
  <1>8. \A d : d \in Lost' <=> d \in Clients /\ Queued(d, "DISCONNECTED")'
    BY DEF Lost
  <1>9. /\ \A d : d \in Offered' => d \in Offered
        /\ \A d : d \in Offered /\ ~(d = c /\ type = "ACTIVE") => d \in Offered'
    BY <1>4, <1>5, <1>7 DEF Offered
  <1>10. /\ \A d : d \in Lost' => d \in Lost
         /\ \A d : d \in Lost /\ ~(d = c /\ type = "DISCONNECTED") => d \in Lost'
    BY <1>4, <1>5, <1>8 DEF Lost
  <1>11. Offered' \in {Offered, Offered \ {d \in {c} : type = "ACTIVE"}}
    BY <1>9
  <1>12. Lost' \in {Lost, Lost \ {d \in {c} : type = "DISCONNECTED"}}
    BY <1>10
  <1>13. Running /\ UNCHANGED <<Linked, Running>>
    BY <1>1 DEF Running, Linked
  <1> QED
    BY <1>6, <1>11, <1>12, <1>13 DEF Offered, Lost
----------------------------------------------------------------------------
\* How many requests the clients have, after a step.
LEMMA SameLoad ==
    ASSUME SameQueues
    PROVE  UNCHANGED Load
  BY DEF SameQueues, Load

LEMMA LoadOfOne ==
    ASSUME NEW c \in Clients,
           \A d \in Clients : d # c => client'[d].queue = client[d].queue
    PROVE  /\ Load[c] = Len(client[c].queue)
           /\ Load'[c] = Len(client'[c].queue)
           /\ Load' = [Load EXCEPT ![c] = Load'[c]]
  BY DEF Load

\* Requests handed to c.
LEMMA MoreLoad ==
    ASSUME ClientTypeOK, NEW c \in Clients, NEW requests \in Seq(Requests),
           requests # <<>>, NEW accepted \in BOOLEAN,
           client'[c] = Requested(c, client[c], requests, accepted),
           \A d \in Clients : d # c => client'[d].queue = client[d].queue
    PROVE  Load'[c] > Load[c] /\ Load' = [Load EXCEPT ![c] = Load'[c]]
  <1>1. client[c] \in ClientRecords /\ client[c].queue \in Seq(Requests)
    BY ClientQueue
  <1>2. /\ Behind(client[c], requests).queue = client[c].queue \o requests
        /\ Sends(Behind(client[c], requests), client'[c])
    <2>1. /\ Behind(client[c], requests).queue = client[c].queue \o requests
          /\ Sends(Behind(client[c], requests),
                   Requested(c, client[c], requests, accepted))
      BY <1>1, RequestedSends
    <2> QED
      BY <2>1
  <1>3. Len(client'[c].queue) = Len(client[c].queue \o requests)
    BY <1>2 DEF Sends, SameRequests
  <1>4. /\ Len(client[c].queue \o requests) = Len(client[c].queue) + Len(requests)
        /\ Len(client[c].queue) \in Nat /\ Len(requests) \in Nat \ {0}
    BY <1>1, Extended, EmptySeq
  <1> QED
    BY <1>3, <1>4, LoadOfOne

----------------------------------------------------------------------------
\* The callbacks.

LEMMA OnConnectImplements ==
    ASSUME NodeTypeOK, NEW c \in Clients, OnConnect(c), UNCHANGED nodeVars
    PROVE  AbstractStep
  <1> DEFINE r == [client[c] EXCEPT !.born = {}]
  <1>1. /\ ClientTypeOK /\ client[c] \in ClientRecords
        /\ UNCHANGED <<activeClient, Running>>
    BY ClientQueue DEF NodeTypeOK, nodeVars, Running
  <1>2. /\ link[c] = "connecting" /\ link' = [link EXCEPT ![c] = "up"]
        /\ client' = [client EXCEPT ![c] = SetState(r, "CONNECTED")]
        /\ eventQueue' = Append(eventQueue, Event(c, "CONNECTED"))
    BY DEF OnConnect
  <1>3. r \in ClientRecords /\ r.queue = client[c].queue
    BY <1>1 DEF ClientRecords
  <1> HIDE DEF r
  <1>4. SetState(r, "CONNECTED").queue = client[c].queue
    BY <1>3, SetStateSends DEF ClientStates
  <1>5. SameQueues
    BY <1>1, <1>2, <1>4 DEF SameQueues, ClientTypeOK
  <1>6. /\ Event(c, "CONNECTED") \in Events
        /\ Event(c, "CONNECTED").type \notin {"ACTIVE", "DISCONNECTED"}
    BY EventType DEF EventTypes
  <1>7. UNCHANGED <<Offered, Lost>>
    BY <1>1, <1>2, <1>6, OtherQueued
  <1>8. c \notin Linked /\ Linked' = Linked \cup {c}
    BY <1>1, <1>2 DEF Linked, ClientTypeOK
  <1> QED
    BY <1>1, <1>5, <1>7, <1>8, SameLoad, GetsLink

LEMMA OnDisconnectImplements ==
    ASSUME NodeTypeOK, NEW c \in Clients, OnDisconnect(c), UNCHANGED nodeVars
    PROVE  AbstractStep
  <1> DEFINE dumped == [client[c] EXCEPT !.queue = <<>>]
  <1>1. /\ ClientTypeOK /\ client[c] \in ClientRecords
        /\ UNCHANGED <<activeClient, Running>>
    BY ClientQueue DEF NodeTypeOK, nodeVars, Running
  <1>2. /\ link[c] = "lost" /\ link' = [link EXCEPT ![c] = "down"]
        /\ client' = [client EXCEPT ![c] = SetState(dumped, "DISCONNECTED")]
    BY DEF OnDisconnect
  <1>3. dumped \in ClientRecords /\ dumped.queue = <<>>
    <2>1. <<>> \in Seq(Requests)
      BY EmptySeq
    <2> QED
      BY <1>1, <2>1, QueueType DEF ClientRecords
  <1> HIDE DEF dumped
  <1>4. SetState(dumped, "DISCONNECTED").queue = <<>>
    BY <1>3, SetStateSends DEF ClientStates
  <1>5. /\ client'[c].queue = <<>>
        /\ \A d \in Clients : d # c => client'[d].queue = client[d].queue
    BY <1>1, <1>2, <1>4 DEF ClientTypeOK
  <1>6. Load' = [Load EXCEPT ![c] = 0]
    <2>1. Len(<<>>) = 0
      OBVIOUS
    <2> QED
      BY <1>5, <2>1, LoadOfOne
  <1>7. c \in Linked /\ Linked' = Linked \ {c}
    BY <1>1, <1>2 DEF Linked, ClientTypeOK
  <1> QED
    BY <1>1, <1>6, <1>7, DumpQueued, LosesLink

\* The front request is reported, or goes out again.
LEMMA DeliveryImplements ==
    ASSUME NodeTypeOK, NEW c \in Clients, Delivery(c), UNCHANGED nodeVars
    PROVE  AbstractStep
  <1> DEFINE q == client[c].queue
             popped == [client[c] EXCEPT !.queue = Tail(q)]
             resent(accepted) == Resent(client[c], accepted)
  <1>1. /\ ClientTypeOK /\ client[c] \in ClientRecords /\ q \in Seq(Requests)
        /\ UNCHANGED <<activeClient, Running>>
    BY ClientQueue DEF NodeTypeOK, nodeVars, Running
  <1>2. FrontIsSent(c) /\ q # <<>>
    BY DEF Delivery, OnDelivery, OnDeliveryFailure, FrontIsSent
  <1>3. UNCHANGED Linked
    BY DEF Delivery, OnDelivery, OnDeliveryFailure, PopFront, Linked
  <1>4. ASSUME NEW accepted \in BOOLEAN, NEW type \in {"DELIVERED", "UNDELIVERED"},
               PopFront(c, type, accepted)
        PROVE  AbstractStep
    <2> DEFINE event == Resolution(c, type, Head(q))
               t == PublishFromQueue(c, popped, accepted)
    <2>1. /\ Head(q) \in Requests /\ Tail(q) \in Seq(Requests)
          /\ Len(Tail(q)) = Len(q) - 1 /\ Len(q) \in Nat \ {0}
      BY <1>1, <1>2, HeadAndTail, EmptySeq
    <2>2. popped \in ClientRecords /\ popped.queue = Tail(q)
      BY <1>1, <2>1, QueueType
    <2>3. event \in Events /\ event.type \notin {"ACTIVE", "DISCONNECTED"}
      BY <1>4, <2>1, ResolutionType DEF Resolution
    <2>4. client' = [client EXCEPT ![c] = t] /\ eventQueue' = Append(eventQueue, event)
      BY <1>4 DEF PopFront
    <2> HIDE DEF event, popped
    <2>5. Sends(popped, t)
      BY <2>2, PublishFromQueueSends
    <2> HIDE DEF t
    <2>6. /\ client'[c].queue = t.queue
          /\ \A d \in Clients : d # c => client'[d].queue = client[d].queue
      BY <1>1, <2>4 DEF ClientTypeOK
    <2>7. Len(t.queue) = Len(q) - 1
      BY <2>1, <2>2, <2>5 DEF Sends, SameRequests
    <2>8. Load[c] > 0 /\ Load' = [Load EXCEPT ![c] = Load[c] - 1]
      BY <2>1, <2>6, <2>7, LoadOfOne
    <2>9. UNCHANGED <<Offered, Lost>>
      BY <1>1, <2>3, <2>4, OtherQueued
    <2> QED
      BY <1>1, <1>3, <2>8, <2>9, Reports
  <1>5. ASSUME NEW accepted \in BOOLEAN,
               ~(Head(q).retryCount >= PUBLISH_RETRIES),
               client' = [client EXCEPT ![c] = resent(accepted)],
               UNCHANGED eventQueue
        PROVE  AbstractStep
    <2>1. SameRequests(q, resent(accepted).queue)
      BY <1>1, <1>2, <1>5, ResentSends DEF FrontIsSent, FrontSent
    <2> HIDE DEF resent
    <2>2. /\ Len(client'[c].queue) = Len(client[c].queue)
          /\ \A d \in Clients : d # c => client'[d].queue = client[d].queue
      BY <1>1, <1>5, <2>1 DEF ClientTypeOK, SameRequests
    <2>3. UNCHANGED Load
      BY <2>2 DEF Load
    <2> QED
      BY <1>1, <1>3, <1>5, <2>3, SameQueued, Stutters
  <1>6. PICK accepted \in BOOLEAN :
            OnDelivery(c, accepted) \/ OnDeliveryFailure(c, accepted)
    BY DEF Delivery
  <1>7. CASE OnDelivery(c, accepted)
    BY <1>4, <1>7 DEF OnDelivery
  <1>8. CASE OnDeliveryFailure(c, accepted)
    <2>1. CASE Head(q).retryCount >= PUBLISH_RETRIES \/ ~IsConnected(c)
      BY <1>4, <1>8, <2>1 DEF OnDeliveryFailure
    <2>2. CASE ~(Head(q).retryCount >= PUBLISH_RETRIES \/ ~IsConnected(c))
      BY <1>5, <1>8, <2>2 DEF OnDeliveryFailure
    <2> QED
      BY <2>1, <2>2
  <1> QED
    BY <1>6, <1>7, <1>8

\* A subscription is acknowledged: only then does a client offer itself.
LEMMA SubscriptionImplements ==
    ASSUME NodeTypeOK, NEW c \in Clients, Subscription(c), UNCHANGED nodeVars
    PROVE  AbstractStep
  <1>1. ClientTypeOK /\ UNCHANGED <<activeClient, Running, Linked, Load>>
    BY DEF NodeTypeOK, nodeVars, Running, Subscription, OnCommandSubscription,
           OnCommandSubscribeFailure, Linked, Load
  <1>2. CASE eventQueue' = Append(eventQueue, Event(c, "ACTIVE")) /\ link[c] = "up"
    <2>1. /\ Event(c, "ACTIVE") \in Events /\ Event(c, "ACTIVE").client = c
          /\ Event(c, "ACTIVE").type = "ACTIVE"
      BY EventType DEF EventTypes
    <2>2. Offered' = Offered \cup {c} /\ Lost' = Lost
      BY <1>1, <1>2, <2>1, OneQueued
    <2>3. c \in Linked
      BY <1>2 DEF Linked
    <2> QED
      BY <1>1, <2>2, <2>3, Offers
  <1>3. CASE UNCHANGED eventQueue
    BY <1>1, <1>3, SameQueued, Stutters
  <1> QED
    BY <1>2, <1>3
       DEF Subscription, OnCommandSubscription, OnCommandSubscribeFailure

\* The other steps of the library are of no interest to ActiveClient.
LEMMA LibraryImplements ==
    ASSUME NodeTypeOK, NEW c \in Clients, NEW online \in BOOLEAN,
           \/ OnConnectFailure(c) /\ UNCHANGED nodeVars
           \/ Lose(c) \/ Command(c) \/ HostMessage(c, online)
    PROVE  AbstractStep
  <1>1. ClientTypeOK /\ UNCHANGED <<activeClient, Running>>
    BY DEF NodeTypeOK, nodeVars, Running, Lose, Command, HostMessage
  <1>2. UNCHANGED Linked
    BY <1>1 DEF OnConnectFailure, Lose, LinkLost, Command, HostMessage, OnMessage,
                Linked, ClientTypeOK
  <1>3. UNCHANGED Load
    <2>1. \/ client' = [client EXCEPT ![c] = SetState(client[c], "DISCONNECTED")]
          \/ client' = client
      BY DEF OnConnectFailure, Lose, LinkLost, Command, HostMessage, OnMessage
    <2>2. SameQueues
      BY <1>1, <2>1, ChangedStateSameQueues DEF SameQueues, ClientStates
    <2> QED
      BY <2>2, SameLoad
  <1>4. UNCHANGED <<Offered, Lost>>
    <2>1. ASSUME NEW type \in {"ONLINE", "OFFLINE", "REBIRTH"}
          PROVE  /\ Event(c, type) \in Events
                 /\ Event(c, type).type \notin {"ACTIVE", "DISCONNECTED"}
      BY EventType DEF EventTypes
    <2>2. \/ UNCHANGED eventQueue
          \/ \E type \in {"ONLINE", "OFFLINE", "REBIRTH"} :
                eventQueue' = Append(eventQueue, Event(c, type))
      BY DEF OnConnectFailure, Lose, LinkLost, Command, HostMessage, OnMessage
    <2> QED
      BY <1>1, <2>1, <2>2, SameQueued, OtherQueued
  <1> QED
    BY <1>1, <1>2, <1>3, <1>4, Stutters

LEMMA CallbackImplements ==
    ASSUME NodeTypeOK, NEW c \in Clients, Callback(c)
    PROVE  AbstractStep
  BY OnConnectImplements, OnDisconnectImplements, DeliveryImplements,
     SubscriptionImplements, LibraryImplements DEF Callback, Connection
----------------------------------------------------------------------------
\* execute(): the queued events.

\* The births requested of c.
LEMMA BirthsLoad ==
    ASSUME ClientTypeOK, NEW c \in Clients, NEW accepted \in BOOLEAN,
           SetActiveClient(c, accepted)
    PROVE  /\ Load'[c] > Load[c] /\ Load' = [Load EXCEPT ![c] = Load'[c]]
           /\ activeClient' = c
  <1>1. /\ client'[c] = Requested(c, client[c], BirthRequests, accepted)
        /\ \A d \in Clients : d # c => client'[d].queue = client[d].queue
    BY SetActiveClientFields
  <1>2. BirthRequests \in Seq(Requests) /\ BirthRequests # <<>>
    BY BirthRequestsContent
  <1> QED
    BY <1>1, <1>2, MoreLoad DEF SetActiveClient

LEMMA ProcessDisconnectedImplements ==
    ASSUME NodeTypeOK, ActiveInv', NEW c \in Clients, ProcessDisconnected(c)
    PROVE  AbstractStep
  <1>1. /\ ClientTypeOK /\ Pop(c, "DISCONNECTED") /\ DeactivateClient(c)
        /\ "DISCONNECTED" \in EventTypes
    BY DEF NodeTypeOK, ProcessDisconnected, EventTypes
  <1>2. /\ Running /\ UNCHANGED <<Linked, Running>> /\ c \in Lost
        /\ Lost' \in {Lost, Lost \ {c}} /\ Offered' = Offered
    BY <1>1, PopQueued
  <1>3. SameQueues
    BY <1>1, DeactivateClientFields DEF SameQueues
  <1>4. activeClient' = IF activeClient = c THEN NoClient ELSE activeClient
    BY <1>1 DEF DeactivateClient
  <1>5. ASSUME c \in Offered PROVE c \in Linked \cup Lost'
    <2>1. Queued(c, "ACTIVE")'
      BY <1>2, <1>5 DEF Offered
    <2>2. PICK i \in 1..Len(eventQueue') :
              eventQueue'[i].client = c /\ eventQueue'[i].type = "ACTIVE"
      BY <2>1 DEF Queued
    <2>3. \/ link'[c] \in {"up", "lost"}
          \/ \E j \in i + 1 .. Len(eventQueue') :
                eventQueue'[j].client = c /\ eventQueue'[j].type = "DISCONNECTED"
      BY <1>2, <2>2 DEF ActiveInv, ActiveEventIsAlive
    <2>4. \A j \in i + 1 .. Len(eventQueue') : j \in 1..Len(eventQueue')
      BY <2>2
    <2>5. link'[c] \in {"up", "lost"} \/ Queued(c, "DISCONNECTED")'
      BY <2>3, <2>4 DEF Queued
    <2> QED
      BY <1>2, <2>5 DEF Linked, Lost
  <1> QED
    BY <1>2, <1>3, <1>4, <1>5, SameLoad, Drops

LEMMA ProcessActiveImplements ==
    ASSUME NodeTypeOK, NEW c \in Clients, NEW accepted \in BOOLEAN,
           ProcessActive(c, accepted)
    PROVE  AbstractStep
  <1>1. /\ ClientTypeOK /\ Pop(c, "ACTIVE") /\ SetActiveClient(c, accepted)
        /\ "ACTIVE" \in EventTypes
    BY DEF NodeTypeOK, ProcessActive, EventTypes
  <1>2. /\ Running /\ UNCHANGED <<Linked, Running>> /\ c \in Offered
        /\ Offered' \in {Offered, Offered \ {d \in {c} : "ACTIVE" = "ACTIVE"}}
        /\ Lost' \in {Lost, Lost \ {d \in {c} : "ACTIVE" = "DISCONNECTED"}}
    BY <1>1, PopQueued
  <1>3. Offered' \in {Offered, Offered \ {c}} /\ Lost' = Lost
    BY <1>2
  <1> QED
    BY <1>1, <1>2, <1>3, BirthsLoad, Chooses

\* The other events: the host's, those that resolve a request, a connection.
LEMMA ProcessOtherImplements ==
    ASSUME NodeTypeOK, NEW c \in Clients, NEW accepted \in BOOLEAN,
           \/ ProcessConnected(c) \/ ProcessResolved(c) \/ ProcessOnline(c)
           \/ ProcessOffline(c) \/ ProcessRebirth(c, accepted)
    PROVE  AbstractStep
  <1>1. PICK type \in EventTypes \ {"ACTIVE", "DISCONNECTED"} : Pop(c, type)
    BY DEF ProcessConnected, ProcessResolved, ProcessOnline, ProcessOffline,
           ProcessRebirth, EventTypes
  <1>2. ClientTypeOK /\ Running /\ UNCHANGED <<Linked, Offered, Lost, Running>>
    <2>1. ClientTypeOK /\ type \in EventTypes
      BY DEF NodeTypeOK
    <2>2. /\ Running /\ UNCHANGED <<Linked, Running>>
          /\ Offered' \in {Offered, Offered \ {d \in {c} : type = "ACTIVE"}}
          /\ Lost' \in {Lost, Lost \ {d \in {c} : type = "DISCONNECTED"}}
      BY <1>1, <2>1, PopQueued
    <2>3. /\ {d \in {c} : type = "ACTIVE"} = {}
          /\ {d \in {c} : type = "DISCONNECTED"} = {}
      OBVIOUS
    <2> QED
      BY <2>1, <2>2, <2>3
  <1>3. CASE /\ ActivateClient(c) \/ UNCHANGED client
             /\ UNCHANGED activeClient
    <2>1. SameQueues
      BY <1>2, <1>3, ActivateClientFields DEF SameQueues
    <2> QED
      BY <1>2, <1>3, <2>1, SameLoad, Stutters
  <1>4. CASE DeactivateClient(c)
    <2>1. SameQueues
      BY <1>2, <1>4, DeactivateClientFields DEF SameQueues
    <2>2. CASE activeClient = c
      <3>1. activeClient # NoClient /\ activeClient' = NoClient
        BY <1>4, <2>2 DEF DeactivateClient
      <3> QED
        BY <1>2, <2>1, <3>1, SameLoad, LetsGo
    <2>3. CASE activeClient # c
      <3>1. UNCHANGED activeClient
        BY <1>4, <2>3 DEF DeactivateClient
      <3> QED
        BY <1>2, <2>1, <3>1, SameLoad, Stutters
    <2> QED
      BY <2>2, <2>3
  <1>5. CASE SetActiveClient(c, accepted) /\ activeClient = c
    <2>1. /\ Load'[c] > Load[c] /\ Load' = [Load EXCEPT ![c] = Load'[c]]
          /\ activeClient' = c
      BY <1>2, <1>5, BirthsLoad
    <2>2. activeClient # NoClient
      BY <1>5
    <2> QED
      BY <1>2, <1>5, <2>1, <2>2, Publishes
  <1> QED
    BY <1>3, <1>4, <1>5
       DEF ProcessConnected, ProcessResolved, ProcessOnline, ProcessOffline,
           ProcessRebirth

----------------------------------------------------------------------------
\* The other steps of execute(), and the application.

LEMMA PublishImplements ==
    ASSUME NodeTypeOK, Running, activeClient # NoClient, NEW p \in Publishables,
           NEW isBirth \in BOOLEAN, NEW accepted \in BOOLEAN,
           Publish(p, isBirth, accepted),
           UNCHANGED <<link, eventQueue, activeClient, Running>>
    PROVE  AbstractStep
  <1> DEFINE a == activeClient
             requests == <<NewRequest(p, isBirth)>>
  <1>1. /\ a \in Clients /\ ClientTypeOK
        /\ client'[a] = Requested(a, client[a], requests, accepted)
        /\ \A d \in Clients : d # a => client'[d].queue = client[d].queue
    BY PublishFields DEF NodeTypeOK
  <1>2. requests \in Seq(Requests) /\ requests # <<>>
    BY OneRequest
  <1> HIDE DEF requests
  <1>3. Load'[a] > Load[a] /\ Load' = [Load EXCEPT ![a] = Load'[a]]
    BY <1>1, <1>2, MoreLoad
  <1>4. UNCHANGED Linked
    BY DEF Linked
  <1> QED
    BY <1>3, <1>4, SameQueued, Publishes

LEMMA PublishNextImplements ==
    ASSUME NodeTypeOK, NEW accepted \in BOOLEAN, PublishNext(accepted)
    PROVE  AbstractStep
  <1>1. /\ PublishOrder[turn] \in Publishables /\ activeClient # NoClient
        /\ UNCHANGED <<link, eventQueue, activeClient>>
    BY OrderType DEF PublishNext, NodeTypeOK
  <1>2. Running /\ UNCHANGED Running
    BY DEF PublishNext, Running
  <1>3. CASE Publish(PublishOrder[turn], FALSE, accepted)
    BY <1>1, <1>2, <1>3, PublishImplements
  <1>4. CASE UNCHANGED <<client, publishing>>
    BY <1>1, <1>2, <1>4, SameQueued, Stutters DEF Linked, Load
  <1> QED
    BY <1>3, <1>4 DEF PublishNext

LEMMA RequestPublishImplements ==
    ASSUME NodeTypeOK, NEW p \in Publishables, NEW isBirth \in BOOLEAN,
           NEW accepted \in BOOLEAN, RequestPublish(p, isBirth, accepted)
    PROVE  AbstractStep
  <1>1. /\ Running /\ activeClient # NoClient /\ Publish(p, isBirth, accepted)
        /\ UNCHANGED <<link, eventQueue, activeClient, Running>>
    BY DEF RequestPublish, Idle, Running
  <1> QED
    BY <1>1, PublishImplements

LEMMA QuietImplements ==
    ASSUME NodeTypeOK,
           \/ ConnectClient \/ ConnectReturns \/ SkipClient \/ EventsProcessed
           \/ UNCHANGED vars
    PROVE  AbstractStep
  <1>1. ClientTypeOK /\ UNCHANGED <<eventQueue, activeClient>>
    BY DEF NodeTypeOK, ConnectClient, ConnectReturns, SkipClient, EventsProcessed,
           vars, clientVars, nodeVars
  <1>2. UNCHANGED Running
    BY DEF ConnectClient, ConnectReturns, NextClient, SkipClient, EventsProcessed,
           vars, nodeVars, Running
  <1>3. CASE ConnectClient \/ ConnectReturns
    <2>1. Self \in Clients
      BY <1>3, OrderType DEF ConnectClient, ConnectReturns
    <2>2. client' = [client EXCEPT ![Self] = SetState(client[Self], "CONNECTING")]
      BY <1>3 DEF ConnectClient, ConnectReturns
    <2>3. SameQueues
      BY <1>1, <2>1, <2>2, ChangedStateSameQueues DEF ClientStates
    <2>4. UNCHANGED Linked
      BY <1>1, <1>3, <2>1 DEF ConnectClient, ConnectReturns, Linked, ClientTypeOK
    <2> QED
      BY <1>1, <1>2, <2>3, <2>4, SameLoad, SameQueued, Stutters
  <1>4. CASE SkipClient \/ EventsProcessed \/ UNCHANGED vars
    <2>1. UNCHANGED <<Linked, Load>>
      BY <1>4 DEF SkipClient, EventsProcessed, vars, clientVars, Linked, Load
    <2> QED
      BY <1>1, <1>2, <2>1, SameQueued, Stutters
  <1> QED
    BY <1>3, <1>4

LEMMA StopImplements ==
    ASSUME NodeTypeOK, Stop
    PROVE  AbstractStep
  <1>1. ClientTypeOK /\ UNCHANGED <<eventQueue, activeClient>>
    BY DEF NodeTypeOK, Stop
  <1>2. Running /\ ~Running' /\ Linked' \subseteq Linked
    BY DEF Stop, Idle, Running, Linked
  <1>3. ASSUME NEW c \in Clients
        PROVE  client'[c].queue = client[c].queue
    <2>1. /\ Deactivate(client[c]) \in ClientRecords
          /\ Deactivate(client[c]).queue = client[c].queue
      BY <1>1, ClientQueue, DeactivateType, DeactivateFields
    <2>2. SetState(Deactivate(client[c]), "DISCONNECTING").queue = client[c].queue
      BY <2>1, SetStateSends DEF ClientStates
    <2> QED
      BY <2>1, <2>2 DEF Stop
  <1>4. UNCHANGED Load
    BY <1>3, SameLoad DEF SameQueues
  <1> QED
    BY <1>1, <1>2, <1>4, SameQueued, Stops

----------------------------------------------------------------------------
LEMMA NextImplements == NodeTypeOK /\ ActiveInv' /\ [Next]_vars => AbstractStep
  <1> SUFFICES ASSUME NodeTypeOK, ActiveInv', [Next]_vars
               PROVE  AbstractStep
    OBVIOUS
  <1>1. CASE Execute
    BY <1>1, QuietImplements, ProcessActiveImplements, PublishNextImplements,
       ProcessDisconnectedImplements, ProcessOtherImplements DEF Execute
  <1>2. CASE Application
    BY <1>2, RequestPublishImplements, StopImplements, QuietImplements
       DEF Application, Stopped
  <1>3. ASSUME NEW c \in Clients,
               \/ Callback(c) \/ Lose(c) \/ Command(c)
               \/ \E online \in BOOLEAN : HostMessage(c, online)
        PROVE  AbstractStep
    BY <1>3, CallbackImplements, LibraryImplements
  <1> QED
    BY <1>1, <1>2, <1>3, QuietImplements DEF Next

LEMMA InitImplements == Init => AC!ACInit
  BY DEF Init, ClientInit, AC!ACInit, Queued, Running

\* Whatever the callbacks do between two steps of execute(), a Node chooses only
\* a client that reported CLIENT_ACTIVE, lets it go when it hears of the loss of
\* its connection, and requests publishes of its active client only.
THEOREM NodeImplementsActiveClient == Spec => ImplementsActiveClient
  <1>1. Init => NodeTypeOK /\ ActiveInv /\ AC!ACInit
    BY InitType, InitActiveInv, InitImplements
  <1>2. NodeTypeOK /\ ActiveInv /\ [Next]_vars => NodeTypeOK' /\ ActiveInv'
    BY NextType, NextActiveInv
  <1>3. NodeTypeOK /\ ActiveInv' /\ [Next]_vars => [AC!ACNext]_(AC!acVars)
    BY NextImplements DEF AbstractStep
  <1> QED
    BY <1>1, <1>2, <1>3, PTL DEF Spec, ImplementsActiveClient, AC!ACSpec

\* What that promise gives.
THEOREM NoActiveClientIsGone == AC!ACSpec => []AC!NoneIsGone
  <1>1. AC!ACInit => AC!NoneIsGone
    BY DEF AC!ACInit, AC!NoneIsGone
  <1>2. AC!NoneIsGone /\ [AC!ACNext]_(AC!acVars) => AC!NoneIsGone'
    BY DEF AC!ACNext, AC!acVars, AC!NoneIsGone, AC!Link, AC!Unlink, AC!Offer,
           AC!Report, AC!Choose, AC!Serve, AC!Drop, AC!LetGo, AC!Publish, AC!Stop
  <1> QED
    BY <1>1, <1>2, PTL DEF AC!ACSpec


=============================================================================
