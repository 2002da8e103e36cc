-------------------------- MODULE NodeActiveProofs --------------------------
(***************************************************************************)
(* Proofs about Node in SINGLE mode, for every set of clients: the active  *)
(* client is the one that may publish, or the event that will replace it   *)
(* is queued (SingleModeActiveIsPrimary).                                  *)
(***************************************************************************)
EXTENDS NodeRequestProofs

USE PahoClientAssumption, NodeAssumption

----------------------------------------------------------------------------
\* The inductive invariant. A connection is activated once: by the time its
\* CLIENT_CONNECTED event is processed, what an earlier connection of the client
\* has left in the queue is behind that connection's CLIENT_DISCONNECTED event.

Positions == 1..Len(eventQueue)

At(i, c, type) == eventQueue[i].client = c /\ eventQueue[i].type = type

\* A subscription is that of a client activated on its present connection.
Subscriber(c) ==
    /\ subscribing[c] \in {0, 1}
    /\ subscribing[c] = 1
          => /\ activeClient # c /\ link[c] = "up" /\ client[c].primary
             /\ ~Queued(c, "ACTIVE")
             /\ pc # "events" => ~Queued(c, "CONNECTED")

\* The active client has nothing left that would make it active again.
ActiveOnce(c) ==
    activeClient = c
        => /\ ~Queued(c, "ACTIVE")
           /\ client[c].primary \/ Queued(c, "DISCONNECTED")

\* There is one CLIENT_ACTIVE event at a time, that of a primary client or of a
\* connection that was lost since.
OneActive(c) ==
    \A i \in Positions : At(i, c, "ACTIVE") =>
       /\ \A k \in Positions : At(k, c, "ACTIVE") => k = i
       /\ \/ client[c].primary
          \/ \E j \in Positions : j > i /\ At(j, c, "DISCONNECTED")

\* A CLIENT_CONNECTED event comes after the end of the connection before it.
NewConnection(c) ==
    \A k \in Positions : At(k, c, "CONNECTED") =>
       /\ activeClient = c
             => \E j \in Positions : j < k /\ At(j, c, "DISCONNECTED")
       /\ \A i \in Positions : i < k /\ At(i, c, "ACTIVE")
             => \E j \in Positions : i < j /\ j < k /\ At(j, c, "DISCONNECTED")

\* A CLIENT_ACTIVE event behind a CLIENT_CONNECTED one is of the last connection.
LastConnection(c) ==
    \A k \in Positions : \A i \in Positions :
       k < i /\ At(k, c, "CONNECTED") /\ At(i, c, "ACTIVE") =>
          /\ pc = "events"
          /\ \A j \in Positions :
                i < j /\ At(j, c, "DISCONNECTED") => link[c] = "down"

SingleClient(c) ==
    /\ Subscriber(c) /\ ActiveOnce(c)
    /\ OneActive(c) /\ NewConnection(c) /\ LastConnection(c)

\* Nothing comes from a primary host.
NoHostEvents ==
    \A i \in Positions : eventQueue[i].type \notin {"ONLINE", "OFFLINE"}

SingleInv ==
    hostMode = "SINGLE" /\ Running
        => NoHostEvents /\ \A c \in Clients : SingleClient(c)

----------------------------------------------------------------------------
\* What the client's methods do to the primary flag: only a lost connection
\* clears it.

LEMMA SetStatePrimary ==
    ASSUME NEW s \in ClientRecords, NEW newState \in ClientStates
    PROVE  newState # "DISCONNECTED"
              => SetState(s, newState).primary = s.primary
  BY DEF SetState, ClientRecords

LEMMA PublishFromQueuePrimary ==
    ASSUME NEW c, NEW s \in ClientRecords, NEW accepted \in BOOLEAN
    PROVE  PublishFromQueue(c, s, accepted).primary = s.primary
  <1>1. ProcessFront(s, accepted).primary = s.primary
    BY DEF ProcessFront, ClientRecords
  <1>2. SetState(s, "CONNECTED").primary = s.primary
    BY SetStatePrimary DEF ClientStates
  <1> QED
    BY <1>1, <1>2 DEF PublishFromQueue

LEMMA RequestedPrimary ==
    ASSUME NEW c, NEW s \in ClientRecords, NEW requests \in Seq(Requests),
           NEW accepted \in BOOLEAN
    PROVE  Requested(c, s, requests, accepted).primary = s.primary
  <1> DEFINE queued == [s EXCEPT !.queue = s.queue \o requests]
  <1>1. s.queue \o requests \in Seq(Requests)
    BY DEF ClientRecords
  <1>2. queued \in ClientRecords /\ queued.primary = s.primary
    BY <1>1 DEF ClientRecords
  <1>3. Requested(c, s, requests, accepted) \in
           {queued, PublishFromQueue(c, queued, accepted)}
    BY DEF Requested
  <1> HIDE DEF queued
  <1> QED
    BY <1>2, <1>3, PublishFromQueuePrimary

LEMMA ResentPrimary ==
    ASSUME NEW s \in ClientRecords, NEW accepted \in BOOLEAN
    PROVE  Resent(s, accepted).primary = s.primary
  BY DEF Resent, ProcessFront, ClientRecords

----------------------------------------------------------------------------
\* A step that queues neither CLIENT_ACTIVE nor CLIENT_CONNECTED events.

\* The primary flag is cleared only for a connection whose end is queued.
PrimaryKept(c) ==
    \/ client'[c].primary = client[c].primary
    \/ /\ activeClient = c => Queued(c, "DISCONNECTED")'
       /\ \A i \in Positions : At(i, c, "ACTIVE") =>
             \E j \in Positions' : j > i /\ At(j, c, "DISCONNECTED")'

LEMMA QuietSingle ==
    ASSUME EventsKept, NEW c, SingleClient(c),
           \A i \in Positions' : i > Len(eventQueue) /\ eventQueue'[i].client = c
              => /\ eventQueue'[i].type \notin {"ACTIVE", "CONNECTED"}
                 /\ eventQueue'[i].type = "DISCONNECTED" => link'[c] = "down",
           pc = "events" => pc' = "events" \/ Len(eventQueue') = 0,
           UNCHANGED activeClient,
           subscribing'[c] \in {0, subscribing[c]},
           subscribing'[c] = 1 => link'[c] = link[c]
                                  /\ client'[c].primary = client[c].primary,
           pc = "events" /\ link[c] = "down" => link'[c] = "down",
           PrimaryKept(c)
    PROVE  SingleClient(c)'
  <1>1. ASSUME NEW i \in Positions', NEW type \in {"ACTIVE", "CONNECTED"},
               At(i, c, type)'
        PROVE  i \in Positions /\ At(i, c, type)
    <2>1. ~(i > Len(eventQueue))
      BY <1>1 DEF At
    <2>2. i \in Positions
      BY <2>1 DEF EventsKept, Positions
    <2> QED
      BY <1>1, <2>2 DEF EventsKept, Positions, At
  <1>2. ASSUME NEW i \in Positions, NEW type, At(i, c, type)
        PROVE  i \in Positions' /\ At(i, c, type)'
    BY <1>2 DEF EventsKept, Positions, At
  <1>3. \A type \in {"ACTIVE", "CONNECTED"} : Queued(c, type)' => Queued(c, type)
    BY <1>1 DEF Queued, Positions, At
  <1>4. Queued(c, "DISCONNECTED") => Queued(c, "DISCONNECTED")'
    BY <1>2 DEF Queued, Positions, At
  <1>5. Subscriber(c)'
    <2>1. subscribing'[c] \in {0, 1}
      BY DEF SingleClient, Subscriber
    <2> SUFFICES ASSUME subscribing'[c] = 1
                 PROVE  /\ activeClient' # c /\ link'[c] = "up" /\ client'[c].primary
                        /\ ~Queued(c, "ACTIVE")'
                        /\ pc' # "events" => ~Queued(c, "CONNECTED")'
      BY <2>1 DEF Subscriber
    <2>2. subscribing[c] = 1
      OBVIOUS
    <2>3. pc' # "events" => ~Queued(c, "CONNECTED")'
      <3>1. CASE pc = "events"
        BY <3>1 DEF Queued
      <3>2. CASE pc # "events"
        BY <1>3, <2>2, <3>2 DEF SingleClient, Subscriber
      <3> QED
        BY <3>1, <3>2
    <2> QED
      BY <1>3, <2>2, <2>3 DEF SingleClient, Subscriber
  <1>6. ActiveOnce(c)'
    BY <1>3, <1>4 DEF SingleClient, ActiveOnce, PrimaryKept
  <1>7. OneActive(c)'
    <2> SUFFICES ASSUME NEW i \in Positions', At(i, c, "ACTIVE")'
                 PROVE  /\ \A k \in Positions' : At(k, c, "ACTIVE")' => k = i
                        /\ \/ client'[c].primary
                           \/ \E j \in Positions' : j > i /\ At(j, c, "DISCONNECTED")'
      BY DEF OneActive
    <2>1. i \in Positions /\ At(i, c, "ACTIVE")
      BY <1>1
    <2>2. \A k \in Positions' : At(k, c, "ACTIVE")' => k = i
      BY <1>1, <2>1 DEF SingleClient, OneActive
    <2>3. \/ client[c].primary
          \/ \E j \in Positions : j > i /\ At(j, c, "DISCONNECTED")
      BY <2>1 DEF SingleClient, OneActive
    <2> QED
      BY <1>2, <2>1, <2>2, <2>3 DEF PrimaryKept
  <1>8. NewConnection(c)'
    <2> SUFFICES ASSUME NEW k \in Positions', At(k, c, "CONNECTED")'
                 PROVE  /\ activeClient' = c
                              => \E j \in Positions' : j < k /\ At(j, c, "DISCONNECTED")'
                        /\ \A i \in Positions' : i < k /\ At(i, c, "ACTIVE")'
                              => \E j \in Positions' :
                                    i < j /\ j < k /\ At(j, c, "DISCONNECTED")'
      BY DEF NewConnection
    <2>1. k \in Positions /\ At(k, c, "CONNECTED")
      BY <1>1
    <2> QED
      BY <1>1, <1>2, <2>1 DEF SingleClient, NewConnection
  <1>9. LastConnection(c)'
    <2> SUFFICES ASSUME NEW k \in Positions', NEW i \in Positions', k < i,
                        At(k, c, "CONNECTED")', At(i, c, "ACTIVE")'
                 PROVE  /\ pc' = "events"
                        /\ \A j \in Positions' :
                              i < j /\ At(j, c, "DISCONNECTED")' => link'[c] = "down"
      BY DEF LastConnection
    <2>1. /\ k \in Positions /\ At(k, c, "CONNECTED")
          /\ i \in Positions /\ At(i, c, "ACTIVE")
      BY <1>1
    <2>2. /\ pc = "events"
          /\ \A j \in Positions :
                i < j /\ At(j, c, "DISCONNECTED") => link[c] = "down"
      BY <2>1 DEF SingleClient, LastConnection
    <2>3. pc' = "events"
      BY <2>1, <2>2 DEF Positions, EventsKept
    <2>4. ASSUME NEW j \in Positions', i < j, At(j, c, "DISCONNECTED")'
          PROVE  link'[c] = "down"
      <3>1. CASE j > Len(eventQueue)
        BY <2>4, <3>1 DEF At
      <3>2. CASE ~(j > Len(eventQueue))
        <4>1. j \in Positions /\ At(j, c, "DISCONNECTED")
          BY <2>4, <3>2 DEF EventsKept, Positions, At
        <4> QED
          BY <2>2, <2>4, <4>1
      <3> QED
        BY <3>1, <3>2
    <2> QED
      BY <2>3, <2>4
  <1> QED
    BY <1>5, <1>6, <1>7, <1>8, <1>9 DEF SingleClient

----------------------------------------------------------------------------
\* The steps that queue CLIENT_CONNECTED and CLIENT_ACTIVE.

\* e is queued behind the others.
LEMMA PositionsAppended ==
    ASSUME ClientTypeOK, NEW e \in Events, eventQueue' = Append(eventQueue, e)
    PROVE  LET n == Len(eventQueue) IN
           /\ n \in Nat /\ EventsKept
           /\ n + 1 \in Positions' /\ eventQueue'[n + 1] = e
           /\ \A i \in Positions' : i = n + 1 \/ i \in Positions
           /\ \A i \in Positions : /\ i \in Positions' /\ i < n + 1
                                   /\ \A c, type : At(i, c, type)' <=> At(i, c, type)
  <1> DEFINE n == Len(eventQueue)
  <1>1. /\ EventsKept /\ Len(eventQueue') = n + 1
        /\ eventQueue'[n + 1] = e
    BY AppendKept
  <1>2. n \in Nat
    BY <1>1 DEF EventsKept
  <1>3. ASSUME NEW i \in Positions
        PROVE  i \in Positions' /\ i < n + 1 /\ eventQueue'[i] = eventQueue[i]
    BY <1>1, <1>2, <1>3 DEF EventsKept, Positions
  <1>4. n + 1 \in Positions' /\ \A i \in Positions' : i = n + 1 \/ i \in Positions
    BY <1>1, <1>2 DEF Positions
  <1> QED
    BY <1>1, <1>2, <1>3, <1>4 DEF At

\* A client that connects: what is left of its last connection is behind that
\* one's CLIENT_DISCONNECTED event, now in front of the new event.
LEMMA ConnectSingle ==
    ASSUME ClientTypeOK, ActiveInv, Running, NEW c \in Clients, SingleClient(c),
           link[c] = "connecting", link'[c] = "up",
           eventQueue' = Append(eventQueue, Event(c, "CONNECTED")),
           client'[c].primary = client[c].primary,
           UNCHANGED <<subscribing, activeClient, pc>>
    PROVE  SingleClient(c)'
  <1> DEFINE n == Len(eventQueue)
             e == Event(c, "CONNECTED")
  <1>1. e \in Events /\ e.client = c /\ e.type = "CONNECTED"
    BY EventType DEF EventTypes
  <1> HIDE DEF e
  <1>2. /\ n \in Nat /\ EventsKept
        /\ n + 1 \in Positions' /\ eventQueue'[n + 1] = e
        /\ \A i \in Positions' : i = n + 1 \/ i \in Positions
        /\ \A i \in Positions : /\ i \in Positions' /\ i < n + 1
                                /\ \A d, type : At(i, d, type)' <=> At(i, d, type)
    BY <1>1, PositionsAppended DEF e
  <1> HIDE DEF n
  <1>3. ASSUME NEW type, type # "CONNECTED", NEW i \in Positions', At(i, c, type)'
        PROVE  i \in Positions /\ At(i, c, type)
    <2>1. i # n + 1
      BY <1>1, <1>2, <1>3 DEF At
    <2> QED
      BY <1>2, <1>3, <2>1
  <1>4. Queued(c, "ACTIVE")' => Queued(c, "ACTIVE")
    BY <1>3 DEF Queued, Positions, At
  <1>5. Queued(c, "DISCONNECTED") => Queued(c, "DISCONNECTED")'
    BY <1>2 DEF Queued, Positions, At
  <1>6. Subscriber(c)'
    BY DEF SingleClient, Subscriber
  <1>7. ActiveOnce(c)'
    BY <1>4, <1>5 DEF SingleClient, ActiveOnce
  <1>8. OneActive(c)'
    BY <1>2, <1>3 DEF SingleClient, OneActive
  <1>9. NewConnection(c)'
    <2> SUFFICES ASSUME NEW k \in Positions', At(k, c, "CONNECTED")'
                 PROVE  /\ activeClient' = c
                              => \E j \in Positions' : j < k /\ At(j, c, "DISCONNECTED")'
                        /\ \A i \in Positions' : i < k /\ At(i, c, "ACTIVE")'
                              => \E j \in Positions' :
                                    i < j /\ j < k /\ At(j, c, "DISCONNECTED")'
      BY DEF NewConnection
    <2>1. CASE k \in Positions
      BY <1>2, <1>3, <2>1 DEF SingleClient, NewConnection
    <2>2. CASE k = n + 1
      <3>1. activeClient = c => \E j \in Positions : At(j, c, "DISCONNECTED")
        BY DEF ActiveInv, ActiveIsAlive, Queued, Positions, At
      <3>2. ASSUME NEW i \in Positions, At(i, c, "ACTIVE")
            PROVE  \E j \in Positions : i < j /\ At(j, c, "DISCONNECTED")
        <4>1. PICK j \in i + 1 .. Len(eventQueue) :
                 eventQueue[j].client = c /\ eventQueue[j].type = "DISCONNECTED"
          BY <3>2 DEF ActiveInv, ActiveEventIsAlive, Positions, At
        <4>2. j \in Positions /\ i < j
          BY <1>2 DEF Positions, n
        <4> QED
          BY <4>1, <4>2 DEF At
      <3> QED
        BY <1>2, <1>3, <2>2, <3>1, <3>2
    <2> QED
      BY <1>2, <2>1, <2>2
  <1>10. LastConnection(c)'
    <2> SUFFICES ASSUME NEW k \in Positions', NEW i \in Positions', k < i,
                        At(k, c, "CONNECTED")', At(i, c, "ACTIVE")'
                 PROVE  /\ pc' = "events"
                        /\ \A j \in Positions' :
                              i < j /\ At(j, c, "DISCONNECTED")' => link'[c] = "down"
      BY DEF LastConnection
    <2>1. i \in Positions /\ At(i, c, "ACTIVE")
      BY <1>3
    <2>2. k \in Positions
      <3>1. k # n + 1
        BY <1>2, <2>1 DEF Positions
      <3> QED
        BY <1>2, <3>1
    <2>3. At(k, c, "CONNECTED")
      BY <1>2, <2>2
    <2> QED
      BY <1>3, <2>1, <2>2, <2>3 DEF SingleClient, LastConnection
  <1> QED
    BY <1>6, <1>7, <1>8, <1>9, <1>10 DEF SingleClient

\* A subscription is acknowledged.
LEMMA SubscribedSingle ==
    ASSUME ClientTypeOK, NEW c \in Clients, SingleClient(c),
           subscribing[c] = 1, subscribing'[c] = 0,
           eventQueue' = Append(eventQueue, Event(c, "ACTIVE")),
           client'[c].primary = client[c].primary, link'[c] = link[c],
           UNCHANGED <<activeClient, pc>>
    PROVE  SingleClient(c)'
  <1> DEFINE n == Len(eventQueue)
             e == Event(c, "ACTIVE")
  <1>1. e \in Events /\ e.client = c /\ e.type = "ACTIVE"
    BY EventType DEF EventTypes
  <1> HIDE DEF e
  <1>2. /\ n \in Nat /\ EventsKept
        /\ n + 1 \in Positions' /\ eventQueue'[n + 1] = e
        /\ \A i \in Positions' : i = n + 1 \/ i \in Positions
        /\ \A i \in Positions : /\ i \in Positions' /\ i < n + 1
                                /\ \A d, type : At(i, d, type)' <=> At(i, d, type)
    BY <1>1, PositionsAppended DEF e
  <1> HIDE DEF n
  <1>3. ASSUME NEW type, type # "ACTIVE", NEW i \in Positions', At(i, c, type)'
        PROVE  i \in Positions /\ At(i, c, type)
    <2>1. i # n + 1
      BY <1>1, <1>2, <1>3 DEF At
    <2> QED
      BY <1>2, <1>3, <2>1
  <1>4. /\ activeClient # c /\ client[c].primary
        /\ \A i \in Positions : ~At(i, c, "ACTIVE")
        /\ pc # "events" => \A i \in Positions : ~At(i, c, "CONNECTED")
    BY DEF SingleClient, Subscriber, Queued, Positions, At
  <1>5. \A i \in Positions' : At(i, c, "ACTIVE")' => i = n + 1
    BY <1>2, <1>4
  <1>6. Subscriber(c)' /\ ActiveOnce(c)'
    BY <1>4 DEF Subscriber, ActiveOnce
  <1>7. OneActive(c)'
    BY <1>4, <1>5 DEF OneActive
  <1>8. \A k \in Positions' : At(k, c, "CONNECTED")' => k \in Positions /\ k < n + 1
    BY <1>2, <1>3
  <1>9. NewConnection(c)'
    <2> SUFFICES ASSUME NEW k \in Positions', At(k, c, "CONNECTED")'
                 PROVE  \A i \in Positions' : i < k => ~At(i, c, "ACTIVE")'
      BY <1>4 DEF NewConnection
    <2>1. k < n + 1 /\ k \in Int
      BY <1>8 DEF Positions
    <2> QED
      BY <1>2, <1>5, <2>1
  <1>10. LastConnection(c)'
    <2> SUFFICES ASSUME NEW k \in Positions', NEW i \in Positions', k < i,
                        At(k, c, "CONNECTED")', At(i, c, "ACTIVE")'
                 PROVE  /\ pc' = "events"
                        /\ \A j \in Positions' : i < j => ~At(j, c, "DISCONNECTED")'
      BY DEF LastConnection
    <2>1. pc = "events"
      BY <1>3, <1>4
    <2>2. i = n + 1
      BY <1>5
    <2>3. ASSUME NEW j \in Positions' PROVE ~(n + 1 < j)
      <3>1. j \in Int /\ (j = n + 1 \/ j < n + 1)
        BY <1>2 DEF Positions
      <3> QED
        BY <1>2, <3>1
    <2> QED
      BY <2>1, <2>2, <2>3
  <1> QED
    BY <1>6, <1>7, <1>9, <1>10 DEF SingleClient

----------------------------------------------------------------------------
\* The front event is processed.

\* What that may mean for client c: it becomes active only by its ACTIVE event
\* and does not stay active after its DISCONNECTED event; it subscribes only at
\* its CONNECTED event, when it was not primary; and it stops being primary only
\* when it stops being active.
ProcessedFor(c) ==
    /\ activeClient' = c
          => \/ activeClient = c /\ ~At(1, c, "DISCONNECTED")
             \/ At(1, c, "ACTIVE")
    /\ \/ subscribing'[c] = subscribing[c]
       \/ /\ At(1, c, "CONNECTED") /\ link[c] = "up"
          /\ ~client[c].primary /\ client'[c].primary
          /\ subscribing'[c] = subscribing[c] + 1
    /\ \/ client[c].primary => client'[c].primary
       \/ activeClient = c /\ activeClient' # c

LEMMA PopSingle ==
    ASSUME ClientTypeOK, eventQueue # <<>>, eventQueue' = Tail(eventQueue),
           UNCHANGED link, pc = "events", UNCHANGED pc,
           NEW c, SingleClient(c), ProcessedFor(c)
    PROVE  SingleClient(c)'
  <1> DEFINE n == Len(eventQueue)
  <1>1. /\ n \in Nat \ {0} /\ Len(eventQueue') = n - 1
        /\ \A i \in 1..(n - 1) : eventQueue'[i] = eventQueue[i + 1]
    BY HeadAndTail, EmptySeq DEF ClientTypeOK
  <1>2. 1 \in Positions
    BY <1>1 DEF Positions
  <1>3. ASSUME NEW i \in Positions'
        PROVE  /\ i \in Int /\ i + 1 \in Positions /\ 1 < i + 1
               /\ \A type : At(i, c, type)' <=> At(i + 1, c, type)
    <2>1. i \in 1..(n - 1) /\ i + 1 \in Positions /\ 1 < i + 1 /\ i \in Int
      BY <1>1 DEF Positions
    <2> QED
      BY <1>1, <2>1 DEF At
  <1>4. ASSUME NEW i \in Positions, i # 1
        PROVE  /\ i \in Int /\ i - 1 \in Positions' /\ 1 < i
               /\ \A type : At(i - 1, c, type)' <=> At(i, c, type)
    <2>1. i - 1 \in 1..(n - 1) /\ (i - 1) + 1 = i /\ 1 < i /\ i \in Int
      BY <1>1, <1>4 DEF Positions
    <2>2. i - 1 \in Positions' /\ eventQueue'[i - 1] = eventQueue[i]
      BY <1>1, <2>1 DEF Positions
    <2> QED
      BY <2>1, <2>2 DEF At
  <1> HIDE DEF n
  <1>5. ASSUME NEW type, Queued(c, type)' PROVE Queued(c, type)
    <2>1. PICK i \in Positions' : At(i, c, type)'
      BY <1>5 DEF Queued, Positions, At
    <2>2. i + 1 \in Positions /\ At(i + 1, c, type)
      BY <1>3, <2>1
    <2> QED
      BY <2>2 DEF Queued, Positions, At
  <1>6. ASSUME NEW j \in Positions, j # 1, At(j, c, "DISCONNECTED")
        PROVE  Queued(c, "DISCONNECTED")'
    <2>1. j - 1 \in Positions' /\ At(j - 1, c, "DISCONNECTED")'
      BY <1>4, <1>6
    <2> QED
      BY <2>1 DEF Queued, Positions, At
  <1>7. ASSUME subscribing'[c] # subscribing[c]
        PROVE  /\ subscribing[c] = 0 /\ subscribing'[c] = 1
               /\ link[c] = "up" /\ client'[c].primary
               /\ activeClient' # c /\ ~Queued(c, "ACTIVE")'
    <2>1. /\ At(1, c, "CONNECTED") /\ link[c] = "up"
          /\ ~client[c].primary /\ client'[c].primary
          /\ subscribing'[c] = subscribing[c] + 1
      BY <1>7 DEF ProcessedFor
    <2>2. subscribing[c] = 0
      BY <2>1 DEF SingleClient, Subscriber
    <2>3. activeClient # c
      <3>1. \A j \in Positions : ~(j < 1)
        BY DEF Positions
      <3> QED
        BY <1>2, <2>1, <3>1 DEF SingleClient, NewConnection
    <2>4. activeClient' # c
      BY <2>1, <2>3 DEF ProcessedFor, At
    <2>5. ~Queued(c, "ACTIVE")'
      <3> SUFFICES ASSUME NEW i \in Positions', At(i, c, "ACTIVE")' PROVE FALSE
        BY DEF Queued, Positions, At
      <3>1. i + 1 \in Positions /\ 1 < i + 1 /\ At(i + 1, c, "ACTIVE")
        BY <1>3
      <3>2. PICK j \in Positions : j > i + 1 /\ At(j, c, "DISCONNECTED")
        BY <2>1, <3>1 DEF SingleClient, OneActive
      <3>3. i + 1 < j
        BY <1>3, <3>2 DEF Positions
      <3>4. link[c] = "down"
        BY <1>2, <2>1, <3>1, <3>2, <3>3 DEF SingleClient, LastConnection
      <3> QED
        BY <2>1, <3>4
    <2> QED
      BY <2>1, <2>2, <2>4, <2>5
  <1>8. Subscriber(c)'
    <2>1. CASE subscribing'[c] # subscribing[c]
      BY <1>7, <2>1 DEF Subscriber
    <2>2. CASE subscribing'[c] = subscribing[c]
      <3>1. subscribing[c] = 1
               => activeClient # c /\ ~At(1, c, "ACTIVE")
        BY <1>2 DEF SingleClient, Subscriber, Queued, Positions, At
      <3> QED
        BY <1>5, <2>2, <3>1 DEF SingleClient, Subscriber, ProcessedFor
    <2> QED
      BY <2>1, <2>2
  <1>9. ASSUME activeClient' = c
        PROVE  ~Queued(c, "ACTIVE")' /\ (client'[c].primary \/ Queued(c, "DISCONNECTED")')
    <2>1. CASE activeClient = c /\ ~At(1, c, "DISCONNECTED")
      <3>1. client[c].primary \/ \E j \in Positions : At(j, c, "DISCONNECTED")
        BY <2>1 DEF SingleClient, ActiveOnce, Queued, Positions, At
      <3>2. client'[c].primary \/ Queued(c, "DISCONNECTED")'
        BY <1>6, <1>9, <2>1, <3>1 DEF ProcessedFor
      <3>3. ~Queued(c, "ACTIVE")
        BY <2>1 DEF SingleClient, ActiveOnce
      <3> QED
        BY <1>5, <3>2, <3>3
    <2>2. CASE At(1, c, "ACTIVE")
      <3>1. /\ \A k \in Positions : At(k, c, "ACTIVE") => k = 1
            /\ \/ client[c].primary
               \/ \E j \in Positions : j > 1 /\ At(j, c, "DISCONNECTED")
        BY <1>2, <2>2 DEF SingleClient, OneActive
      <3>2. ~Queued(c, "ACTIVE")'
        <4> SUFFICES ASSUME NEW i \in Positions', At(i, c, "ACTIVE")' PROVE FALSE
          BY DEF Queued, Positions, At
        <4> QED
          BY <1>3, <3>1
      <3>3. client'[c].primary \/ Queued(c, "DISCONNECTED")'
        BY <1>6, <1>9, <3>1 DEF ProcessedFor
      <3> QED
        BY <3>2, <3>3
    <2> QED
      BY <1>9, <2>1, <2>2 DEF ProcessedFor
  <1>10. ActiveOnce(c)'
    BY <1>9 DEF ActiveOnce
  <1>11. OneActive(c)'
    <2> SUFFICES ASSUME NEW i \in Positions', At(i, c, "ACTIVE")'
                 PROVE  /\ \A k \in Positions' : At(k, c, "ACTIVE")' => k = i
                        /\ \/ client'[c].primary
                           \/ \E j \in Positions' : j > i /\ At(j, c, "DISCONNECTED")'
      BY DEF OneActive
    <2>1. i + 1 \in Positions /\ At(i + 1, c, "ACTIVE") /\ i \in Int
      BY <1>3
    <2>2. ASSUME NEW k \in Positions', At(k, c, "ACTIVE")' PROVE k = i
      <3>1. k + 1 \in Positions /\ At(k + 1, c, "ACTIVE") /\ k \in Int
        BY <1>3, <2>2
      <3>2. k + 1 = i + 1
        BY <2>1, <3>1 DEF SingleClient, OneActive
      <3> QED
        BY <2>1, <3>1, <3>2
    <2>3. client[c].primary => client'[c].primary
      <3>1. activeClient # c
        BY <2>1 DEF SingleClient, ActiveOnce, Queued, Positions, At
      <3> QED
        BY <3>1 DEF ProcessedFor
    <2>4. CASE client[c].primary
      BY <2>2, <2>3, <2>4
    <2>5. CASE ~client[c].primary
      <3>1. PICK j \in Positions : j > i + 1 /\ At(j, c, "DISCONNECTED")
        BY <2>1, <2>5 DEF SingleClient, OneActive
      <3>2. j # 1 /\ j - 1 > i
        BY <1>3, <3>1 DEF Positions
      <3>3. j - 1 \in Positions' /\ At(j - 1, c, "DISCONNECTED")'
        BY <1>4, <3>1, <3>2
      <3> QED
        BY <2>2, <3>2, <3>3
    <2> QED
      BY <2>4, <2>5
  <1>12. NewConnection(c)'
    <2> SUFFICES ASSUME NEW k \in Positions', At(k, c, "CONNECTED")'
                 PROVE  /\ activeClient' = c
                              => \E j \in Positions' : j < k /\ At(j, c, "DISCONNECTED")'
                        /\ \A i \in Positions' : i < k /\ At(i, c, "ACTIVE")'
                              => \E j \in Positions' :
                                    i < j /\ j < k /\ At(j, c, "DISCONNECTED")'
      BY DEF NewConnection
    <2>1. k + 1 \in Positions /\ At(k + 1, c, "CONNECTED") /\ k \in Int /\ 1 < k + 1
      BY <1>3
    <2>2. ASSUME NEW j \in Positions, j # 1, j < k + 1, At(j, c, "DISCONNECTED")
          PROVE  j - 1 \in Positions' /\ j - 1 < k /\ At(j - 1, c, "DISCONNECTED")'
      <3>1. j \in Int /\ j - 1 \in Positions' /\ At(j - 1, c, "DISCONNECTED")'
        BY <1>4, <2>2
      <3> QED
        BY <2>1, <2>2, <3>1
    <2>3. ASSUME activeClient' = c
          PROVE  \E j \in Positions' : j < k /\ At(j, c, "DISCONNECTED")'
      <3>1. \E j \in Positions : j # 1 /\ j < k + 1 /\ At(j, c, "DISCONNECTED")
        <4>1. CASE activeClient = c /\ ~At(1, c, "DISCONNECTED")
          BY <2>1, <4>1 DEF SingleClient, NewConnection
        <4>2. CASE At(1, c, "ACTIVE")
          <5>1. PICK j \in Positions :
                        1 < j /\ j < k + 1 /\ At(j, c, "DISCONNECTED")
            BY <1>2, <2>1, <4>2 DEF SingleClient, NewConnection
          <5> QED
            BY <5>1
        <4> QED
          BY <2>3, <4>1, <4>2 DEF ProcessedFor
      <3> QED
        BY <2>2, <3>1
    <2>4. ASSUME NEW i \in Positions', i < k, At(i, c, "ACTIVE")'
          PROVE  \E j \in Positions' : i < j /\ j < k /\ At(j, c, "DISCONNECTED")'
      <3>1. i + 1 \in Positions /\ At(i + 1, c, "ACTIVE") /\ i \in Int /\ 1 < i + 1
        BY <1>3, <2>4
      <3>2. i + 1 < k + 1
        BY <2>1, <2>4, <3>1
      <3>3. PICK j \in Positions :
                    i + 1 < j /\ j < k + 1 /\ At(j, c, "DISCONNECTED")
        BY <2>1, <3>1, <3>2 DEF SingleClient, NewConnection
      <3>4. j # 1 /\ i < j - 1
        BY <3>1, <3>3 DEF Positions
      <3> QED
        BY <2>2, <3>3, <3>4
    <2> QED
      BY <2>3, <2>4
  <1>13. LastConnection(c)'
    <2> SUFFICES ASSUME NEW k \in Positions', NEW i \in Positions', k < i,
                        At(k, c, "CONNECTED")', At(i, c, "ACTIVE")',
                        NEW j \in Positions', i < j, At(j, c, "DISCONNECTED")'
                 PROVE  link[c] = "down"
      BY DEF LastConnection
    <2>1. /\ k + 1 \in Positions /\ At(k + 1, c, "CONNECTED")
          /\ i + 1 \in Positions /\ At(i + 1, c, "ACTIVE")
          /\ j + 1 \in Positions /\ At(j + 1, c, "DISCONNECTED")
      BY <1>3
    <2>2. k + 1 < i + 1 /\ i + 1 < j + 1
      BY <1>3
    <2> QED
      BY <2>1, <2>2 DEF SingleClient, LastConnection
  <1> QED
    BY <1>8, <1>10, <1>11, <1>12, <1>13 DEF SingleClient

LEMMA ActivateClientSingle ==
    ASSUME ClientTypeOK, NEW c \in Clients, ActivateClient(c), NEW d \in Clients
    PROVE  /\ client[d].primary => client'[d].primary
           /\ \/ subscribing'[d] = subscribing[d]
              \/ /\ d = c /\ link[c] = "up"
                 /\ ~client[c].primary /\ client'[c].primary
                 /\ subscribing'[c] = subscribing[c] + 1
  <1> DEFINE activated == [client[c] EXCEPT !.primary = TRUE]
  <1>1. activated.primary = TRUE
    BY ClientQueue DEF ClientRecords
  <1>2. \/ UNCHANGED <<client, subscribing>>
        \/ /\ ~client[c].primary /\ client' = [client EXCEPT ![c] = activated]
           /\ \/ /\ link[c] = "up"
                 /\ subscribing' = [subscribing EXCEPT ![c] = subscribing[c] + 1]
              \/ UNCHANGED subscribing
    BY DEF ActivateClient, IsConnected
  <1> HIDE DEF activated
  <1> QED
    BY <1>1, <1>2 DEF ClientTypeOK

LEMMA SetActiveClientPrimary ==
    ASSUME ClientTypeOK, NEW c \in Clients, NEW accepted \in BOOLEAN,
           SetActiveClient(c, accepted), NEW d \in Clients
    PROVE  \/ client'[d].primary = client[d].primary
           \/ d # c /\ d = activeClient
  <1>1. client[d] \in ClientRecords
    BY ClientQueue
  <1>2. client'[d] = IF d = c THEN Requested(c, client[c], BirthRequests, accepted)
                     ELSE IF d = activeClient THEN Deactivate(client[d])
                     ELSE client[d]
    BY DEF SetActiveClient
  <1>3. d = c => Requested(c, client[c], BirthRequests, accepted).primary
                    = client[c].primary
    BY <1>1, BirthRequestsType, RequestedPrimary
  <1> QED
    BY <1>2, <1>3

LEMMA ProcessSingle ==
    ASSUME NodeTypeOK, hostMode = "SINGLE", NoHostEvents,
           \A d \in Clients : SingleClient(d),
           NEW c \in Clients, NEW accepted \in BOOLEAN,
           \/ ProcessConnected(c) \/ ProcessDisconnected(c) \/ ProcessResolved(c)
           \/ ProcessOnline(c) \/ ProcessOffline(c)
           \/ ProcessActive(c, accepted) \/ ProcessRebirth(c, accepted)
    PROVE  NoHostEvents' /\ \A d \in Clients : SingleClient(d)'
  <1>1. PICK type \in EventTypes :
           /\ Pop(c, type)
           /\ \/ type = "CONNECTED" /\ ActivateClient(c) /\ UNCHANGED activeClient
              \/ type = "DISCONNECTED" /\ DeactivateClient(c) /\ UNCHANGED subscribing
              \/ /\ type = "ACTIVE" \/ (activeClient = c /\ type = "REBIRTH")
                 /\ SetActiveClient(c, accepted) /\ UNCHANGED subscribing
              \/ /\ type # "DISCONNECTED"
                 /\ UNCHANGED <<client, subscribing, activeClient>>
              \/ type \in {"ONLINE", "OFFLINE"}
    BY DEF ProcessConnected, ProcessDisconnected, ProcessResolved, ProcessOnline,
           ProcessOffline, ProcessActive, ProcessRebirth, EventTypes
  <1>2. /\ ClientTypeOK /\ eventQueue \in Seq(Events)
        /\ eventQueue # <<>> /\ eventQueue' = Tail(eventQueue)
        /\ Head(eventQueue).client = c /\ Head(eventQueue).type = type
        /\ pc = "events" /\ UNCHANGED <<link, pc>>
    BY <1>1 DEF NodeTypeOK, ClientTypeOK, Pop
  <1>3. /\ Head(eventQueue) = eventQueue[1] /\ 1 \in Positions
        /\ Len(eventQueue) \in Nat /\ Len(eventQueue') = Len(eventQueue) - 1
        /\ \A i \in 1..Len(eventQueue') : eventQueue'[i] = eventQueue[i + 1]
    BY <1>2, HeadAndTail, EmptySeq DEF Positions
  <1>4. \A d, t : At(1, d, t) <=> d = c /\ t = type
    BY <1>2, <1>3 DEF At
  <1>5. type \notin {"ONLINE", "OFFLINE"}
    BY <1>2, <1>3 DEF NoHostEvents
  <1>6. NoHostEvents'
    <2> SUFFICES ASSUME NEW i \in Positions'
                 PROVE  eventQueue'[i].type \notin {"ONLINE", "OFFLINE"}
      BY DEF NoHostEvents
    <2>1. i + 1 \in Positions /\ eventQueue'[i] = eventQueue[i + 1]
      BY <1>3 DEF Positions
    <2> QED
      BY <2>1 DEF NoHostEvents
  <1>7. ASSUME NEW d \in Clients PROVE ProcessedFor(d)
    <2>1. d # NoClient
      OBVIOUS
    <2>2. CASE type = "CONNECTED" /\ ActivateClient(c) /\ UNCHANGED activeClient
      BY <1>2, <1>4, <2>2, ActivateClientSingle DEF ProcessedFor
    <2>3. CASE type = "DISCONNECTED" /\ DeactivateClient(c) /\ UNCHANGED subscribing
      <3>1. CASE activeClient # c
        BY <1>4, <2>3, <3>1 DEF ProcessedFor, DeactivateClient
      <3>2. CASE activeClient = c
        <4>1. /\ activeClient' = NoClient
              /\ client' = [client EXCEPT ![c] = Deactivate(client[c])]
          BY <2>3, <3>2 DEF DeactivateClient
        <4>2. d # c => client'[d] = client[d]
          BY <1>2, <4>1 DEF ClientTypeOK
        <4> QED
          BY <2>1, <2>3, <3>2, <4>1, <4>2 DEF ProcessedFor
      <3> QED
        BY <3>1, <3>2
    <2>4. CASE /\ type = "ACTIVE" \/ (activeClient = c /\ type = "REBIRTH")
               /\ SetActiveClient(c, accepted) /\ UNCHANGED subscribing
      <3>1. activeClient' = c
        BY <2>4 DEF SetActiveClient
      <3>2. \/ client'[d].primary = client[d].primary
            \/ d # c /\ d = activeClient
        BY <1>2, <2>4, SetActiveClientPrimary
      <3> QED
        BY <1>4, <2>4, <3>1, <3>2 DEF ProcessedFor
    <2>5. CASE /\ type # "DISCONNECTED"
               /\ UNCHANGED <<client, subscribing, activeClient>>
      BY <1>4, <2>5 DEF ProcessedFor
    <2> QED
      BY <1>1, <1>5, <2>2, <2>3, <2>4, <2>5
  <1> QED
    BY <1>2, <1>6, <1>7, PopSingle

----------------------------------------------------------------------------
\* The other steps.

LEMMA NoHostStays ==
    ASSUME EventsKept, NoHostEvents,
           \A i \in Positions' : i > Len(eventQueue)
              => eventQueue'[i].type \notin {"ONLINE", "OFFLINE"}
    PROVE  NoHostEvents'
  <1> SUFFICES ASSUME NEW i \in Positions', ~(i > Len(eventQueue))
               PROVE  eventQueue'[i].type \notin {"ONLINE", "OFFLINE"}
    BY DEF NoHostEvents
  <1>1. i \in Positions /\ eventQueue'[i] = eventQueue[i]
    BY DEF EventsKept, Positions
  <1> QED
    BY <1>1 DEF NoHostEvents

\* Steps that queue no event and leave the client's flag alone.
LEMMA SameEventsSingle ==
    ASSUME ClientTypeOK, UNCHANGED <<eventQueue, activeClient>>, NoHostEvents,
           \A d \in Clients :
              /\ SingleClient(d)
              /\ client'[d].primary = client[d].primary
              /\ subscribing'[d] \in {0, subscribing[d]}
              /\ subscribing'[d] = 1 => link'[d] = link[d]
              /\ pc = "events" /\ link[d] = "down" => link'[d] = "down",
           pc = "events" => pc' = "events" \/ Len(eventQueue') = 0
    PROVE  NoHostEvents' /\ \A d \in Clients : SingleClient(d)'
  <1>1. EventsKept
    BY SameEventsKept
  <1>2. \A i \in Positions' : ~(i > Len(eventQueue))
    BY <1>1 DEF EventsKept, Positions
  <1>3. NoHostEvents'
    BY <1>1, <1>2, NoHostStays
  <1>4. \A d \in Clients : PrimaryKept(d)
    BY DEF PrimaryKept
  <1> QED
    BY <1>1, <1>2, <1>3, <1>4, QuietSingle

\* The events of a dumped queue.
LEMMA DumpTypes ==
    ASSUME ClientTypeOK, NEW c \in Clients, OnDisconnect(c)
    PROVE  /\ \A i \in Positions' : i > Len(eventQueue)
                 => eventQueue'[i].type \in {"UNDELIVERED", "DISCONNECTED"}
           /\ \A i \in Positions : \E j \in Positions' :
                 j > i /\ At(j, c, "DISCONNECTED")'
  <1> DEFINE q == client[c].queue
             dump == [i \in 1..Len(q) |-> Resolution(c, "UNDELIVERED", q[i])]
             event == Event(c, "DISCONNECTED")
             n == Len(eventQueue)
             m == Len(dump)
  <1>1. q \in Seq(Requests) /\ eventQueue \in Seq(Events)
    BY ClientQueue DEF ClientTypeOK
  <1>2. dump \in Seq(Events) /\ \A i \in 1..m : dump[i].type = "UNDELIVERED"
    BY <1>1, DumpType
  <1>3. event \in Events /\ event.client = c /\ event.type = "DISCONNECTED"
    BY EventType DEF EventTypes
  <1>4. eventQueue' = Append(eventQueue \o dump, event)
    BY DEF OnDisconnect
  <1> HIDE DEF dump, event
  <1>5. /\ eventQueue \o dump \in Seq(Events) /\ Len(eventQueue \o dump) = n + m
        /\ \A i \in 1..n : (eventQueue \o dump)[i] = eventQueue[i]
        /\ \A i \in 1..m : (eventQueue \o dump)[n + i] = dump[i]
    <2>1. eventQueue \in Seq(Events) /\ dump \in Seq(Events)
      BY <1>1, <1>2
    <2> QED
      BY <2>1, Extended
  <1>6. n \in Nat /\ m \in Nat
    BY <1>1, <1>2
  <1>7. /\ Len(eventQueue') = n + m + 1
        /\ \A i \in 1..(n + m) : eventQueue'[i] = (eventQueue \o dump)[i]
        /\ eventQueue'[n + m + 1] = event
    BY <1>3, <1>4, <1>5, Appended
  <1> HIDE DEF n, m
  <1>8. ASSUME NEW i \in Positions', i > n
        PROVE  eventQueue'[i].type \in {"UNDELIVERED", "DISCONNECTED"}
    <2>1. CASE i = n + m + 1
      BY <1>3, <1>7, <2>1
    <2>2. CASE i # n + m + 1
      <3>1. i - n \in 1..m /\ n + (i - n) = i /\ i \in 1..(n + m)
        BY <1>6, <1>7, <1>8, <2>2 DEF Positions
      <3>2. eventQueue'[i] = dump[i - n]
        BY <1>5, <1>7, <3>1
      <3> QED
        BY <1>2, <3>1, <3>2
    <2> QED
      BY <2>1, <2>2
  <1>9. ASSUME NEW i \in Positions
        PROVE  \E j \in Positions' : j > i /\ At(j, c, "DISCONNECTED")'
    <2>1. PICK j \in Positions' : j = n + m + 1 /\ j > i
      BY <1>6, <1>7 DEF Positions, n
    <2>2. At(j, c, "DISCONNECTED")'
      BY <1>3, <1>7, <2>1 DEF At
    <2> QED
      BY <2>1, <2>2
  <1> QED
    BY <1>8, <1>9 DEF n

LEMMA DeliveryPrimary ==
    ASSUME ClientTypeOK, NEW c \in Clients, Delivery(c)
    PROVE  /\ EventsKept /\ UNCHANGED <<link, subscribing>>
           /\ \A d \in Clients : client'[d].primary = client[d].primary
           /\ \A i \in Positions' : i > Len(eventQueue)
                 => eventQueue'[i].type \in {"DELIVERED", "UNDELIVERED"}
  <1> DEFINE s == client[c]
             popped == [s EXCEPT !.queue = Tail(s.queue)]
  <1>1. s \in ClientRecords /\ s.queue \in Seq(Requests)
    BY ClientQueue
  <1>2. PICK accepted \in BOOLEAN :
            OnDelivery(c, accepted) \/ OnDeliveryFailure(c, accepted)
    BY DEF Delivery
  <1>3. /\ UNCHANGED <<link, subscribing>> /\ s.queue # <<>>
        /\ \/ /\ client' = [client EXCEPT ![c] = PublishFromQueue(c, popped, accepted)]
              /\ \E type \in {"DELIVERED", "UNDELIVERED"} :
                    eventQueue' = Append(eventQueue,
                                         Resolution(c, type, Head(s.queue)))
           \/ /\ client' = [client EXCEPT ![c] = Resent(s, accepted)]
              /\ UNCHANGED eventQueue
    BY <1>2 DEF OnDelivery, OnDeliveryFailure, PopFront, FrontIsSent
  <1>4. /\ Head(s.queue) \in Requests
        /\ popped \in ClientRecords /\ popped.primary = s.primary
    <2>1. Head(s.queue) \in Requests /\ Tail(s.queue) \in Seq(Requests)
      BY <1>1, <1>3, HeadAndTail
    <2> QED
      BY <1>1, <2>1 DEF ClientRecords
  <1> HIDE DEF popped
  <1>5. /\ PublishFromQueue(c, popped, accepted).primary = s.primary
        /\ Resent(s, accepted).primary = s.primary
    BY <1>1, <1>4, PublishFromQueuePrimary, ResentPrimary
  <1>6. \A d \in Clients : client'[d].primary = client[d].primary
    BY <1>3, <1>5 DEF ClientTypeOK
  <1>7. CASE UNCHANGED eventQueue
    BY <1>3, <1>6, <1>7, SameEventsKept DEF EventsKept, Positions
  <1>8. ASSUME NEW type \in {"DELIVERED", "UNDELIVERED"},
               eventQueue' = Append(eventQueue, Resolution(c, type, Head(s.queue)))
        PROVE  /\ EventsKept
               /\ \A i \in Positions' : i > Len(eventQueue)
                     => eventQueue'[i].type \in {"DELIVERED", "UNDELIVERED"}
    <2> DEFINE e == Resolution(c, type, Head(s.queue))
    <2>1. e \in Events /\ e.type = type
      BY <1>4, ResolutionType
    <2>2. eventQueue' = Append(eventQueue, e)
      BY <1>8
    <2> HIDE DEF e
    <2>3. /\ EventsKept
          /\ \A i \in Positions' : i > Len(eventQueue) => eventQueue'[i] = e
      BY <2>1, <2>2, PositionsAppended DEF Positions
    <2> QED
      BY <2>1, <2>3
  <1> QED
    BY <1>3, <1>6, <1>7, <1>8

LEMMA LibrarySingle ==
    ASSUME NodeTypeOK, ActiveInv, hostMode = "SINGLE", Running, NoHostEvents,
           \A d \in Clients : SingleClient(d),
           NEW c \in Clients, NEW online \in BOOLEAN,
           Callback(c) \/ Lose(c) \/ Command(c) \/ HostMessage(c, online)
    PROVE  NoHostEvents' /\ \A d \in Clients : SingleClient(d)'
  <1>1. ClientTypeOK /\ UNCHANGED <<activeClient, pc>>
    BY DEF NodeTypeOK, Callback, nodeVars, Lose, Command, HostMessage
  <1>2. ~HostMessage(c, online)
    BY DEF HostMessage
  \* What an event of c does to the other clients.
  <1>3. ASSUME NewsOf(c), UNCHANGED <<subscribing>>
               \/ subscribing' = [subscribing EXCEPT ![c] = subscribing'[c]],
               \A d \in Clients : d # c => client'[d].primary = client[d].primary
                                           /\ link'[d] = link[d],
               NEW d \in Clients, d # c
        PROVE  SingleClient(d)'
    <2>1. subscribing'[d] = subscribing[d]
      BY <1>1, <1>3 DEF ClientTypeOK
    <2>2. EventsKept /\ \A i \in Positions' :
             i > Len(eventQueue) => eventQueue'[i].client # d
      BY <1>3 DEF NewsOf, Positions
    <2>3. PrimaryKept(d)
      BY <1>3 DEF PrimaryKept
    <2> QED
      BY <1>1, <1>3, <2>1, <2>2, <2>3, QuietSingle
  <1>4. CASE OnConnect(c)
    <2> DEFINE r == [client[c] EXCEPT !.born = {}]
    <2>1. r \in ClientRecords /\ r.primary = client[c].primary
      BY <1>1, ClientQueue DEF ClientRecords
    <2>2. /\ link[c] = "connecting" /\ link' = [link EXCEPT ![c] = "up"]
          /\ client' = [client EXCEPT ![c] = SetState(r, "CONNECTED")]
          /\ eventQueue' = Append(eventQueue, Event(c, "CONNECTED"))
          /\ UNCHANGED subscribing
      BY <1>4 DEF OnConnect
    <2> HIDE DEF r
    <2>3. SetState(r, "CONNECTED").primary = client[c].primary
      BY <2>1, SetStatePrimary DEF ClientStates
    <2>4. /\ \A d \in Clients : client'[d].primary = client[d].primary
          /\ \A d \in Clients : d # c => link'[d] = link[d]
          /\ link'[c] = "up"
      BY <1>1, <2>2, <2>3 DEF ClientTypeOK
    <2>5. /\ Event(c, "CONNECTED") \in Events /\ Event(c, "CONNECTED").client = c
          /\ Event(c, "CONNECTED").type = "CONNECTED"
      BY EventType DEF EventTypes
    <2>6. NewsOf(c)
      BY <1>1, <2>2, <2>5, OneNews
    <2>7. NoHostEvents'
      <3>1. \A i \in Positions' : i > Len(eventQueue)
               => eventQueue'[i] = Event(c, "CONNECTED")
        BY <1>1, <2>2, <2>5, PositionsAppended DEF Positions
      <3> QED
        BY <2>5, <2>6, <3>1, NoHostStays DEF NewsOf
    <2>8. SingleClient(c)'
      BY <1>1, <2>2, <2>4, ConnectSingle
    <2> QED
      BY <1>3, <2>2, <2>4, <2>6, <2>7, <2>8
  <1>5. CASE OnConnectFailure(c)
    <2>1. /\ link[c] = "connecting" /\ link' = [link EXCEPT ![c] = "down"]
          /\ client' = [client EXCEPT ![c] = SetState(client[c], "DISCONNECTED")]
          /\ UNCHANGED <<subscribing, eventQueue>>
      BY <1>5 DEF OnConnectFailure
    <2>2. NewsOf(c) /\ EventsKept
      BY <1>1, <2>1, NoNews DEF NewsOf
    <2>3. \A d \in Clients : d # c => client'[d] = client[d] /\ link'[d] = link[d]
      BY <1>1, <2>1 DEF ClientTypeOK
    <2>4. \A i \in Positions' : ~(i > Len(eventQueue))
      BY <2>1, <2>2 DEF EventsKept, Positions
    <2>5. NoHostEvents'
      BY <2>2, <2>4, NoHostStays
    <2>6. PrimaryKept(c)
      <3>1. activeClient = c => Queued(c, "DISCONNECTED")'
        BY <2>1 DEF ActiveInv, ActiveIsAlive, Queued
      <3>2. ASSUME NEW i \in Positions, At(i, c, "ACTIVE")
            PROVE  \E j \in Positions' : j > i /\ At(j, c, "DISCONNECTED")'
        <4>1. PICK j \in i + 1 .. Len(eventQueue) :
                 eventQueue[j].client = c /\ eventQueue[j].type = "DISCONNECTED"
          BY <2>1, <3>2 DEF ActiveInv, ActiveEventIsAlive, Positions, At
        <4>2. j \in Positions' /\ j > i
          BY <2>1, <2>2 DEF Positions, EventsKept
        <4> QED
          BY <2>1, <4>1, <4>2 DEF At
      <3> QED
        BY <3>1, <3>2 DEF PrimaryKept
    <2>7. subscribing[c] # 1
      BY <2>1 DEF SingleClient, Subscriber
    <2>8. SingleClient(c)'
      BY <1>1, <2>1, <2>2, <2>4, <2>6, <2>7, QuietSingle
    <2> QED
      BY <1>3, <2>1, <2>2, <2>3, <2>5, <2>8
  <1>6. CASE OnDisconnect(c)
    <2>1. /\ NewsOf(c) /\ EventsKept /\ Queued(c, "DISCONNECTED")'
          /\ link' = [link EXCEPT ![c] = "down"] /\ link[c] = "lost"
          /\ UNCHANGED subscribing
      BY <1>1, <1>6, DumpNews DEF NewsOf, OnDisconnect
    <2>2. /\ link'[c] = "down"
          /\ \A d \in Clients : d # c => client'[d] = client[d] /\ link'[d] = link[d]
      BY <1>1, <1>6 DEF OnDisconnect, ClientTypeOK
    <2>3. \A i \in Positions' : i > Len(eventQueue)
             => eventQueue'[i].type \in {"UNDELIVERED", "DISCONNECTED"}
      BY <1>1, <1>6, DumpTypes
    <2>4. NoHostEvents'
      BY <2>1, <2>3, NoHostStays
    <2>5. PrimaryKept(c)
      <3>1. \A i \in Positions : \E j \in Positions' :
               j > i /\ At(j, c, "DISCONNECTED")'
        BY <1>1, <1>6, DumpTypes
      <3> QED
        BY <2>1, <3>1 DEF PrimaryKept
    <2>6. subscribing[c] # 1
      BY <2>1 DEF SingleClient, Subscriber
    <2>7. SingleClient(c)'
      BY <1>1, <2>1, <2>2, <2>3, <2>5, <2>6, QuietSingle
    <2> QED
      BY <1>3, <2>1, <2>2, <2>4, <2>7
  <1>7. CASE Subscription(c)
    <2>1. /\ link[c] = "up" /\ UNCHANGED <<client, link>>
          /\ subscribing[c] > 0
          /\ subscribing' = [subscribing EXCEPT ![c] = subscribing[c] - 1]
          /\ \/ eventQueue' = Append(eventQueue, Event(c, "ACTIVE"))
             \/ UNCHANGED eventQueue
      BY <1>7 DEF Subscription, OnCommandSubscription, OnCommandSubscribeFailure
    <2>2. subscribing[c] = 1 /\ subscribing'[c] = 0
      BY <1>1, <2>1 DEF SingleClient, Subscriber, ClientTypeOK
    <2>3. CASE UNCHANGED eventQueue
      <3>1. \A d \in Clients : subscribing'[d] \in {0, subscribing[d]}
        BY <1>1, <2>1, <2>2 DEF ClientTypeOK
      <3> QED
        BY <1>1, <2>1, <2>3, <3>1, SameEventsSingle
    <2>4. CASE eventQueue' = Append(eventQueue, Event(c, "ACTIVE"))
      <3>1. /\ Event(c, "ACTIVE") \in Events /\ Event(c, "ACTIVE").client = c
            /\ Event(c, "ACTIVE").type = "ACTIVE"
        BY EventType DEF EventTypes
      <3>2. NewsOf(c)
        BY <1>1, <2>4, <3>1, OneNews
      <3>3. NoHostEvents'
        <4>1. \A i \in Positions' : i > Len(eventQueue)
                 => eventQueue'[i] = Event(c, "ACTIVE")
          BY <1>1, <2>4, <3>1, PositionsAppended DEF Positions
        <4> QED
          BY <3>1, <3>2, <4>1, NoHostStays DEF NewsOf
      <3>4. SingleClient(c)'
        BY <1>1, <2>1, <2>2, <2>4, SubscribedSingle
      <3>5. subscribing' = [subscribing EXCEPT ![c] = subscribing'[c]]
        BY <1>1, <2>1 DEF ClientTypeOK
      <3> QED
        BY <1>3, <2>1, <3>2, <3>3, <3>4, <3>5
    <2> QED
      BY <2>1, <2>3, <2>4
  <1>8. CASE Delivery(c)
    <2>1. /\ EventsKept /\ UNCHANGED <<link, subscribing>>
          /\ \A d \in Clients : client'[d].primary = client[d].primary
          /\ \A i \in Positions' : i > Len(eventQueue)
                => eventQueue'[i].type \in {"DELIVERED", "UNDELIVERED"}
      BY <1>1, <1>8, DeliveryPrimary
    <2>2. NoHostEvents'
      BY <2>1, NoHostStays
    <2>3. \A d \in Clients : PrimaryKept(d)
      BY <2>1 DEF PrimaryKept
    <2> QED
      BY <1>1, <2>1, <2>2, <2>3, QuietSingle
  <1>9. CASE Lose(c)
    <2>1. /\ UNCHANGED <<client, eventQueue>> /\ link[c] = "up"
          /\ link' = [link EXCEPT ![c] = "lost"]
          /\ subscribing' = [subscribing EXCEPT ![c] = 0]
      BY <1>9 DEF Lose, LinkLost
    <2>2. ASSUME NEW d \in Clients
          PROVE  /\ subscribing'[d] \in {0, subscribing[d]}
                 /\ subscribing'[d] = 1 => link'[d] = link[d]
                 /\ link[d] = "down" => link'[d] = "down"
      BY <1>1, <2>1 DEF ClientTypeOK
    <2> QED
      BY <1>1, <2>1, <2>2, SameEventsSingle
  <1>10. CASE Command(c)
    <2> DEFINE e == Event(c, "REBIRTH")
    <2>1. /\ UNCHANGED <<client, link, subscribing>>
          /\ eventQueue' = Append(eventQueue, e)
      BY <1>10 DEF Command, OnMessage
    <2>2. e \in Events /\ e.type = "REBIRTH"
      BY EventType DEF EventTypes
    <2> HIDE DEF e
    <2>3. /\ EventsKept
          /\ \A i \in Positions' : i > Len(eventQueue) => eventQueue'[i] = e
      BY <1>1, <2>1, <2>2, PositionsAppended DEF Positions
    <2>4. NoHostEvents'
      BY <2>2, <2>3, NoHostStays
    <2>5. \A d \in Clients : PrimaryKept(d)
      BY <2>1 DEF PrimaryKept
    <2> QED
      BY <1>1, <2>1, <2>2, <2>3, <2>4, <2>5, QuietSingle
  <1> QED
    BY <1>2, <1>4, <1>5, <1>6, <1>7, <1>8, <1>9, <1>10 DEF Callback, Connection

LEMMA OtherSingle ==
    ASSUME NodeTypeOK, NoHostEvents, \A d \in Clients : SingleClient(d),
           \/ ConnectClient \/ ConnectReturns \/ SkipClient \/ EventsProcessed
           \/ \E accepted \in BOOLEAN : PublishNext(accepted)
           \/ \E p \in Publishables, isBirth, accepted \in BOOLEAN :
                 RequestPublish(p, isBirth, accepted)
           \/ UNCHANGED vars
    PROVE  NoHostEvents' /\ \A d \in Clients : SingleClient(d)'
  <1>1. /\ ClientTypeOK /\ UNCHANGED <<eventQueue, activeClient, subscribing>>
        /\ pc = "events" => pc' = "events" \/ Len(eventQueue') = 0
    <2>1. eventQueue = <<>> => Len(eventQueue) = 0
      OBVIOUS
    <2> QED
      BY <2>1 DEF NodeTypeOK, ConnectClient, ConnectReturns, SkipClient,
         EventsProcessed, PublishNext, RequestPublish, Idle, vars, clientVars,
         nodeVars
  <1>2. \/ UNCHANGED link
        \/ /\ pc # "events" /\ Self \in Clients
           /\ link[Self] = "down" /\ link' = [link EXCEPT ![Self] = "connecting"]
    BY OrderType DEF ConnectClient, ConnectReturns, SkipClient, EventsProcessed,
       PublishNext, RequestPublish, vars, clientVars
  <1>3. ASSUME NEW d \in Clients
        PROVE  /\ subscribing[d] = 1 => link'[d] = link[d]
               /\ pc = "events" /\ link[d] = "down" => link'[d] = "down"
    <2>1. subscribing[d] = 1 => link[d] = "up"
      BY DEF SingleClient, Subscriber
    <2> QED
      BY <1>1, <1>2, <2>1 DEF ClientTypeOK
  <1>4. ASSUME NEW d \in Clients
        PROVE  client'[d].primary = client[d].primary
    <2>1. CASE ConnectClient \/ ConnectReturns
      <3>1. Self \in Clients
        BY <2>1, OrderType DEF ConnectClient, ConnectReturns
      <3>2. client' = [client EXCEPT ![Self] = SetState(client[Self], "CONNECTING")]
        BY <2>1 DEF ConnectClient, ConnectReturns
      <3>3. SetState(client[Self], "CONNECTING").primary = client[Self].primary
        BY <1>1, <3>1, ClientQueue, SetStatePrimary DEF ClientStates
      <3> QED
        BY <1>1, <3>1, <3>2, <3>3 DEF ClientTypeOK
    <2>2. ASSUME activeClient # NoClient, NEW p \in Publishables,
                 NEW isBirth \in BOOLEAN, NEW accepted \in BOOLEAN,
                 Publish(p, isBirth, accepted)
          PROVE  client'[d].primary = client[d].primary
      <3> DEFINE requests == <<NewRequest(p, isBirth)>>
      <3>1. /\ activeClient \in Clients
            /\ client'[activeClient] = Requested(activeClient, client[activeClient],
                                                 requests, accepted)
            /\ \A e \in Clients : e # activeClient => client'[e] = client[e]
        BY <2>2, PublishFields
      <3>2. requests \in Seq(Requests)
        BY OneRequest
      <3> HIDE DEF requests
      <3>3. Requested(activeClient, client[activeClient], requests, accepted).primary
               = client[activeClient].primary
        BY <1>1, <3>1, <3>2, ClientQueue, RequestedPrimary
      <3> QED
        BY <3>1, <3>3
    <2>3. CASE \E accepted \in BOOLEAN : PublishNext(accepted)
      <3>1. PICK accepted \in BOOLEAN : PublishNext(accepted)
        BY <2>3
      <3>2. PublishOrder[turn] \in Publishables /\ activeClient # NoClient
        BY <3>1, OrderType DEF PublishNext, NodeTypeOK
      <3> QED
        BY <2>2, <3>1, <3>2 DEF PublishNext
    <2>4. CASE \E p \in Publishables, isBirth, accepted \in BOOLEAN :
                  RequestPublish(p, isBirth, accepted)
      BY <2>2, <2>4 DEF RequestPublish
    <2>5. CASE SkipClient \/ EventsProcessed \/ UNCHANGED vars
      BY <2>5 DEF SkipClient, EventsProcessed, vars, clientVars
    <2> QED
      BY <2>1, <2>3, <2>4, <2>5
  <1> QED
    BY <1>1, <1>3, <1>4, SameEventsSingle

LEMMA NextSingleInv ==
    NodeTypeOK /\ ActiveInv /\ SingleInv /\ [Next]_vars => SingleInv'
  <1> SUFFICES ASSUME NodeTypeOK, ActiveInv, SingleInv, [Next]_vars,
                      hostMode' = "SINGLE", Running'
               PROVE  NoHostEvents' /\ \A c \in Clients : SingleClient(c)'
    BY DEF SingleInv
  <1>1. ~Stop /\ Running /\ hostMode = "SINGLE"
    BY DEF Next, Execute, Application, Callback, Lose, Command, HostMessage,
           ConnectClient, ConnectReturns, SkipClient, NextClient, Pop,
           ProcessConnected, ProcessDisconnected, ProcessResolved, ProcessOnline,
           ProcessOffline, ProcessActive, ProcessRebirth, EventsProcessed,
           PublishNext, RequestPublish, Idle, Stop, Stopped, Running,
           vars, clientVars, nodeVars
  <1>2. NoHostEvents /\ \A c \in Clients : SingleClient(c)
    BY <1>1 DEF SingleInv
  <1>3. CASE Execute
    BY <1>1, <1>2, <1>3, ProcessSingle, OtherSingle DEF Execute
  <1>4. CASE Application
    BY <1>1, <1>2, <1>4, OtherSingle DEF Application, Stopped
  <1>5. ASSUME NEW c \in Clients,
               \/ Callback(c) \/ Lose(c) \/ Command(c)
               \/ \E online \in BOOLEAN : HostMessage(c, online)
        PROVE  NoHostEvents' /\ \A d \in Clients : SingleClient(d)'
    BY <1>1, <1>2, <1>5, LibrarySingle
  <1>6. CASE UNCHANGED vars
    BY <1>2, <1>6, OtherSingle
  <1> QED
    BY <1>3, <1>4, <1>5, <1>6 DEF Next

LEMMA InitSingleInv == Init => SingleInv
  <1> SUFFICES ASSUME Init PROVE SingleInv
    OBVIOUS
  <1>1. /\ Len(eventQueue) = 0 /\ activeClient = NoClient
        /\ \A c \in Clients : subscribing[c] = 0
    BY DEF Init, ClientInit
  <1>2. Positions = {}
    BY <1>1 DEF Positions
  <1> QED
    BY <1>1, <1>2 DEF SingleInv, NoHostEvents, SingleClient, Subscriber, ActiveOnce,
       OneActive, NewConnection, LastConnection

\* In SINGLE mode the active client is the one that may publish, or its
\* CLIENT_DISCONNECTED event is queued, for any number of clients: a client that
\* was replaced does not come back as active by an event of an earlier
\* connection, so the node never keeps to a client whose queue nobody serves.
THEOREM SingleModeActiveClientIsPrimary == Spec => []SingleModeActiveIsPrimary
  <1>1. Init => NodeTypeOK /\ ActiveInv /\ SingleInv
    BY InitType, InitActiveInv, InitSingleInv
  <1>2. NodeTypeOK /\ ActiveInv /\ SingleInv /\ [Next]_vars
          => (NodeTypeOK /\ ActiveInv /\ SingleInv)'
    BY NextType, NextActiveInv, NextSingleInv
  <1>3. SingleInv => SingleModeActiveIsPrimary
    BY DEF SingleInv, SingleClient, ActiveOnce, SingleModeActiveIsPrimary,
           ActiveIsPrimary
  <1> QED
    BY <1>1, <1>2, <1>3, PTL DEF Spec

=============================================================================
