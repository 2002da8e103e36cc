---------------------------- MODULE PahoClient ----------------------------
(***************************************************************************)
(* The clients of a Node, as the Node drives them and as they call back:   *)
(* SparkplugClient's state and primary flag, PahoClient's queue of         *)
(* PublishRequests and the callbacks of PahoAsyncClient                    *)
(* (src/src/clients/SparkplugClient.cpp, PahoClient.cpp,                   *)
(* PahoAsyncClient.cpp), with the part of the Paho library they rely on:   *)
(* one link per client, whose callbacks come from the library's threads.   *)
(*                                                                         *)
(* A client's methods are functions of its record: one handler of the Node *)
(* calls several of them. Each callback is one action.                     *)
(***************************************************************************)
EXTENDS Integers, Sequences

CONSTANTS Clients,         \* the clients added to the node
          Publishables,    \* the node and its devices
          NodeSelf,        \* the publishable that is the node
          NoPublisher,     \* the data of an event that has none
          PUBLISH_RETRIES  \* resends of a request before it is given up

ASSUME PahoClientAssumption ==
    /\ NodeSelf \in Publishables
    /\ NoPublisher \notin Publishables
    /\ PUBLISH_RETRIES \in Nat

VARIABLES client,       \* client -> state, primary, queue and (history) the
                        \* publishables whose birth was sent on this link
          link,         \* client -> the library's connection
          subscribing,  \* client -> command subscriptions not acknowledged yet
          eventQueue    \* Node::eventQueue

clientVars == <<client, link, subscribing, eventQueue>>

ClientStates == {"DISCONNECTED", "CONNECTING", "CONNECTED",
                 "PUBLISHING_PAYLOAD", "DISCONNECTING"}

\* "lost" is a link the library knows to be gone and has not yet reported.
Links == {"down", "connecting", "up", "lost"}

\* PublishRequest: sent stands for the token of a message the library has
\* accepted and will report on.
Requests == [publisher : Publishables, isBirth : BOOLEAN,
             retryCount : 0..PUBLISH_RETRIES, sent : BOOLEAN]

ClientRecords == [state : ClientStates, primary : BOOLEAN,
                  queue : Seq(Requests), born : SUBSET Publishables]

\* CLIENT_MESSAGE is split by what the message says.
EventTypes == {"CONNECTED", "DISCONNECTED", "ACTIVE", "DELIVERED",
               "UNDELIVERED", "ONLINE", "OFFLINE", "REBIRTH"}
Events == [client : Clients, type : EventTypes,
           publisher : Publishables \cup {NoPublisher}]

ClientTypeOK ==
    /\ client \in [Clients -> ClientRecords]
    /\ link \in [Clients -> Links]
    /\ subscribing \in [Clients -> Nat]
    /\ eventQueue \in Seq(Events)

ClientInit ==
    /\ client = [c \in Clients |-> [state |-> "DISCONNECTED", primary |-> FALSE,
                                    queue |-> <<>>, born |-> {}]]
    /\ link = [c \in Clients |-> "down"]
    /\ subscribing = [c \in Clients |-> 0]
    /\ eventQueue = <<>>

----------------------------------------------------------------------------
Event(c, type) == [client |-> c, type |-> type, publisher |-> NoPublisher]

\* SparkplugClient::delivered and undelivered.
Resolution(c, type, request) ==
    [client |-> c, type |-> type, publisher |-> request.publisher]

IsConnected(c) == link[c] = "up"

\* SparkplugClient::setState: only a change of state to DISCONNECTED clears
\* the primary flag.
SetState(s, newState) ==
    IF s.state = newState THEN s
    ELSE [s EXCEPT !.state = newState,
                   !.primary = @ /\ newState # "DISCONNECTED"]

\* SparkplugClient::deactivate. The library's refusal to unsubscribe is
\* reported as EXIT_FAILURE, which is not negative: the flag is cleared.
Deactivate(s) == [s EXCEPT !.primary = FALSE]

\* SparkplugClient::processRequest of the front request: the library accepts
\* the message or refuses it, and the request stays at the front.
ProcessFront(s, accepted) ==
    IF s.state = "DISCONNECTED" THEN s
    ELSE LET front == [Head(s.queue) EXCEPT !.sent = accepted] IN
         [s EXCEPT !.state = "PUBLISHING_PAYLOAD",
                   !.queue = <<front>> \o Tail(@),
                   !.born  = IF accepted /\ front.isBirth
                               THEN @ \cup {front.publisher} ELSE @]

\* PahoClient::publishFromQueue.
PublishFromQueue(c, s, accepted) ==
    IF ~IsConnected(c) THEN s
    ELSE IF s.primary /\ s.queue # <<>> THEN ProcessFront(s, accepted)
    ELSE IF s.state = "PUBLISHING_PAYLOAD"
      THEN SetState(s, "CONNECTED") ELSE s

\* PahoClient::request, called for each of the requests: only the one that
\* finds the queue empty starts the publishing.
Requested(c, s, requests, accepted) ==
    LET queued == [s EXCEPT !.queue = @ \o requests] IN
    IF s.queue = <<>> /\ IsConnected(c)
      THEN PublishFromQueue(c, queued, accepted) ELSE queued

NewRequest(p, isBirth) ==
    [publisher |-> p, isBirth |-> isBirth, retryCount |-> 0, sent |-> FALSE]

----------------------------------------------------------------------------
\* The callbacks.

\* PahoAsyncClient::onConnect, SparkplugClient::connected.
OnConnect(c) ==
    /\ link[c] = "connecting"
    /\ link' = [link EXCEPT ![c] = "up"]
    /\ client' = [client EXCEPT ![c] = SetState([@ EXCEPT !.born = {}],
                                                "CONNECTED")]
    /\ eventQueue' = Append(eventQueue, Event(c, "CONNECTED"))
    /\ UNCHANGED subscribing

\* PahoAsyncClient::onConnectFailure: no event.
OnConnectFailure(c) ==
    /\ link[c] = "connecting"
    /\ link' = [link EXCEPT ![c] = "down"]
    /\ client' = [client EXCEPT ![c] = SetState(@, "DISCONNECTED")]
    /\ UNCHANGED <<subscribing, eventQueue>>

\* The library finds the link broken: no subscription of a clean session
\* outlives it (onCommandSubscribeFailure does nothing).
LinkLost(c) ==
    /\ link[c] = "up"
    /\ link' = [link EXCEPT ![c] = "lost"]
    /\ subscribing' = [subscribing EXCEPT ![c] = 0]
    /\ UNCHANGED <<client, eventQueue>>

\* Mutant of OnDisconnect: the queue is dumped without telling the node.
OnDisconnectSilently(c) ==
    /\ link[c] = "lost"
    /\ link' = [link EXCEPT ![c] = "down"]
    /\ client' = [client EXCEPT ![c] = SetState([@ EXCEPT !.queue = <<>>],
                                                "DISCONNECTED")]
    /\ eventQueue' = Append(eventQueue, Event(c, "DISCONNECTED"))
    /\ UNCHANGED subscribing

\* Mutant of OnDisconnect: the node only hears of the dumped requests.
OnDisconnectUnreported(c) ==
    /\ link[c] = "lost"
    /\ link' = [link EXCEPT ![c] = "down"]
    /\ client' = [client EXCEPT ![c] = SetState([@ EXCEPT !.queue = <<>>],
                                                "DISCONNECTED")]
    /\ eventQueue' = eventQueue
         \o [i \in 1..Len(client[c].queue) |->
               Resolution(c, "UNDELIVERED", client[c].queue[i])]
    /\ UNCHANGED subscribing

\* PahoClient::onDisconnect, with dumpQueue and SparkplugClient::disconnected.
OnDisconnect(c) ==
    /\ link[c] = "lost"
    /\ link' = [link EXCEPT ![c] = "down"]
    /\ client' = [client EXCEPT ![c] = SetState([@ EXCEPT !.queue = <<>>],
                                                "DISCONNECTED")]
    /\ eventQueue' = Append(eventQueue
         \o [i \in 1..Len(client[c].queue) |->
               Resolution(c, "UNDELIVERED", client[c].queue[i])],
         Event(c, "DISCONNECTED"))
    /\ UNCHANGED subscribing

\* PahoAsyncClient::onCommandSubscription, SparkplugClient::activated.
OnCommandSubscription(c) ==
    /\ link[c] = "up" /\ subscribing[c] > 0
    /\ subscribing' = [subscribing EXCEPT ![c] = @ - 1]
    /\ eventQueue' = IF client[c].primary
                       THEN Append(eventQueue, Event(c, "ACTIVE"))
                       ELSE eventQueue
    /\ UNCHANGED <<client, link>>

\* The broker refuses a command subscription: onCommandSubscribeFailure does
\* nothing.
OnCommandSubscribeFailure(c) ==
    /\ link[c] = "up" /\ subscribing[c] > 0
    /\ subscribing' = [subscribing EXCEPT ![c] = @ - 1]
    /\ UNCHANGED <<client, link, eventQueue>>

FrontIsSent(c) == client[c].queue # <<>> /\ Head(client[c].queue).sent

\* The front request is popped and resolved, then the next one is published.
PopFront(c, type, accepted) ==
    LET popped == [client[c] EXCEPT !.queue = Tail(@)] IN
    /\ client' = [client EXCEPT ![c] = PublishFromQueue(c, popped, accepted)]
    /\ eventQueue' = Append(eventQueue,
                            Resolution(c, type, Head(client[c].queue)))
    /\ UNCHANGED <<link, subscribing>>

\* PahoAsyncClient::onDelivery of the front request's token.
OnDelivery(c, accepted) ==
    /\ link[c] = "up" /\ FrontIsSent(c)
    /\ PopFront(c, "DELIVERED", accepted)

\* The front request goes out again.
Resent(s, accepted) ==
    LET again == [Head(s.queue) EXCEPT !.retryCount = @ + 1] IN
    ProcessFront([s EXCEPT !.queue = <<again>> \o Tail(@)], accepted)

\* Mutant of OnDeliveryFailure: one resend too many.
OnDeliveryFailureOnceMore(c, accepted) ==
    /\ link[c] \in {"up", "lost"} /\ FrontIsSent(c)
    /\ IF Head(client[c].queue).retryCount > PUBLISH_RETRIES \/ ~IsConnected(c)
         THEN PopFront(c, "UNDELIVERED", accepted)
         ELSE /\ client' = [client EXCEPT ![c] = Resent(client[c], accepted)]
              /\ UNCHANGED <<link, subscribing, eventQueue>>

\* PahoClient::onDeliveryFailure of the front request's token: the request is
\* sent again, or given up.
OnDeliveryFailure(c, accepted) ==
    /\ link[c] \in {"up", "lost"} /\ FrontIsSent(c)
    /\ IF Head(client[c].queue).retryCount >= PUBLISH_RETRIES \/ ~IsConnected(c)
         THEN PopFront(c, "UNDELIVERED", accepted)
         ELSE /\ client' = [client EXCEPT ![c] = Resent(client[c], accepted)]
              /\ UNCHANGED <<link, subscribing, eventQueue>>

\* PahoAsyncClient::onMessage, SparkplugClient::messageReceived.
OnMessage(c, type) ==
    /\ link[c] = "up"
    /\ eventQueue' = Append(eventQueue, Event(c, type))
    /\ UNCHANGED <<client, link, subscribing>>

=============================================================================
