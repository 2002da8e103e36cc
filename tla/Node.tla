------------------------------- MODULE Node -------------------------------
(***************************************************************************)
(* A Sparkplug Node and its clients (src/src/Node.cpp): the thread that    *)
(* calls execute() connects every client, processes the queued events,     *)
(* chooses the active client and hands it the publish requests of the node *)
(* and its devices, while the library's threads run the clients' callbacks *)
(* (PahoClient.tla) between any two of its steps.                          *)
(*                                                                         *)
(* Of a Publishable only "a publish is outstanding" is kept: Publishable   *)
(* has its timer and its metrics, and when they let it publish is left     *)
(* open here.                                                              *)
(***************************************************************************)
EXTENDS PahoClient

CONSTANTS ClientOrder,    \* Node::clients
          PublishOrder,   \* the node, then Node::devices
          Modes,          \* the client modes considered
          NoClient,       \* activeClient is NULL
          MaxDisruptions  \* bound: lost links, messages and births asked for

ASSUME NodeAssumption ==
    /\ ClientOrder \in Seq(Clients) /\ ClientOrder # <<>>
    /\ PublishOrder \in Seq(Publishables) /\ PublishOrder # <<>>
    /\ PublishOrder[1] = NodeSelf
    /\ Modes \subseteq {"SINGLE", "PRIMARY_HOST"}
    /\ NoClient \notin Clients
    /\ MaxDisruptions \in Nat

\* No publishable is left out: requestPublish ignores what is not the node and
\* not one of its devices.
ASSUME PublishOrderAssumption ==
    \A p \in Publishables : \E i \in 1..Len(PublishOrder) : PublishOrder[i] = p

VARIABLES hostMode,      \* Node::hostMode, set by configureTopics
          activeClient,  \* Node::activeClient
          publishing,    \* the publishables in state PUBLISHING
          pc,            \* where the thread that calls execute() is
          turn,          \* its index in ClientOrder or in PublishOrder
          hostOnline,    \* history: client -> the last STATE message received
          disruptions    \* how many disruptions there have been

nodeVars == <<hostMode, activeClient, publishing, pc, turn, hostOnline,
              disruptions>>
vars == <<clientVars, nodeVars>>

NodeTypeOK ==
    /\ ClientTypeOK
    /\ hostMode \in Modes
    /\ activeClient \in Clients \cup {NoClient}
    /\ publishing \subseteq Publishables
    /\ pc \in {"execute", "connecting", "events", "publish", "stopped"}
    /\ turn \in Nat \ {0}
    /\ pc \in {"execute", "connecting"} => turn <= Len(ClientOrder)
    /\ pc = "publish" => turn <= Len(PublishOrder) /\ activeClient # NoClient
    /\ hostOnline \in [Clients -> BOOLEAN]
    /\ disruptions \in 0..MaxDisruptions

Init ==
    /\ ClientInit
    /\ hostMode \in Modes
    /\ activeClient = NoClient
    /\ publishing = {}
    /\ pc = "execute" /\ turn = 1
    /\ hostOnline = [c \in Clients |-> FALSE]
    /\ disruptions = 0

Disrupt == disruptions < MaxDisruptions /\ disruptions' = disruptions + 1

----------------------------------------------------------------------------
\* The clients, in Node::sync: SparkplugClient::execute of each in turn. The
\* library's sync() does nothing for an asynchronous client.
Self == ClientOrder[turn]

NextClient ==
    IF turn < Len(ClientOrder)
      THEN pc' = "execute" /\ turn' = turn + 1
      ELSE pc' = "events" /\ turn' = 1

\* SparkplugClient::connect up to the return of MQTTAsync_connect, which
\* accepts the attempt or refuses it with a positive code.
ConnectClient ==
    /\ pc = "execute" /\ client[Self].state = "DISCONNECTED"
    /\ client' = [client EXCEPT ![Self] = SetState(@, "CONNECTING")]
    /\ \/ link[Self] = "down" /\ link' = [link EXCEPT ![Self] = "connecting"]
       \/ UNCHANGED link
    /\ pc' = "connecting"
    /\ UNCHANGED <<subscribing, eventQueue, hostMode, activeClient, publishing,
                   turn, hostOnline, disruptions>>

\* The rest of SparkplugClient::connect, after callbacks may already have run.
\* A refusal is EXIT_FAILURE, which is not negative: it is not told apart.
ConnectReturns ==
    /\ pc = "connecting"
    /\ client' = [client EXCEPT ![Self] = SetState(@, "CONNECTING")]
    /\ NextClient
    /\ UNCHANGED <<link, subscribing, eventQueue, hostMode, activeClient,
                   publishing, hostOnline, disruptions>>

SkipClient ==
    /\ pc = "execute" /\ client[Self].state # "DISCONNECTED"
    /\ NextClient
    /\ UNCHANGED <<clientVars, hostMode, activeClient, publishing, hostOnline,
                   disruptions>>

----------------------------------------------------------------------------
\* Node::processEvents, one event at a time.
Pop(c, type) ==
    /\ pc = "events" /\ eventQueue # <<>>
    /\ Head(eventQueue).client = c /\ Head(eventQueue).type = type
    /\ eventQueue' = Tail(eventQueue)
    /\ UNCHANGED <<link, hostMode, pc, turn, hostOnline, disruptions>>

\* Node::activateClient, SparkplugClient::activate: the library takes the
\* subscription if the client is connected, and may refuse it; the refusal is
\* EXIT_FAILURE, which is not negative.
ActivateClient(c) ==
    IF client[c].primary THEN UNCHANGED <<client, subscribing>>
    ELSE /\ client' = [client EXCEPT ![c] = [@ EXCEPT !.primary = TRUE]]
         /\ \/ IsConnected(c) /\ subscribing' = [subscribing EXCEPT ![c] = @ + 1]
            \/ UNCHANGED subscribing

\* Mutant of BirthRequests: the devices' births come before the node's.
DevicesFirst ==
    [i \in 1..Len(PublishOrder) |->
        NewRequest(PublishOrder[Len(PublishOrder) + 1 - i], TRUE)]

\* Node::publishBirth: the node first, then the devices.
BirthRequests ==
    [i \in 1..Len(PublishOrder) |-> NewRequest(PublishOrder[i], TRUE)]

\* Node::setActiveClient of a client: another active client is deactivated and
\* the births are requested, also when c was active already.
SetActiveClient(c, accepted) ==
    /\ client' = [d \in Clients |->
         IF d = c THEN Requested(c, client[c], BirthRequests, accepted)
         ELSE IF d = activeClient THEN Deactivate(client[d]) ELSE client[d]]
    /\ activeClient' = c
    /\ publishing' = publishing \cup {PublishOrder[i] : i \in 1..Len(PublishOrder)}

\* Mutant of DeactivateClient: the client is deactivated but stays active.
DeactivateKeepsActive(c) ==
    /\ client' = IF activeClient = c
                   THEN [client EXCEPT ![c] = Deactivate(@)] ELSE client
    /\ UNCHANGED activeClient

\* Mutant of DeactivateClient: the active client goes, whichever client lost
\* its connection.
DeactivateAnyClient(c) ==
    IF activeClient = NoClient THEN UNCHANGED <<client, activeClient>>
    ELSE /\ client' = [client EXCEPT ![activeClient] = Deactivate(@)]
         /\ activeClient' = NoClient

\* Node::deactivateClient, with setActiveClient(NULL): nothing unless c is the
\* active client.
DeactivateClient(c) ==
    IF activeClient # c THEN UNCHANGED <<client, activeClient>>
    ELSE /\ client' = [client EXCEPT ![c] = Deactivate(@)]
         /\ activeClient' = NoClient

\* CLIENT_CONNECTED: activates the client in SINGLE mode.
ProcessConnected(c) ==
    /\ Pop(c, "CONNECTED")
    /\ IF hostMode = "SINGLE" THEN ActivateClient(c)
       ELSE UNCHANGED <<client, subscribing>>
    /\ UNCHANGED <<activeClient, publishing>>

\* CLIENT_DISCONNECTED.
ProcessDisconnected(c) ==
    /\ Pop(c, "DISCONNECTED")
    /\ DeactivateClient(c)
    /\ UNCHANGED <<subscribing, publishing>>

\* CLIENT_ACTIVE.
ProcessActive(c, accepted) ==
    /\ Pop(c, "ACTIVE")
    /\ SetActiveClient(c, accepted)
    /\ UNCHANGED subscribing

\* CLIENT_DELIVERED and CLIENT_UNDELIVERED: Publishable::published.
ProcessResolved(c) ==
    /\ Pop(c, "DELIVERED") \/ Pop(c, "UNDELIVERED")
    /\ publishing' = publishing \ {Head(eventQueue).publisher}
    /\ UNCHANGED <<client, subscribing, activeClient>>

\* CLIENT_MESSAGE on the STATE topic, Node::onMessage: the host is online.
ProcessOnline(c) ==
    /\ Pop(c, "ONLINE")
    /\ IF activeClient # c THEN ActivateClient(c)
       ELSE UNCHANGED <<client, subscribing>>
    /\ UNCHANGED <<activeClient, publishing>>

\* CLIENT_MESSAGE on the STATE topic: the host is offline.
ProcessOffline(c) ==
    /\ Pop(c, "OFFLINE")
    /\ DeactivateClient(c)
    /\ UNCHANGED <<subscribing, publishing>>

\* CLIENT_MESSAGE on the node's command topic with Node Control/Rebirth: the
\* metric's callback calls publishBirth.
ProcessRebirth(c, accepted) ==
    /\ Pop(c, "REBIRTH")
    /\ IF activeClient = c THEN SetActiveClient(c, accepted)
       ELSE UNCHANGED <<client, activeClient, publishing>>
    /\ UNCHANGED subscribing

\* Node::isActive, once the event queue is empty: execute() goes on to publish
\* only with a connected active client.
EventsProcessed ==
    /\ pc = "events" /\ eventQueue = <<>>
    /\ pc' = IF activeClient # NoClient /\ IsConnected(activeClient)
               THEN "publish" ELSE "execute"
    /\ turn' = 1
    /\ UNCHANGED <<clientVars, hostMode, activeClient, publishing, hostOnline,
                   disruptions>>

----------------------------------------------------------------------------
\* Node::publish of one publishable, handed to the active client.
Publish(p, isBirth, accepted) ==
    /\ client' = [client EXCEPT ![activeClient] =
           Requested(activeClient, @, <<NewRequest(p, isBirth)>>, accepted)]
    /\ publishing' = publishing \cup {p}

\* The next publishable in Node::execute: its timer and its metrics let it
\* publish or not, and an outstanding publish holds it back.
PublishNext(accepted) ==
    /\ pc = "publish"
    /\ \/ /\ PublishOrder[turn] \notin publishing
          /\ Publish(PublishOrder[turn], FALSE, accepted)
       \/ UNCHANGED <<client, publishing>>
    /\ IF turn < Len(PublishOrder)
         THEN turn' = turn + 1 /\ UNCHANGED pc
         ELSE turn' = 1 /\ pc' = "execute"
    /\ UNCHANGED <<link, subscribing, eventQueue, hostMode, activeClient,
                   hostOnline, disruptions>>

\* Between two calls of execute().
Idle == pc = "execute" /\ turn = 1

\* Node::requestPublish by the application; a DATA message is refused while
\* one is outstanding. The code has no check that there is an active client.
RequestPublish(p, isBirth, accepted) ==
    /\ Idle /\ activeClient # NoClient
    /\ isBirth \/ p \notin publishing
    /\ Disrupt
    /\ Publish(p, isBirth, accepted)
    /\ UNCHANGED <<link, subscribing, eventQueue, hostMode, activeClient, pc,
                   turn, hostOnline>>

\* Node::stop: each client is deactivated and disconnected, by the library
\* without a callback; activeClient stays. The application calls execute() no
\* more.
Stop ==
    /\ Idle
    /\ client' = [c \in Clients |->
         IF client[c].state = "DISCONNECTED" THEN Deactivate(client[c])
         ELSE SetState(Deactivate(client[c]), "DISCONNECTING")]
    /\ link' = [c \in Clients |-> IF link[c] = "up" THEN "down" ELSE link[c]]
    /\ subscribing' = [c \in Clients |-> 0]
    /\ pc' = "stopped"
    /\ UNCHANGED <<eventQueue, hostMode, activeClient, publishing, turn,
                   hostOnline, disruptions>>

Stopped == pc = "stopped" /\ UNCHANGED vars

----------------------------------------------------------------------------
\* The thread that calls execute().
Execute ==
    \/ ConnectClient \/ ConnectReturns \/ SkipClient
    \/ \E c \in Clients :
          \/ ProcessConnected(c) \/ ProcessDisconnected(c) \/ ProcessResolved(c)
          \/ ProcessOnline(c) \/ ProcessOffline(c)
          \/ \E accepted \in BOOLEAN :
                ProcessActive(c, accepted) \/ ProcessRebirth(c, accepted)
    \/ EventsProcessed
    \/ \E accepted \in BOOLEAN : PublishNext(accepted)

Application ==
    \/ \E p \in Publishables, isBirth, accepted \in BOOLEAN :
          RequestPublish(p, isBirth, accepted)
    \/ Stop \/ Stopped

\* The library's threads.
Connection(c) == OnConnect(c) \/ OnConnectFailure(c)
Subscription(c) == OnCommandSubscription(c) \/ OnCommandSubscribeFailure(c)
Delivery(c) == \E accepted \in BOOLEAN :
                  OnDelivery(c, accepted) \/ OnDeliveryFailure(c, accepted)

Callback(c) ==
    /\ Connection(c) \/ Subscription(c) \/ Delivery(c) \/ OnDisconnect(c)
    /\ UNCHANGED nodeVars

Lose(c) ==
    /\ LinkLost(c) /\ Disrupt
    /\ UNCHANGED <<hostMode, activeClient, publishing, pc, turn, hostOnline>>

\* A STATE message of the primary host arrives.
HostMessage(c, online) ==
    /\ hostMode = "PRIMARY_HOST"
    /\ OnMessage(c, IF online THEN "ONLINE" ELSE "OFFLINE") /\ Disrupt
    /\ hostOnline' = [hostOnline EXCEPT ![c] = online]
    /\ UNCHANGED <<hostMode, activeClient, publishing, pc, turn>>

\* A rebirth command arrives.
Command(c) ==
    /\ OnMessage(c, "REBIRTH") /\ Disrupt
    /\ UNCHANGED <<hostMode, activeClient, publishing, pc, turn, hostOnline>>

Next ==
    \/ Execute \/ Application
    \/ \E c \in Clients :
          \/ Callback(c) \/ Lose(c) \/ Command(c)
          \/ \E online \in BOOLEAN : HostMessage(c, online)

Spec == Init /\ [][Next]_vars

\* The application keeps calling execute(), and the library answers what it was
\* asked: connections, subscriptions, deliveries, and the report of a lost link.
FairSpec ==
    /\ Spec
    /\ WF_vars(Execute)
    /\ \A c \in Clients :
          /\ WF_vars(Connection(c) /\ UNCHANGED nodeVars)
          /\ WF_vars(Subscription(c) /\ UNCHANGED nodeVars)
          /\ WF_vars(Delivery(c) /\ UNCHANGED nodeVars)
          /\ WF_vars(OnDisconnect(c) /\ UNCHANGED nodeVars)

----------------------------------------------------------------------------
Running == pc # "stopped"

Queued(c, type) == \E i \in 1..Len(eventQueue) :
                      eventQueue[i].client = c /\ eventQueue[i].type = type

\* The active client has a link, or the event that will replace it is queued:
\* whatever stale CLIENT_ACTIVE and CLIENT_MESSAGE events are processed after a
\* connection is lost, the node does not keep publishing into a dead client.
ActiveIsAlive ==
    \A c \in Clients :
        Running /\ activeClient = c
            => link[c] \in {"up", "lost"} \/ Queued(c, "DISCONNECTED")

\* Why: a CLIENT_ACTIVE event that outlived its connection has that
\* connection's CLIENT_DISCONNECTED event behind it.
ActiveEventIsAlive ==
    \A i \in 1..Len(eventQueue) :
        Running /\ eventQueue[i].type = "ACTIVE"
            => LET c == eventQueue[i].client IN
               \/ link[c] \in {"up", "lost"}
               \/ \E j \in i + 1 .. Len(eventQueue) :
                     eventQueue[j].client = c /\ eventQueue[j].type = "DISCONNECTED"

\* Node.h:186: a client asked to deactivate "will be removed as the active
\* client". The active client is the one that may publish (primary), or its
\* CLIENT_DISCONNECTED event is queued: a client that was deactivated does not
\* come back as active unless it is activated again.
ActiveIsPrimary ==
    \A c \in Clients :
        Running /\ activeClient = c
            => client[c].primary \/ Queued(c, "DISCONNECTED")

\* It is so in SINGLE mode, where only a connection activates a client.
SingleModeActiveIsPrimary == hostMode = "SINGLE" => ActiveIsPrimary

\* A publishable held back by an outstanding publish has a request in some
\* client's queue or the event that resolves it: no request is forgotten, by
\* dumped queues, retries given up or changes of the active client.
PublishingIsOutstanding ==
    \A p \in publishing :
        \/ \E c \in Clients : \E i \in 1..Len(client[c].queue) :
              client[c].queue[i].publisher = p
        \/ \E i \in 1..Len(eventQueue) :
              /\ eventQueue[i].type \in {"DELIVERED", "UNDELIVERED"}
              /\ eventQueue[i].publisher = p

\* Node::publishBirth: what is in flight on a link is a birth, or follows the
\* birth of its publishable on that link, and nothing precedes the NBIRTH.
BirthFirst ==
    \A c \in Clients :
        IsConnected(c) /\ FrontIsSent(c)
            => /\ NodeSelf \in client[c].born
               /\ Head(client[c].queue).publisher \in client[c].born

\* The node notices that its active client is gone.
LostActiveIsReplaced ==
    \A c \in Clients :
        activeClient = c /\ link[c] \in {"lost", "down"}
            ~> activeClient # c \/ ~Running

\* SparkplugClient.h:330, of activate(): "This will request the client to
\* subscribe to the command topics and the client will be active when the
\* subscriptions are successful". activate() asks for nothing of a client that
\* is primary: then it has asked on this connection, or is active.
ActivatedHasSubscribed ==
    [][\A c \in Clients :
          ProcessConnected(c) /\ hostMode = "SINGLE"
             /\ IsConnected(c) /\ client[c].primary
            => subscribing[c] > 0 \/ Queued(c, "ACTIVE") \/ activeClient = c]_vars

\* SparkplugClient.h:377: execute() "Assures the SparkplugClient is connected
\* and synced to the broker": a client that waits for a connection has one
\* under way.
ConnectingIsUnderWay ==
    \A c \in Clients :
        client[c].state = "CONNECTING"
            => link[c] # "down" \/ (pc = "connecting" /\ Self = c)

\* Node.h:201: "If the Node is configured for a Primary Host then the Active
\* client will change to match the Primary Host."
ActiveMatchesHost ==
    \A c \in Clients :
        hostMode = "PRIMARY_HOST" /\ activeClient = c /\ eventQueue = <<>>
            => hostOnline[c]

\* The node keeps the promises of ActiveClient: it chooses only a client that
\* reported CLIENT_ACTIVE, lets it go when it hears its CLIENT_DISCONNECTED and
\* no other client's, and makes requests of the active client only.
AC == INSTANCE ActiveClient WITH
          active <- activeClient,
          linked <- {c \in Clients : link[c] \in {"up", "lost"}},
          offered <- {c \in Clients : Queued(c, "ACTIVE")},
          lost <- {c \in Clients : Queued(c, "DISCONNECTED")},
          load <- [c \in Clients |-> Len(client[c].queue)],
          stopped <- ~Running
ImplementsActiveClient == AC!ACSpec

=============================================================================
