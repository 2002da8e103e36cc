------------------------------ MODULE Commands ------------------------------
(***************************************************************************)
(* The Node as the owner of its devices and the target of commands         *)
(* (src/src/Node.cpp, Device.cpp, Publishable.cpp, Metric.cpp): enabling,  *)
(* adding devices, the path of a command from its topic to the metric that *)
(* has its name, and rebirths. Composes with Metrics: a rebirth and what   *)
(* the application sets in answer to a command are reported by it.         *)
(***************************************************************************)
EXTENDS Metrics

CONSTANTS NodeSelf,    \* the node among the Publishables
          Rebirth,     \* its metric "Node Control/Rebirth"
          Added,       \* metric -> when addMetric was called for it
          MetricName,  \* metric -> its name
          Names,       \* names of devices
          NcmdNames,   \* those that contain "NCMD"
          Clients,     \* the clients of the node, in the order added
          NoClient,
          Commands,    \* what a command message can hold: a sequence of names
                       \* and values of metrics
          Settable,    \* the items that the application sets
          MaxActivations  \* bound: how often a client becomes active

ClientSet == {Clients[i] : i \in DOMAIN Clients}
Devices == Publishables \ {NodeSelf}

ASSUME CommandsAssumption ==
    /\ NodeSelf \in Publishables
    /\ Rebirth \in Metrics /\ Owner[Rebirth] = NodeSelf
    /\ Added \in [Metrics -> Nat]
    /\ \A m, n \in Metrics : Added[m] = Added[n] => m = n
    /\ DOMAIN MetricName = Metrics
    /\ NcmdNames \subseteq Names /\ Settable \subseteq Items
    /\ DOMAIN Clients = 1..Len(Clients) /\ NoClient \notin ClientSet
    /\ MaxActivations \in Nat
    /\ \A commands \in Commands :
          /\ Len(commands) \in Nat /\ DOMAIN commands = 1..Len(commands)
          /\ \A i \in DOMAIN commands : DOMAIN commands[i] = {"name", "value"}

VARIABLES enabled,     \* Node::enabled
          configured,  \* the clients that configure() succeeded for
          name,        \* device -> its name
          nodeNcmd,    \* does the group id or the node id contain "NCMD"?
          devices,     \* Node::devices, the one added last first
          handler, callback,  \* Metric::handler and callback: who has one
          readOnly,    \* Metric::isReadOnly: the metrics it is true of
          writable,    \* metric -> how many "writable" properties it has
          active,      \* Node::activeClient
          inbox,       \* CLIENT_MESSAGE events in Node::eventQueue
          queue,       \* the requests of the active client
          publishing,  \* the publishables that are PUBLISHING
          activations, \* how often a client has become active
          ran          \* history: whose handler or callback the last message
                       \* called, with what value

nodeVars == <<enabled, configured, name, nodeNcmd, devices>>
commandVars == <<handler, callback, readOnly, writable, inbox, ran>>
clientVars == <<active, queue, publishing, activations>>
vars == <<metricVars, nodeVars, commandVars, clientVars>>

CommandsTypeOK ==
    /\ MetricsTypeOK
    /\ enabled \in BOOLEAN /\ configured \subseteq ClientSet
    /\ name \in [Devices -> Names] /\ nodeNcmd \in BOOLEAN
    /\ \A i \in DOMAIN devices : devices[i] \in Devices
    /\ handler \subseteq Metrics /\ callback \subseteq Metrics
    /\ readOnly \subseteq Metrics /\ writable \in [Metrics -> 0..1]
    /\ active \in ClientSet \cup {NoClient}
    /\ \A i \in DOMAIN queue : queue[i].publishable \in Publishables
    /\ publishing \subseteq Publishables /\ activations \in 0..MaxActivations
    /\ \A i \in DOMAIN ran : ran[i].metric \in Metrics

\* Node::Node: only its rebirth metric has a callback.
CommandsInit ==
    /\ enabled = FALSE /\ configured = {}
    /\ name \in [Devices -> Names] /\ nodeNcmd \in BOOLEAN
    /\ devices = <<>>
    /\ handler = {} /\ callback = {Rebirth}
    /\ readOnly = Metrics \ {Rebirth}
    /\ writable = [m \in Metrics |-> IF m = Rebirth THEN 1 ELSE 0]
    /\ active = NoClient
    /\ inbox = <<>> /\ ran = <<>>
    /\ queue = <<>> /\ publishing = {} /\ activations = 0

Init == MetricsInit /\ CommandsInit

Listed(p) == \E i \in DOMAIN devices : devices[i] = p
Reported == {NodeSelf} \cup {p \in Devices : Listed(p)}

----------------------------------------------------------------------------
\* Setting up.

\* Node::enable: configures the clients one by one, until one fails. To enable a
\* node again changes nothing here.
Enable ==
    /\ ~enabled
    /\ \E n \in 0..Len(Clients) :
          /\ configured' = configured \cup {Clients[i] : i \in 1..n}
          /\ enabled' = (n = Len(Clients) /\ n > 0)
    /\ UNCHANGED <<metricVars, name, nodeNcmd, devices, commandVars, clientVars>>

\* Node::addDevice, before or after the node is enabled.
AddDevice(d) ==
    /\ ~Listed(d)
    /\ devices' = <<d>> \o devices
    /\ UNCHANGED <<metricVars, enabled, configured, name, nodeNcmd, commandVars,
                   clientVars>>

\* A property "writable" is added to m.
AddWritable(m) == writable' = [writable EXCEPT ![m] = @ + 1]

\* Mutant of MadeWritable: isReadOnly is left as it is.
MadeWritableAgain(m) ==
    IF m \in readOnly THEN AddWritable(m) /\ UNCHANGED readOnly
    ELSE UNCHANGED <<readOnly, writable>>

\* A metric that is read-only is made writable.
MadeWritable(m) ==
    IF m \in readOnly THEN AddWritable(m) /\ readOnly' = readOnly \ {m}
    ELSE UNCHANGED <<readOnly, writable>>

\* Metric::setCommandHandler and setCommandCallback.
SetCommandHandler(m) ==
    /\ Step /\ MadeWritable(m)
    /\ handler' = handler \cup {m}
    /\ UNCHANGED <<itemVars, messageVars, pastVars, nodeVars, callback, inbox,
                   ran, clientVars>>

SetCommandCallback(m) ==
    /\ Step /\ MadeWritable(m)
    /\ callback' = callback \cup {m}
    /\ UNCHANGED <<itemVars, messageVars, pastVars, nodeVars, handler, inbox,
                   ran, clientVars>>

----------------------------------------------------------------------------
\* The active client.

Request(p, isBirth) == [publishable |-> p, isBirth |-> isBirth]

\* Node::publishBirth: the node, then its devices.
Births == <<Request(NodeSelf, TRUE)>> \o
          [i \in DOMAIN devices |-> Request(devices[i], TRUE)]

\* n calls of it.
PublishBirth(n) ==
    /\ queue' = queue \o [i \in 1..(n * Len(Births)) |->
                            Births[1 + ((i - 1) % Len(Births))]]
    /\ publishing' = IF n = 0 THEN publishing ELSE publishing \cup Reported

\* Node::setActiveClient with a client that became active. Only one turn of a
\* client is followed at a time: what a former active client leaves in its
\* queue, and a second CLIENT_ACTIVE, are in Node.
SetActiveClient(c) ==
    /\ activations < MaxActivations /\ activations' = activations + 1
    /\ enabled /\ active = NoClient /\ queue = <<>>
    /\ active' = c /\ PublishBirth(1)
    /\ UNCHANGED <<metricVars, nodeVars, commandVars>>

\* Node::deactivateClient of the active client.
DeactivateClient ==
    /\ active # NoClient /\ active' = NoClient
    /\ UNCHANGED <<metricVars, nodeVars, commandVars, queue, publishing, activations>>

----------------------------------------------------------------------------
\* Commands.

\* What the client subscribes to: one topic for the node, and one with a
\* wildcard for the name of a device.
Topics == {[kind |-> "NCMD"]} \cup [kind : {"DCMD"}, device : Names]

\* Node::onEvent: a message of the host, from a client that subscribed.
MessageArrives(c, topic, commands) ==
    /\ Step /\ enabled
    /\ inbox' = Append(inbox, [client |-> c, topic |-> topic, commands |-> commands])
    /\ UNCHANGED <<itemVars, messageVars, pastVars, nodeVars, handler, callback,
                   readOnly, writable, ran, clientVars>>

\* topic.find(NCMD): anywhere in the topic.
ContainsNcmd(topic) ==
    nodeNcmd \/ topic.kind = "NCMD" \/ topic.device \in NcmdNames

\* Mutant of Addressee: one character too many is cut off the topic.
AddresseeCut(topic) == {}

\* find_if over the devices: the first with the name, the rest of the topic.
Addressee(topic) ==
    {p \in Devices : \E i \in DOMAIN devices :
        /\ devices[i] = p /\ name[p] = topic.device
        /\ \A j \in 1..(i - 1) : name[devices[j]] # topic.device}

\* Node::onMessage: whose handleCommand is called, if any.
Receivers(received) ==
    IF received.client # active THEN {}
    ELSE IF ContainsNcmd(received.topic)
      THEN IF received.topic.kind = "NCMD" THEN {NodeSelf} ELSE {}
      ELSE Addressee(received.topic)

\* find_if over the metrics of p: the first with the name, the latest added.
Found(p, metricName) ==
    {m \in Metrics :
        /\ Owner[m] = p /\ MetricName[m] = metricName
        /\ \A n \in Metrics :
              Owner[n] = p /\ MetricName[n] = metricName => Added[n] <= Added[m]}

\* Publishable::handleCommand, by the place in the message: its loop is from the
\* last to the first. onCommand of a metric does nothing if it has neither a
\* handler nor a callback.
HandleCommand(p, commands) ==
    [i \in {j \in DOMAIN commands :
              Found(p, commands[j].name) \cap (handler \cup callback) # {}} |->
        [metric |-> CHOOSE m \in Found(p, commands[i].name) : TRUE,
         value |-> commands[i].value]]

\* The callback of the rebirth metric runs publishBirth if the value is true.
Rebirths(calls) ==
    Cardinality({i \in DOMAIN calls : calls[i].metric = Rebirth /\ calls[i].value = 1})

\* Node::processEvents of a CLIENT_MESSAGE. What the application sets in its
\* handlers and callbacks is Set.
ProcessMessage ==
    /\ inbox # <<>> /\ inbox' = Tail(inbox)
    /\ ran' = IF Receivers(Head(inbox)) = {} THEN <<>>
              ELSE HandleCommand(CHOOSE p \in Receivers(Head(inbox)) : TRUE,
                                 Head(inbox).commands)
    /\ PublishBirth(Rebirths(ran'))
    /\ UNCHANGED <<metricVars, nodeVars, handler, callback, readOnly, writable,
                   active, activations>>

----------------------------------------------------------------------------
\* Reporting.

Front == Head(queue).publishable

\* Node::execute asks the node and its devices, unless they are PUBLISHING.
PublishData(p) ==
    /\ active # NoClient /\ p \in Reported /\ CanPublish(p)
    /\ p \notin publishing /\ publishing' = publishing \cup {p}
    /\ queue' = Append(queue, Request(p, FALSE))
    /\ UNCHANGED <<metricVars, nodeVars, commandVars, active, activations>>

\* The client processes the request at the front of its queue.
ProcessRequest ==
    /\ active # NoClient /\ queue # <<>>
    /\ Encode(Front, Head(queue).isBirth)
    /\ UNCHANGED <<nodeVars, commandVars, clientVars>>

Delivered ==
    /\ active # NoClient /\ queue # <<>> /\ Deliver(Front)
    /\ queue' = Tail(queue) /\ publishing' = publishing \ {Front}
    /\ UNCHANGED <<nodeVars, commandVars, active, activations>>

\* The request is given up, or dumped with the queue of a client.
Undelivered ==
    /\ queue # <<>> /\ queue' = Tail(queue) /\ publishing' = publishing \ {Front}
    /\ \/ GiveUp(Front)
       \/ /\ active = NoClient /\ Front \notin busy
          /\ overlooked' = overlooked \cup {x \in Cleared(Front) : dirty[x]}
          /\ Published(Front) /\ UNCHANGED host
    /\ UNCHANGED <<nodeVars, commandVars, active, activations>>

Set(x, v) == SetValue(x, v) /\ UNCHANGED <<nodeVars, commandVars, clientVars>>

----------------------------------------------------------------------------
Next ==
    \/ Enable
    \/ \E d \in Devices : AddDevice(d)
    \/ \E m \in Metrics \ {Rebirth} : SetCommandHandler(m) \/ SetCommandCallback(m)
    \/ \E c \in ClientSet : SetActiveClient(c)
    \/ DeactivateClient
    \/ \E c \in ClientSet, topic \in Topics, commands \in Commands :
          MessageArrives(c, topic, commands)
    \/ ProcessMessage
    \/ \E p \in Publishables : PublishData(p)
    \/ ProcessRequest \/ Delivered \/ Undelivered
    \/ \E x \in Settable, v \in Inputs : Set(x, v)

Spec == Init /\ [][Next]_vars

----------------------------------------------------------------------------
\* Can the host tell device d by its name? Not if another has the same, nor if
\* the topic of its commands contains "NCMD".
Distinct(d) ==
    /\ ~nodeNcmd /\ name[d] \notin NcmdNames
    /\ \A e \in Devices \ {d} : Listed(e) => name[e] # name[d]

\* The metrics of p that listen and are named in the commands, and those that
\* share their name with another metric of their owner.
Named(p, commands) ==
    {m \in handler \cup callback :
        /\ Owner[m] = p
        /\ \E i \in DOMAIN commands : commands[i].name = MetricName[m]}

Shadowed ==
    {m \in Metrics : \E n \in Metrics \ {m} :
        Owner[n] = Owner[m] /\ MetricName[n] = MetricName[m]}

\* The step called metrics named in the commands, of p, and all that listen.
CallsOnly(p, commands) ==
    LET called == {ran'[i].metric : i \in DOMAIN ran'}
    IN  called \subseteq Named(p, commands) /\ Named(p, commands) \ Shadowed \subseteq called

\* "Commands are passed to the Publishable who owns the Metric" (Node.h:200):
\* when the node takes a command of its active client off its queue, those that
\* are called are metrics named in the message, of the device in the topic, if
\* it can be told apart, or of the node. Of those that listen, all are called,
\* unless another metric of their owner has their name.
ReachesOwner(received) ==
    received.client = active =>
      /\ received.topic.kind = "NCMD" => CallsOnly(NodeSelf, received.commands)
      /\ \A d \in Devices :
            /\ received.topic.kind = "DCMD" /\ Listed(d) /\ Distinct(d)
            /\ received.topic.device = name[d]
            => CallsOnly(d, received.commands)

CommandReachesOwner ==
    [][Len(inbox') < Len(inbox) => ReachesOwner(Head(inbox))]_vars

=============================================================================
