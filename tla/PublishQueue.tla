--------------------------- MODULE PublishQueue ---------------------------
(***************************************************************************)
(* The queue of PublishRequests of one client, step by step: PahoClient    *)
(* and CppMqttClient each have one and treat it alike                      *)
(* (src/src/clients/PahoClient.cpp, CppMqttClient.cpp), on top of          *)
(* SparkplugClient's state, primary flag and sequence number               *)
(* (src/src/clients/SparkplugClient.cpp). Two threads may be in it at      *)
(* once: the node's, and with PahoAsyncClient the library's. What calls it *)
(* is in the modules AsyncClient, SyncClient and CppClient.                *)
(*                                                                         *)
(* What is read in one statement and acted upon in another may have        *)
(* changed in between: each is a step. One operation on the std::queue is  *)
(* one step: its own races are not modelled. A request is its number; the  *)
(* pointer to it dangles once it has an outcome, for delivered() and       *)
(* undelivered() delete it.                                                *)
(***************************************************************************)
EXTENDS Integers, Sequences

CONSTANTS Publishables,     \* the node and its devices
          NodeSelf,         \* the publishable that is the node
          Libraries,        \* the clients considered
          PUBLISH_RETRIES,  \* resends of a request before it is given up
          SequenceModulus,  \* 256 in the code: values of payloadSequence
          MaxRequests,      \* bound: requests handed to the client
          MaxDisruptions    \* bound: lost links, refusals and the like

ASSUME PublishQueueAssumption ==
    /\ NodeSelf \in Publishables
    /\ Libraries \subseteq {"PahoAsync", "PahoSync", "CppMqtt"}
    /\ PUBLISH_RETRIES \in Nat
    /\ SequenceModulus \in Nat \ {0}
    /\ MaxRequests \in Nat
    /\ MaxDisruptions \in Nat

VARIABLES
    library,          \* which client this is
    state, primary,   \* SparkplugClient::state and isPrimary
    payloadSequence,  \* SparkplugClient::payloadSequence
    bdSeq,            \* SparkplugClient::bdSeq
    queue,            \* publishQueue
    request,          \* every PublishRequest so far, by number
    reported,         \* the numbers of those reported to the node
    thread,           \* where each thread is
    link,             \* the library's connection
    inflight,         \* what the library has accepted and not resolved
    lastToken,        \* the library's last token
    subscriptions,    \* command subscriptions not acknowledged yet
    will,             \* the bdSeq of the connection's will
    told,             \* the last CLIENT_CONNECTED or _DISCONNECTED event
    activeEvent,      \* a CLIENT_ACTIVE event is queued
    active,           \* it is Node::activeClient
    stopped,          \* history: disconnect() was called
    handed,           \* history: the number of the last payload handed over
    birthBdSeq,       \* history: the bdSeq of the link's last node birth
    undefined,        \* a deleted request was used, or the front of no queue
    disruptions       \* how many disruptions there have been

queueVars == <<queue, request, reported>>
nodeVars == <<told, activeEvent, active, stopped>>
linkVars == <<link, subscriptions, will>>
encodeVars == <<payloadSequence, handed, birthBdSeq>>
clientVars == <<state, primary>>
sendVars == <<inflight, lastToken>>
vars == <<library, clientVars, encodeVars, bdSeq, queueVars, thread, linkVars,
          sendVars, nodeVars, undefined, disruptions>>

Threads == {"node", "library"}
NoToken == -1
NoBdSeq == -1
BdSeqs == 0..255
Outcomes == {"none", "DELIVERED", "UNDELIVERED"}

States == {"DISCONNECTED", "CONNECTING", "CONNECTED", "PUBLISHING_PAYLOAD",
           "DISCONNECTING"}

\* The steps a thread may be at. "idle": not in the client.
Places == {"idle", "taken", "publish", "choose", "front", "settle", "process",
           "encode", "send", "assign", "failed", "dump", "disconnected", "tell",
           "connect", "connecting", "stopping", "wait", "pending", "receive",
           "sync"}

\* attempts and sent are history: how often publishMessage was called, and
\* whether the library ever accepted the message.
RequestRecords == [publisher : Publishables, isBirth : BOOLEAN,
                   token : Int, retryCount : 0..PUBLISH_RETRIES,
                   attempts : Nat, sent : BOOLEAN, outcome : Outcomes]

\* at: the request the thread points to. number: the sequence number of the
\* payload it has encoded. token: what publishMessage will assign. then: where
\* it returns to.
ThreadRecords == [pc : Places, at : Nat, number : Nat, token : Int,
                  then : Places]

Standing(place) == [pc |-> place, at |-> 0, number |-> 0, token |-> NoToken,
                    then |-> "idle"]

Init ==
    /\ library \in Libraries
    /\ state = "DISCONNECTED" /\ primary = FALSE
    /\ payloadSequence = 0
    /\ bdSeq = IF library = "CppMqtt" THEN 0 ELSE 255
    /\ queue = <<>> /\ request = <<>> /\ reported = <<>>
    /\ thread = [t \in Threads |-> Standing("idle")]
    /\ link = "down" /\ subscriptions = 0 /\ will = NoBdSeq
    /\ inflight = {} /\ lastToken = 0
    /\ told = "never" /\ activeEvent = FALSE /\ active = FALSE
    /\ stopped = FALSE
    /\ handed = SequenceModulus - 1
    /\ birthBdSeq = NoBdSeq
    /\ undefined = FALSE
    /\ disruptions = 0

Disrupt == disruptions < MaxDisruptions /\ disruptions' = disruptions + 1

----------------------------------------------------------------------------
IsConnected == link = "up"
Dangles(r) == request[r].outcome # "none"
At(t, place) == thread[t].pc = place /\ ~undefined

Goto(t, place) == thread' = [thread EXCEPT ![t].pc = place]
Call(t, place, then) ==
    thread' = [thread EXCEPT ![t].pc = place, ![t].then = then]
Return(t) == thread' = [thread EXCEPT ![t] = Standing(thread[t].then)]

\* SparkplugClient::setState: only a change of state to DISCONNECTED clears
\* the primary flag.
SetState(newState) ==
    /\ state' = newState
    /\ primary' = (primary /\ (newState = state \/ newState # "DISCONNECTED"))

\* delivered() and undelivered() of the front request, which is popped.
ReportFront(outcome) ==
    /\ queue' = Tail(queue)
    /\ reported' = Append(reported, Head(queue))
    /\ request' = [request EXCEPT ![Head(queue)].outcome = outcome]

----------------------------------------------------------------------------
\* Mutant of TakeRequest: the request jumps the queue.
TakeRequestFirst(p, isBirth) ==
    /\ At("node", "idle") /\ active /\ Len(request) < MaxRequests
    /\ request' = Append(request,
         [publisher |-> p, isBirth |-> isBirth, token |-> NoToken,
          retryCount |-> 0, attempts |-> 0, sent |-> FALSE,
          outcome |-> "none"])
    /\ queue' = <<Len(request) + 1>> \o queue
    /\ Goto("node", "taken")
    /\ UNCHANGED <<library, clientVars, encodeVars, bdSeq, reported, linkVars,
                   sendVars, nodeVars, undefined, disruptions>>

\* request() by the node, whose active client this is: the push.
TakeRequest(p, isBirth) ==
    /\ At("node", "idle") /\ active /\ Len(request) < MaxRequests
    /\ request' = Append(request,
         [publisher |-> p, isBirth |-> isBirth, token |-> NoToken,
          retryCount |-> 0, attempts |-> 0, sent |-> FALSE,
          outcome |-> "none"])
    /\ queue' = Append(queue, Len(request) + 1)
    /\ Goto("node", "taken")
    /\ UNCHANGED <<library, clientVars, encodeVars, bdSeq, reported, linkVars,
                   sendVars, nodeVars, undefined, disruptions>>

\* Mutant of CheckSize: every request starts the publishing.
CheckNoSize ==
    /\ At("node", "taken")
    /\ IF IsConnected
         THEN Call("node", "publish", "idle") ELSE Goto("node", "idle")
    /\ UNCHANGED <<library, clientVars, encodeVars, bdSeq, queueVars, linkVars,
                   sendVars, nodeVars, undefined, disruptions>>

\* The rest of request(): only a request that is the first of the queue starts
\* the publishing.
CheckSize ==
    /\ At("node", "taken")
    /\ IF Len(queue) = 1 /\ IsConnected
         THEN Call("node", "publish", "idle") ELSE Goto("node", "idle")
    /\ UNCHANGED <<library, clientVars, encodeVars, bdSeq, queueVars, linkVars,
                   sendVars, nodeVars, undefined, disruptions>>

\* publishFromQueue(): isConnected().
PublishFromQueue(t) ==
    /\ At(t, "publish")
    /\ IF IsConnected THEN Goto(t, "choose") ELSE Return(t)
    /\ UNCHANGED <<library, clientVars, encodeVars, bdSeq, queueVars, linkVars,
                   sendVars, nodeVars, undefined, disruptions>>

\* publishFromQueue(): getPrimary() and size(), else getState().
ChooseRequest(t) ==
    /\ At(t, "choose")
    /\ IF primary /\ queue # <<>> THEN Goto(t, "front")
       ELSE IF state = "PUBLISHING_PAYLOAD" THEN Goto(t, "settle")
       ELSE Return(t)
    /\ UNCHANGED <<library, clientVars, encodeVars, bdSeq, queueVars, linkVars,
                   sendVars, nodeVars, undefined, disruptions>>

\* Mutant of TakeFront: the newest request is processed.
TakeBack(t) ==
    /\ At(t, "front")
    /\ IF queue = <<>> THEN undefined' = TRUE /\ UNCHANGED thread
       ELSE /\ thread' = [thread EXCEPT ![t].pc = "process",
                                        ![t].at = queue[Len(queue)]]
            /\ UNCHANGED undefined
    /\ UNCHANGED <<library, clientVars, encodeVars, bdSeq, queueVars, linkVars,
                   sendVars, nodeVars, disruptions>>

\* publishFromQueue(): front(), of a queue that had a request when size() was
\* asked.
TakeFront(t) ==
    /\ At(t, "front")
    /\ IF queue = <<>> THEN undefined' = TRUE /\ UNCHANGED thread
       ELSE /\ thread' = [thread EXCEPT ![t].pc = "process",
                                        ![t].at = Head(queue)]
            /\ UNCHANGED undefined
    /\ UNCHANGED <<library, clientVars, encodeVars, bdSeq, queueVars, linkVars,
                   sendVars, nodeVars, disruptions>>

\* publishFromQueue(): the client that was publishing has nothing to publish.
Settle(t) ==
    /\ At(t, "settle")
    /\ SetState("CONNECTED")
    /\ Return(t)
    /\ UNCHANGED <<library, encodeVars, bdSeq, queueVars, linkVars, sendVars,
                   nodeVars, undefined, disruptions>>

IsNodeBirth(r) == request[r].publisher = NodeSelf /\ request[r].isBirth

\* SparkplugClient::resetSequence.
SequenceFor(r) == IF IsNodeBirth(r) THEN 0 ELSE payloadSequence

\* Mutant of NextSequence: the number does not wrap.
NextSequenceUnwrapped(n) == n + 1

\* payloadSequence++ of SparkplugClient::initializePayload, a uint8_t.
NextSequence(n) == (n + 1) % SequenceModulus

\* SparkplugClient::processRequest: getState().
ProcessRequest(t) ==
    /\ At(t, "process")
    /\ IF state = "DISCONNECTED" THEN Return(t) ELSE Goto(t, "encode")
    /\ UNCHANGED <<library, clientVars, encodeVars, bdSeq, queueVars, linkVars,
                   sendVars, nodeVars, undefined, disruptions>>

\* SparkplugClient::processRequest: PUBLISHING_PAYLOAD is assigned whatever the
\* state is by now, and the payload is encoded.
EncodeRequest(t) ==
    /\ At(t, "encode")
    /\ SetState("PUBLISHING_PAYLOAD")
    /\ LET r == thread[t].at IN
       IF Dangles(r)
         THEN undefined' = TRUE /\ UNCHANGED <<payloadSequence, thread>>
       ELSE /\ payloadSequence' = NextSequence(SequenceFor(r))
            /\ thread' = [thread EXCEPT ![t].pc = "send",
                                        ![t].number = SequenceFor(r)]
            /\ UNCHANGED undefined
    /\ UNCHANGED <<library, handed, birthBdSeq, bdSeq, queueVars, linkVars,
                   sendVars, nodeVars, disruptions>>

\* publishMessage(): the library takes the message.
SendAccepted(t) ==
    /\ At(t, "send") /\ IsConnected
    /\ LET r == thread[t].at IN
       IF Dangles(r)
         THEN /\ undefined' = TRUE
              /\ UNCHANGED <<sendVars, request, thread, handed, birthBdSeq>>
       ELSE /\ lastToken' = lastToken + 1
            /\ inflight' = inflight \cup {[token |-> lastToken + 1, id |-> r]}
            /\ request' = [request EXCEPT ![r].attempts = @ + 1,
                                          ![r].sent = TRUE]
            /\ thread' = [thread EXCEPT ![t].pc = "assign",
                                        ![t].token = lastToken + 1]
            /\ handed' = thread[t].number
            /\ birthBdSeq' = IF IsNodeBirth(r) THEN bdSeq ELSE birthBdSeq
            /\ UNCHANGED undefined
    /\ UNCHANGED <<library, clientVars, payloadSequence, bdSeq, queue, reported,
                   linkVars, nodeVars, disruptions>>

\* publishMessage(): the library refuses. PahoAsyncClient does nothing about
\* it; the others call onDeliveryFailure, whose token is the request's own.
SendRefused(t) ==
    /\ At(t, "send")
    /\ IF IsConnected THEN Disrupt ELSE UNCHANGED disruptions
    /\ LET r == thread[t].at IN
       IF Dangles(r)
         THEN /\ undefined' = TRUE
              /\ UNCHANGED <<request, thread, handed>>
       ELSE /\ request' = [request EXCEPT ![r].attempts = @ + 1,
                 ![r].token = IF library = "CppMqtt" THEN NoToken ELSE @]
            /\ IF library = "PahoAsync" THEN Return(t) ELSE Goto(t, "failed")
            /\ handed' = thread[t].number
            /\ UNCHANGED undefined
    /\ UNCHANGED <<library, clientVars, payloadSequence, birthBdSeq, bdSeq,
                   queue, reported, linkVars, sendVars, nodeVars>>

\* publishMessage() assigns the token once the library's call has returned.
AssignToken(t) ==
    /\ At(t, "assign")
    /\ IF Dangles(thread[t].at)
         THEN /\ undefined' = TRUE
              /\ UNCHANGED <<request, thread>>
         ELSE /\ request' = [request EXCEPT ![thread[t].at].token =
                                              thread[t].token]
              /\ Return(t)
              /\ UNCHANGED undefined
    /\ UNCHANGED <<library, clientVars, encodeVars, bdSeq, queue, reported,
                   linkVars, sendVars, nodeVars, disruptions>>

\* Mutant of RetryOrGiveUp: the resends are not counted.
RetryForever(t, then) ==
    IF ~IsConnected
      THEN ReportFront("UNDELIVERED") /\ Call(t, "publish", then)
      ELSE /\ thread' = [thread EXCEPT ![t].pc = "process",
                            ![t].at = Head(queue), ![t].then = then]
           /\ UNCHANGED queueVars

\* onDeliveryFailure() for the token of the front request.
RetryOrGiveUp(t, then) ==
    IF request[Head(queue)].retryCount >= PUBLISH_RETRIES \/ ~IsConnected
      THEN ReportFront("UNDELIVERED") /\ Call(t, "publish", then)
      ELSE /\ request' = [request EXCEPT ![Head(queue)].retryCount = @ + 1]
           /\ thread' = [thread EXCEPT ![t].pc = "process",
                            ![t].at = Head(queue), ![t].then = then]
           /\ UNCHANGED <<queue, reported>>

\* onDeliveryFailure() called by publishMessage(), which does no more after it:
\* CppMqttClient still reads *token, of a request deleted if it was given up,
\* but its caller does not use the value.
SendFailed(t) ==
    /\ At(t, "failed")
    /\ RetryOrGiveUp(t, thread[t].then)
    /\ UNCHANGED <<library, clientVars, encodeVars, bdSeq, linkVars, sendVars,
                   nodeVars, undefined, disruptions>>

\* Mutant of DumpQueue: the requests are reported as delivered.
DumpQueueDelivered(t) ==
    /\ At(t, "dump")
    /\ IF queue # <<>>
         THEN ReportFront("DELIVERED") /\ UNCHANGED thread
         ELSE Goto(t, "disconnected") /\ UNCHANGED queueVars
    /\ UNCHANGED <<library, clientVars, encodeVars, bdSeq, linkVars, sendVars,
                   nodeVars, undefined, disruptions>>

\* One round of dumpQueue(), then its end.
DumpQueue(t) ==
    /\ At(t, "dump")
    /\ IF queue # <<>>
         THEN ReportFront("UNDELIVERED") /\ UNCHANGED thread
         ELSE Goto(t, "disconnected") /\ UNCHANGED queueVars
    /\ UNCHANGED <<library, clientVars, encodeVars, bdSeq, linkVars, sendVars,
                   nodeVars, undefined, disruptions>>

\* SparkplugClient::disconnected: the state. A clean session keeps nothing of
\* the link.
Disconnected(t) ==
    /\ At(t, "disconnected")
    /\ SetState("DISCONNECTED")
    /\ link' = "down" /\ inflight' = {} /\ subscriptions' = 0
    /\ Goto(t, "tell")
    /\ UNCHANGED <<library, encodeVars, bdSeq, queueVars, will, lastToken,
                   nodeVars, undefined, disruptions>>

\* Mutant of Tell: there is no event.
TellNothing(t) ==
    /\ At(t, "tell")
    /\ Return(t)
    /\ UNCHANGED <<library, clientVars, encodeVars, bdSeq, queueVars, linkVars,
                   sendVars, nodeVars, undefined, disruptions>>

\* SparkplugClient::disconnected: the event. The node may have read the state,
\* and connect already.
Tell(t) ==
    /\ At(t, "tell")
    /\ told' = "DISCONNECTED"
    /\ Return(t)
    /\ UNCHANGED <<library, clientVars, encodeVars, bdSeq, queueVars, linkVars,
                   sendVars, activeEvent, active, stopped, undefined,
                   disruptions>>

\* The end of SparkplugClient::connect, after the library may have called back:
\* CONNECTING is assigned whatever the state is by now.
ConnectReturns ==
    /\ At("node", "connecting")
    /\ SetState("CONNECTING")
    /\ Goto("node", IF library = "PahoAsync" THEN "idle"
                    ELSE IF library = "PahoSync" THEN "wait" ELSE "sync")
    /\ UNCHANGED <<library, encodeVars, bdSeq, queueVars, linkVars, sendVars,
                   nodeVars, undefined, disruptions>>

\* SparkplugClient::execute.
Execute ==
    /\ At("node", "idle")
    /\ Goto("node", IF state = "DISCONNECTED" THEN "connect"
                    ELSE IF library = "PahoAsync" THEN "idle"
                    ELSE IF library = "PahoSync" THEN "wait" ELSE "sync")
    /\ UNCHANGED <<library, clientVars, encodeVars, bdSeq, queueVars, linkVars,
                   sendVars, nodeVars, undefined, disruptions>>

----------------------------------------------------------------------------
\* The node, between two of its calls: the events it processes, and the
\* decisions it takes for other reasons (another client, the primary host).

\* CLIENT_ACTIVE is processed.
BecomeActive ==
    /\ At("node", "idle") /\ activeEvent
    /\ active' = TRUE /\ activeEvent' = FALSE
    /\ UNCHANGED <<library, clientVars, encodeVars, bdSeq, queueVars, thread,
                   linkVars, sendVars, told, stopped, undefined, disruptions>>

\* SparkplugClient::deactivate, whatever the library answers: a refusal to
\* unsubscribe is not negative. The queue is left as it is.
Deactivate ==
    /\ At("node", "idle") /\ active
    /\ IF told = "DISCONNECTED" THEN UNCHANGED disruptions ELSE Disrupt
    /\ primary' = FALSE /\ active' = FALSE
    /\ UNCHANGED <<library, state, encodeVars, bdSeq, queueVars, thread,
                   linkVars, sendVars, told, activeEvent, stopped, undefined>>

\* The link breaks, which the library notices at once and reports later.
LinkLost ==
    /\ IsConnected /\ ~undefined /\ Disrupt
    /\ link' = "lost" /\ subscriptions' = 0
    /\ UNCHANGED <<library, clientVars, encodeVars, bdSeq, queueVars, thread,
                   will, sendVars, nodeVars, undefined>>

\* A program with undefined behaviour is not followed any further.
Undefined == undefined /\ UNCHANGED vars

QueueStep(t) ==
    \/ PublishFromQueue(t) \/ ChooseRequest(t) \/ TakeFront(t) \/ Settle(t)
    \/ ProcessRequest(t) \/ EncodeRequest(t)
    \/ SendAccepted(t) \/ SendRefused(t) \/ AssignToken(t) \/ SendFailed(t)
    \/ DumpQueue(t) \/ Disconnected(t) \/ Tell(t)

NodeStep ==
    \/ \E p \in Publishables, isBirth \in BOOLEAN : TakeRequest(p, isBirth)
    \/ CheckSize \/ Execute \/ ConnectReturns

=============================================================================
