---------------------------- MODULE SyncClient ----------------------------
(***************************************************************************)
(* PahoSyncClient (src/src/clients/PahoSyncClient.cpp): everything happens *)
(* on the node's thread. sync() asks the library for the token of the      *)
(* front request, for the pending tokens and for messages, while the       *)
(* broker acknowledges what is in flight.                                  *)
(***************************************************************************)
EXTENDS PublishQueue

IsSync == library = "PahoSync" /\ ~undefined

\* clientConnect: MQTTClient_connect succeeds, SparkplugClient::connected.
SyncConnect ==
    /\ IsSync /\ At("node", "connect")
    /\ SetState("CONNECTED")
    /\ link' = "up" /\ will' = NoBdSeq /\ birthBdSeq' = NoBdSeq
    /\ told' = "CONNECTED"
    /\ Goto("node", "connecting")
    /\ UNCHANGED <<library, payloadSequence, handed, bdSeq, queueVars,
                   subscriptions, sendVars, activeEvent, active, stopped,
                   undefined, disruptions>>

\* clientConnect: MQTTClient_connect fails. onDisconnect reports a connection
\* lost that never was, and connect(), for which EXIT_FAILURE is no failure,
\* ends in CONNECTING.
SyncConnectFailure ==
    /\ IsSync /\ At("node", "connect") /\ Disrupt
    /\ SetState("CONNECTING")
    /\ Call("node", "dump", "connecting")
    /\ UNCHANGED <<library, encodeVars, bdSeq, queueVars, linkVars, sendVars,
                   nodeVars, undefined>>

FrontOutstanding == \E m \in inflight : m.token = request[Head(queue)].token

\* Mutant of SyncWait: a request that was never sent is waited for.
SyncWaitUnsent ==
    /\ IsSync /\ At("node", "wait")
    /\ IF queue = <<>>
         THEN Goto("node", "receive") /\ UNCHANGED queueVars
       ELSE IF ~IsConnected
         THEN Call("node", "dump", "idle") /\ UNCHANGED queueVars
       ELSE IF FrontOutstanding \/ request[Head(queue)].token = NoToken
         THEN Goto("node", "pending") /\ UNCHANGED queueVars
       ELSE ReportFront("DELIVERED") /\ Call("node", "publish", "pending")
    /\ UNCHANGED <<library, clientVars, encodeVars, bdSeq, linkVars, sendVars,
                   nodeVars, undefined, disruptions>>

\* sync(): MQTTClient_waitForCompletion of the front request. A token that is
\* not outstanding counts as complete, also that of a request never sent.
SyncWait ==
    /\ IsSync /\ At("node", "wait")
    /\ IF queue = <<>>
         THEN Goto("node", "receive") /\ UNCHANGED queueVars
       ELSE IF ~IsConnected
         THEN Call("node", "dump", "idle") /\ UNCHANGED queueVars
       ELSE IF FrontOutstanding
         THEN Goto("node", "pending") /\ UNCHANGED queueVars
       ELSE ReportFront("DELIVERED") /\ Call("node", "publish", "pending")
    /\ UNCHANGED <<library, clientVars, encodeVars, bdSeq, linkVars, sendVars,
                   nodeVars, undefined, disruptions>>

\* sync(): MQTTClient_getPendingDeliveryTokens. With nothing pending the library
\* gives no array, or now and then an empty one, which publishes the front.
SyncPending ==
    /\ IsSync /\ At("node", "pending")
    /\ \/ ~IsConnected /\ Call("node", "dump", "idle") /\ UNCHANGED disruptions
       \/ IsConnected /\ Goto("node", "receive") /\ UNCHANGED disruptions
       \/ IsConnected /\ inflight = {} /\ Disrupt
          /\ Call("node", "publish", "receive")
    /\ UNCHANGED <<library, clientVars, encodeVars, bdSeq, queueVars, linkVars,
                   sendVars, nodeVars, undefined>>

\* Mutant of SyncReceive: the loss of the link is taken for "no message".
SyncReceiveDeaf ==
    /\ IsSync /\ At("node", "receive")
    /\ Goto("node", "idle")
    /\ UNCHANGED <<library, clientVars, encodeVars, bdSeq, queueVars, linkVars,
                   sendVars, nodeVars, undefined, disruptions>>

\* sync(): the loop around MQTTClient_receive; messages go to the node.
SyncReceive ==
    /\ IsSync /\ At("node", "receive")
    /\ IF IsConnected THEN Goto("node", "idle") ELSE Call("node", "dump", "idle")
    /\ UNCHANGED <<library, clientVars, encodeVars, bdSeq, queueVars, linkVars,
                   sendVars, nodeVars, undefined, disruptions>>

\* The broker acknowledges a message.
BrokerAck(m) ==
    /\ IsSync /\ IsConnected
    /\ inflight' = inflight \ {m}
    /\ UNCHANGED <<library, clientVars, encodeVars, bdSeq, queueVars, thread,
                   linkVars, lastToken, nodeVars, undefined, disruptions>>

\* activate(): activated() at once, or the subscription is refused, which leaves
\* the client primary.
SyncActivate ==
    /\ IsSync /\ At("node", "idle") /\ told # "never" /\ ~primary
    /\ primary' = TRUE
    /\ \/ IsConnected /\ activeEvent' = TRUE /\ UNCHANGED disruptions
       \/ ~IsConnected /\ UNCHANGED <<activeEvent, disruptions>>
       \/ Disrupt /\ UNCHANGED activeEvent
    /\ UNCHANGED <<library, state, encodeVars, bdSeq, queueVars, thread,
                   linkVars, sendVars, told, active, stopped, undefined>>

\* Node::stop: deactivate() and disconnect(). The library closes the link, and
\* the node is not told, or it refuses.
SyncStop ==
    /\ IsSync /\ At("node", "idle") /\ Disrupt
    /\ primary' = FALSE /\ stopped' = TRUE
    /\ IF state = "DISCONNECTED" THEN UNCHANGED <<state, link, inflight>>
       ELSE \/ /\ IsConnected
               /\ state' = "DISCONNECTED"
               /\ link' = "down" /\ inflight' = {}
            \/ state' = "DISCONNECTING" /\ UNCHANGED <<link, inflight>>
    /\ UNCHANGED <<library, encodeVars, bdSeq, queueVars, thread, subscriptions,
                   will, lastToken, told, activeEvent, active, undefined>>

SyncStep ==
    \/ SyncConnect \/ SyncConnectFailure
    \/ SyncWait \/ SyncPending \/ SyncReceive
    \/ SyncActivate \/ SyncStop
    \/ \E m \in inflight : BrokerAck(m)

=============================================================================
