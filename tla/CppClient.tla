----------------------------- MODULE CppClient -----------------------------
(***************************************************************************)
(* CppMqttClient (src/src/clients/CppMqttClient.cpp): the library calls    *)
(* back from within client.sync(), on the node's thread. Alone of the      *)
(* three it gives the broker a will payload.                               *)
(***************************************************************************)
EXTENDS PublishQueue

IsCpp == library = "CppMqtt" /\ ~undefined
InSync == IsCpp /\ At("node", "sync")

\* SparkplugClient::incrementBdSeq.
IncrementBdSeq(n) == IF n = 255 THEN 0 ELSE n + 1

\* configureClient, when the node is enabled again (enable() stops at the first
\* client that fails): a new library client with a new will payload.
CppConfigure ==
    /\ IsCpp /\ At("node", "idle") /\ state = "DISCONNECTED" /\ link = "down"
    /\ Disrupt
    /\ bdSeq' = IncrementBdSeq(bdSeq)
    /\ UNCHANGED <<library, clientVars, encodeVars, queueVars, thread, linkVars,
                   sendVars, nodeVars, undefined>>

\* Mutant of CppConnect: the number moves on once the will is sent.
CppConnectIncrements ==
    /\ IsCpp /\ At("node", "connect") /\ link = "down"
    /\ link' = "connecting" /\ will' = bdSeq
    /\ bdSeq' = IncrementBdSeq(bdSeq)
    /\ Goto("node", "connecting")
    /\ UNCHANGED <<library, clientVars, encodeVars, queueVars, subscriptions,
                   sendVars, nodeVars, undefined, disruptions>>

\* clientConnect: the attempt starts.
CppConnect ==
    /\ IsCpp /\ At("node", "connect") /\ link = "down"
    /\ link' = "connecting" /\ will' = bdSeq
    /\ Goto("node", "connecting")
    /\ UNCHANGED <<library, clientVars, encodeVars, bdSeq, queueVars,
                   subscriptions, sendVars, nodeVars, undefined, disruptions>>

\* clientConnect returns -1: connect() assigns DISCONNECTED.
CppConnectRefused ==
    /\ IsCpp /\ At("node", "connect") /\ Disrupt
    /\ SetState("DISCONNECTED")
    /\ Goto("node", "sync")
    /\ UNCHANGED <<library, encodeVars, bdSeq, queueVars, linkVars, sendVars,
                   nodeVars, undefined>>

\* onConnectionSuccess: SparkplugClient::connected.
CppOnConnectionSuccess ==
    /\ InSync /\ link = "connecting"
    /\ SetState("CONNECTED")
    /\ link' = "up" /\ birthBdSeq' = NoBdSeq
    /\ told' = "CONNECTED"
    /\ UNCHANGED <<library, payloadSequence, handed, bdSeq, queueVars, thread,
                   subscriptions, will, sendVars, activeEvent, active, stopped,
                   undefined, disruptions>>

\* onConnectionFailure: no event.
CppOnConnectionFailure ==
    /\ InSync /\ link = "connecting" /\ Disrupt
    /\ SetState("DISCONNECTED")
    /\ link' = "down"
    /\ UNCHANGED <<library, encodeVars, bdSeq, queueVars, thread, subscriptions,
                   will, sendVars, nodeVars, undefined>>

\* onDisconnection.
CppOnDisconnection ==
    /\ InSync /\ link = "lost"
    /\ Call("node", "dump", "sync")
    /\ UNCHANGED <<library, clientVars, encodeVars, bdSeq, queueVars, linkVars,
                   sendVars, nodeVars, undefined, disruptions>>

\* onDeliveryComplete: front() is read without asking whether the queue is
\* empty.
CppOnDeliveryComplete(m) ==
    /\ InSync /\ IsConnected
    /\ inflight' = inflight \ {m}
    /\ IF queue = <<>> THEN undefined' = TRUE /\ UNCHANGED <<queueVars, thread>>
       ELSE /\ UNCHANGED undefined
            /\ IF request[Head(queue)].token = m.token
                 THEN ReportFront("DELIVERED") /\ Call("node", "publish", "sync")
                 ELSE UNCHANGED <<queueVars, thread>>
    /\ UNCHANGED <<library, clientVars, encodeVars, bdSeq, linkVars, lastToken,
                   nodeVars, disruptions>>

\* onDeliveryFailure, from the library.
CppOnDeliveryFailure(m) ==
    /\ InSync /\ link \in {"up", "lost"} /\ Disrupt
    /\ inflight' = inflight \ {m}
    /\ IF queue # <<>> /\ request[Head(queue)].token = m.token
         THEN RetryOrGiveUp("node", "sync")
         ELSE UNCHANGED <<queueVars, thread>>
    /\ UNCHANGED <<library, clientVars, encodeVars, bdSeq, linkVars, lastToken,
                   nodeVars, undefined>>

\* onSubscribeResult, of the last subscription only: SparkplugClient::activated.
CppOnSubscribeResult ==
    /\ InSync /\ IsConnected /\ subscriptions > 0
    /\ subscriptions' = subscriptions - 1
    /\ activeEvent' = (activeEvent \/ (primary /\ subscriptions = 1))
    /\ UNCHANGED <<library, clientVars, encodeVars, bdSeq, queueVars, thread,
                   link, will, sendVars, told, active, stopped, undefined,
                   disruptions>>

\* client.sync() returns.
CppSyncReturns ==
    /\ InSync
    /\ Goto("node", "idle")
    /\ UNCHANGED <<library, clientVars, encodeVars, bdSeq, queueVars, linkVars,
                   sendVars, nodeVars, undefined, disruptions>>

\* activate(): a refused subscription leaves the client as it was.
CppActivate ==
    /\ IsCpp /\ At("node", "idle") /\ told # "never" /\ ~primary /\ IsConnected
    /\ primary' = TRUE
    /\ subscriptions' = subscriptions + 1
    /\ UNCHANGED <<library, state, encodeVars, bdSeq, queueVars, thread, link,
                   will, sendVars, nodeVars, undefined, disruptions>>

\* Node::stop: deactivate() and disconnect(), which does nothing without a link;
\* the library reports the rest later.
CppStop ==
    /\ IsCpp /\ At("node", "idle") /\ Disrupt
    /\ primary' = FALSE /\ stopped' = TRUE
    /\ IF IsConnected
         THEN state' = "DISCONNECTING" /\ link' = "lost" /\ subscriptions' = 0
         ELSE UNCHANGED <<state, link, subscriptions>>
    /\ UNCHANGED <<library, encodeVars, bdSeq, queueVars, thread, will,
                   sendVars, told, activeEvent, active, undefined>>

CppStep ==
    \/ CppConfigure \/ CppConnect \/ CppConnectRefused
    \/ CppOnConnectionSuccess \/ CppOnConnectionFailure \/ CppOnDisconnection
    \/ CppOnSubscribeResult \/ CppSyncReturns \/ CppActivate \/ CppStop
    \/ \E m \in inflight : CppOnDeliveryComplete(m) \/ CppOnDeliveryFailure(m)

=============================================================================
