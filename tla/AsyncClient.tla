---------------------------- MODULE AsyncClient ----------------------------
(***************************************************************************)
(* PahoAsyncClient (src/src/clients/PahoAsyncClient.cpp): the library      *)
(* answers from a thread of its own, one callback at a time, while the     *)
(* node's thread is anywhere in the client.                                *)
(***************************************************************************)
EXTENDS PublishQueue

IsAsync == library = "PahoAsync" /\ ~undefined

\* A callback may start.
Quiet == IsAsync /\ thread["library"].pc = "idle"

\* clientConnect: the library takes the attempt.
AsyncConnect ==
    /\ IsAsync /\ At("node", "connect") /\ link = "down"
    /\ SetState("CONNECTING")
    /\ link' = "connecting"
    /\ will' = NoBdSeq
    /\ Goto("node", "connecting")
    /\ UNCHANGED <<library, encodeVars, bdSeq, queueVars, subscriptions,
                   sendVars, nodeVars, undefined, disruptions>>

\* clientConnect: the library refuses. EXIT_FAILURE is not negative, so that
\* connect() takes it for a success.
AsyncConnectRefused ==
    /\ IsAsync /\ At("node", "connect") /\ Disrupt
    /\ SetState("CONNECTING")
    /\ Goto("node", "connecting")
    /\ UNCHANGED <<library, encodeVars, bdSeq, queueVars, linkVars, sendVars,
                   nodeVars, undefined>>

\* onConnect: SparkplugClient::connected.
AsyncOnConnect ==
    /\ Quiet /\ link = "connecting"
    /\ link' = "up" /\ birthBdSeq' = NoBdSeq
    /\ SetState("CONNECTED")
    /\ told' = "CONNECTED"
    /\ UNCHANGED <<library, payloadSequence, handed, bdSeq, queueVars, thread,
                   subscriptions, will, sendVars, activeEvent, active, stopped,
                   undefined, disruptions>>

\* onConnectFailure: no event.
AsyncOnConnectFailure ==
    /\ Quiet /\ link = "connecting" /\ Disrupt
    /\ link' = "down"
    /\ SetState("DISCONNECTED")
    /\ UNCHANGED <<library, encodeVars, bdSeq, queueVars, thread, subscriptions,
                   will, sendVars, nodeVars, undefined>>

\* connectionLost: PahoClient::onDisconnect.
AsyncOnDisconnect ==
    /\ Quiet /\ link = "lost"
    /\ Call("library", "dump", "idle")
    /\ UNCHANGED <<library, clientVars, encodeVars, bdSeq, queueVars, linkVars,
                   sendVars, nodeVars, undefined, disruptions>>

\* activate(): the subscription is accepted, or refused without notice.
AsyncActivate ==
    /\ IsAsync /\ At("node", "idle") /\ told # "never" /\ ~primary
    /\ primary' = TRUE
    /\ \/ IsConnected /\ subscriptions' = subscriptions + 1
          /\ UNCHANGED disruptions
       \/ ~IsConnected /\ UNCHANGED <<subscriptions, disruptions>>
       \/ Disrupt /\ UNCHANGED subscriptions
    /\ UNCHANGED <<library, state, encodeVars, bdSeq, queueVars, thread, link,
                   will, sendVars, nodeVars, undefined>>

\* onCommandSubscription: SparkplugClient::activated.
AsyncOnSubscription ==
    /\ Quiet /\ IsConnected /\ subscriptions > 0
    /\ subscriptions' = subscriptions - 1
    /\ activeEvent' = (activeEvent \/ primary)
    /\ UNCHANGED <<library, clientVars, encodeVars, bdSeq, queueVars, thread,
                   link, will, sendVars, told, active, stopped, undefined,
                   disruptions>>

\* onDelivery: front() is read without asking whether the queue is empty, and a
\* token that is not the front request's is dropped.
AsyncOnDelivery(m) ==
    /\ Quiet /\ IsConnected
    /\ inflight' = inflight \ {m}
    /\ IF queue = <<>> THEN undefined' = TRUE /\ UNCHANGED <<queueVars, thread>>
       ELSE /\ UNCHANGED undefined
            /\ IF request[Head(queue)].token = m.token
                 THEN ReportFront("DELIVERED") /\ Call("library", "publish", "idle")
                 ELSE UNCHANGED <<queueVars, thread>>
    /\ UNCHANGED <<library, clientVars, encodeVars, bdSeq, linkVars, lastToken,
                   nodeVars, disruptions>>

\* deliveryFailure: PahoClient::onDeliveryFailure.
AsyncOnDeliveryFailure(m) ==
    /\ Quiet /\ link \in {"up", "lost"} /\ Disrupt
    /\ inflight' = inflight \ {m}
    /\ IF queue # <<>> /\ request[Head(queue)].token = m.token
         THEN RetryOrGiveUp("library", "idle")
         ELSE UNCHANGED <<queueVars, thread>>
    /\ UNCHANGED <<library, clientVars, encodeVars, bdSeq, linkVars, lastToken,
                   nodeVars, undefined>>

\* Node::stop: deactivate(), and disconnect() as far as getState().
AsyncStop ==
    /\ IsAsync /\ At("node", "idle") /\ Disrupt
    /\ primary' = FALSE /\ stopped' = TRUE
    /\ Goto("node", IF state = "DISCONNECTED" THEN "idle" ELSE "stopping")
    /\ UNCHANGED <<library, state, encodeVars, bdSeq, queueVars, linkVars,
                   sendVars, told, activeEvent, active, undefined>>

\* clientDisconnect. The library closes the link, of which it does not call
\* back, or refuses.
AsyncDisconnect ==
    /\ IsAsync /\ At("node", "stopping")
    /\ SetState("DISCONNECTING")
    /\ \/ /\ IsConnected
          /\ link' = "down" /\ inflight' = {} /\ subscriptions' = 0
       \/ UNCHANGED <<link, inflight, subscriptions>>
    /\ Goto("node", "idle")
    /\ UNCHANGED <<library, encodeVars, bdSeq, queueVars, will, lastToken,
                   nodeVars, undefined, disruptions>>

AsyncCallback ==
    \/ AsyncOnConnect \/ AsyncOnConnectFailure \/ AsyncOnDisconnect
    \/ AsyncOnSubscription
    \/ \E m \in inflight : AsyncOnDelivery(m) \/ AsyncOnDeliveryFailure(m)

AsyncStep ==
    \/ AsyncConnect \/ AsyncConnectRefused \/ AsyncActivate \/ AsyncStop
    \/ AsyncDisconnect \/ AsyncCallback \/ (IsAsync /\ QueueStep("library"))

=============================================================================
