------------------------------ MODULE Clients ------------------------------
(***************************************************************************)
(* The three clients of the repository behind the one interface a Node     *)
(* sees, SparkplugClient: which library a client is built on is chosen in  *)
(* the initial state.                                                      *)
(***************************************************************************)
EXTENDS AsyncClient, SyncClient, CppClient

Next ==
    \/ NodeStep \/ QueueStep("node")
    \/ AsyncStep \/ SyncStep \/ CppStep
    \/ BecomeActive \/ Deactivate \/ LinkLost \/ Undefined

Spec == Init /\ [][Next]_vars

\* The node's thread, which keeps calling execute(), in a client without
\* threads of its own.
NodeThread ==
    /\ library # "PahoAsync"
    /\ \/ CheckSize \/ Execute \/ ConnectReturns \/ QueueStep("node")
       \/ SyncConnect \/ SyncConnectFailure \/ SyncWait \/ SyncPending
       \/ SyncReceive \/ CppConnect \/ CppConnectRefused \/ CppSyncReturns

\* client.sync() reports sooner or later what became of a connection.
CppConnection ==
    CppOnConnectionSuccess \/ CppOnConnectionFailure \/ CppOnDisconnection

FairSpec ==
    /\ Spec
    /\ WF_vars(NodeThread)
    /\ SF_vars(CppConnection)
    /\ WF_vars(\E m \in inflight : BrokerAck(m))

----------------------------------------------------------------------------
ClientsTypeOK ==
    /\ library \in Libraries
    /\ state \in States /\ primary \in BOOLEAN
    /\ payloadSequence \in 0 .. SequenceModulus - 1
    /\ bdSeq \in BdSeqs
    /\ queue \in Seq(Nat) /\ reported \in Seq(Nat)
    /\ request \in Seq(RequestRecords)
    /\ thread \in [Threads -> ThreadRecords]
    /\ link \in {"down", "connecting", "up", "lost"}
    /\ lastToken \in Nat
    /\ inflight \subseteq [token : Int, id : Nat]
    /\ subscriptions \in Nat
    /\ will \in BdSeqs \cup {NoBdSeq} /\ birthBdSeq \in BdSeqs \cup {NoBdSeq}
    /\ told \in {"never", "CONNECTED", "DISCONNECTED"}
    /\ activeEvent \in BOOLEAN /\ active \in BOOLEAN /\ stopped \in BOOLEAN
    /\ handed \in Nat
    /\ undefined \in BOOLEAN
    /\ disruptions \in 0..MaxDisruptions

SingleThreaded == library # "PahoAsync"

\* No request is reported twice, out of turn or without having been handed over,
\* whatever becomes of the connection, the retries and the threads. That each is
\* reported in the end is SyncResolves, of one client.
RQ == INSTANCE RequestQueue WITH waiting <- queue, reported <- reported
ImplementsRequestQueue == RQ!RQSpec

\* publishFromQueue: only the front request is ever handed to the library,
\* whichever threads are publishing; the others wait for their turn.
OnlyFrontIsSent ==
    \A i \in 2..Len(queue) : request[queue[i]].attempts = 0

\* The queue is published one request at a time: a client without threads of its
\* own neither resends a request that the library still holds nor hands over the
\* next, through retries, new requests and sync().
OneAtATime == SingleThreaded => \A m, n \in inflight : m = n

\* CLIENT_DELIVERED is the library's word that it sent the message. With
\* PahoSyncClient it may not be: sync() asks for the token of a request that is
\* waiting.
DeliveredWasSent ==
    library # "PahoSync" =>
        \A r \in 1..Len(request) :
            request[r].outcome = "DELIVERED" => request[r].sent

\* PUBLISH_RETRIES bounds how often a request is handed over, counting also the
\* retries that nest inside a refused publish of CppMqttClient.
RetriesAreBounded ==
    library = "CppMqtt" =>
        \A r \in 1..Len(request) : request[r].attempts <= PUBLISH_RETRIES + 1

\* SparkplugClient::disconnected. The node does not believe a client connected
\* that is DISCONNECTED or has no connection, but for the moment between the
\* assignment of the state and the event, or when it stopped the client itself.
NodeIsTold ==
    (state = "DISCONNECTED" \/ link \in {"down", "connecting"})
    /\ told = "CONNECTED" /\ ~stopped
        => \E t \in Threads : thread[t].pc = "tell"

\* payloadSequence. On one thread, the payloads handed to the library are
\* numbered one after the other, from 0 at a node's birth, also across refused
\* publishes, retries and lost connections.
SequenceInOrder ==
    [][\A r \in 1..Len(request) :
          SingleThreaded /\ request'[r].attempts # request[r].attempts
              => handed' = IF IsNodeBirth(r) THEN 0
                           ELSE (handed + 1) % SequenceModulus]_vars

\* bdSeq. The node birth of a connection carries the number of the will that
\* the broker was given for that connection.
WillMatchesBirth ==
    library = "CppMqtt" /\ IsConnected /\ birthBdSeq # NoBdSeq
        => birthBdSeq = will

\* Requests are deleted as they are reported: no client without threads of its
\* own sends one later or writes in it, nor does it use the front of an empty
\* queue in onDeliveryComplete. The one read of a deleted request is in
\* "return *token" (CppMqttClient.cpp:213), for a result that nobody looks at.
SingleThreadedUsesLive == SingleThreaded => ~undefined

\* PahoSyncClient::sync. Every request is reported in the end.
SyncResolves ==
    \A r \in 1..MaxRequests :
        (library = "PahoSync" /\ Len(request) >= r) ~> Len(reported) >= r

\* SparkplugClient.h:377: execute() "Assures the SparkplugClient is connected":
\* a client without threads of its own never stops trying, also when connect()
\* takes a failure for a success.
KeepsConnecting ==
    SingleThreaded
        => []<>(stopped \/ IsConnected \/ thread["node"].pc = "connect")

\* SparkplugClient.h:377: execute() "Assures the SparkplugClient is connected and
\* synced to the broker": a client that has no connection and has nothing going
\* on is in the one state from which execute() connects, or in CONNECTING (of
\* which see Node's ConnectingIsUnderWay).
DeadLinkIsSeen ==
    link = "down" /\ ~stopped /\ ~undefined
    /\ (\A t \in Threads : thread[t].pc = "idle")
        => state \in {"DISCONNECTED", "CONNECTING"}

\* PahoClient.h:46: "If there are requests in the queue then the front item of
\* the queue will be published": with nothing else going on, the front request
\* of a connected and primary client is with the library.
FrontIsPublished ==
    IsConnected /\ primary /\ queue # <<>> /\ ~undefined
    /\ (\A t \in Threads : thread[t].pc = "idle")
        => \E m \in inflight : m.id = Head(queue)

=============================================================================
