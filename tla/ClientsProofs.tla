--------------------------- MODULE ClientsProofs ---------------------------
(***************************************************************************)
(* Proofs about Clients, for every set of publishables, number of retries  *)
(* and bound, and for the three libraries: that the queue of requests is a *)
(* RequestQueue, whatever the threads and the connection do, and the       *)
(* safety properties of Clients that hold.                                 *)
(***************************************************************************)
EXTENDS Clients, SequenceTheorems, TLAPS

USE PublishQueueAssumption

----------------------------------------------------------------------------
\* The inductive invariant, in parts.

\* The numbers reported and those waiting are 1, 2, 3, and so on; a request has
\* an outcome once it is reported.
QueueOK ==
    /\ queue \in Seq(Nat) /\ reported \in Seq(Nat)
    /\ request \in Seq(RequestRecords)
    /\ Len(request) = Len(reported) + Len(queue)
    /\ \A i \in 1..Len(reported) : reported[i] = i
    /\ \A i \in 1..Len(queue) : queue[i] = Len(reported) + i
    /\ \A r \in 1..Len(request) : Dangles(r) <=> r <= Len(reported)

\* A thread at these places points to a request.
Pointing == {"process", "encode", "send", "assign", "failed"}

\* Where a call returns to.
Returns == {"idle", "pending", "receive", "connecting", "sync"}

\* A thread points to a request that is, or was, the front of the queue. In a
\* client without threads of its own it still is.
ThreadsOK ==
    /\ thread \in [Threads -> ThreadRecords]
    /\ library \in Libraries
    /\ \A t \in Threads :
          /\ thread[t].then \in Returns
          /\ thread[t].pc \in Pointing =>
                thread[t].at \in 1..Len(request) /\ thread[t].at <= Len(reported) + 1
          /\ thread[t].pc = "failed" => SingleThreaded
    /\ SingleThreaded =>
          /\ thread["library"].pc = "idle"
          /\ thread["node"].pc \in Pointing => thread["node"].at = Len(reported) + 1

----------------------------------------------------------------------------
\* What the steps do to the queue.

\* A request is put at the back of the queue.
Taken ==
    /\ \E x \in RequestRecords :
          x.outcome = "none" /\ x.attempts = 0 /\ x.token = NoToken
          /\ request' = Append(request, x)
    /\ queue' = Append(queue, Len(request) + 1)
    /\ reported' = reported

\* The front request is reported.
Resolved ==
    queue # <<>> /\ \E o \in Outcomes \ {"none"} : ReportFront(o)

\* A request is written to that keeps its outcome, and not one that waits for
\* its turn.
Written ==
    /\ \E r \in 1..Len(request), x \in RequestRecords :
          /\ r <= Len(reported) + 1
          /\ x.outcome = request[r].outcome
          /\ request' = [request EXCEPT ![r] = x]
    /\ queue' = queue /\ reported' = reported

Untouched == queue' = queue /\ request' = request /\ reported' = reported

\* A place of a sequence that is not empty.
LEMMA FrontOf ==
    ASSUME NEW s \in Seq(Nat), s # <<>>
    PROVE  /\ Head(s) = s[1] /\ Len(s) >= 1 /\ Tail(s) \in Seq(Nat)
           /\ Len(Tail(s)) = Len(s) - 1
           /\ \A i \in 1..Len(Tail(s)) : Tail(s)[i] = s[i + 1]
  OBVIOUS

LEMMA Appended ==
    ASSUME NEW S, NEW s \in Seq(S), NEW x \in S
    PROVE  /\ Append(s, x) \in Seq(S)
           /\ Len(Append(s, x)) = Len(s) + 1
           /\ \A i \in 1..Len(s) : Append(s, x)[i] = s[i]
           /\ Append(s, x)[Len(s) + 1] = x
  BY AppendProperties

\* The front of the queue is the request after the last that was reported.
LEMMA FrontIsNext ==
    ASSUME QueueOK, queue # <<>>
    PROVE  /\ Head(queue) = Len(reported) + 1
           /\ Head(queue) \in 1..Len(request)
           /\ request[Head(queue)] \in RequestRecords
           /\ request[Head(queue)].outcome = "none"
  <1>1. Head(queue) = queue[1] /\ Len(queue) >= 1
    BY FrontOf DEF QueueOK
  <1>2. Len(reported) \in Nat /\ Len(queue) \in Nat
    BY LenProperties DEF QueueOK
  <1>3. Head(queue) = Len(reported) + 1 /\ Head(queue) \in 1..Len(request)
    BY <1>1, <1>2 DEF QueueOK
  <1>4. request[Head(queue)] \in RequestRecords
    BY <1>3, ElementOfSeq DEF QueueOK
  <1> QED
    BY <1>2, <1>3, <1>4 DEF QueueOK, Dangles

\* Reporting the front, field by field.
LEMMA ReportedIs ==
    ASSUME QueueOK, queue # <<>>, NEW o \in Outcomes \ {"none"}, ReportFront(o)
    PROVE  /\ queue' = Tail(queue)
           /\ reported' = Append(reported, Len(reported) + 1)
           /\ Len(reported') = Len(reported) + 1
           /\ Len(queue') = Len(queue) - 1
           /\ Len(request') = Len(request)
           /\ request' \in Seq(RequestRecords)
           /\ \A r \in 1..Len(request) : request'[r] =
                IF r = Len(reported) + 1 THEN [request[r] EXCEPT !.outcome = o]
                ELSE request[r]
  <1> DEFINE h == Head(queue)
             x == [request[h] EXCEPT !.outcome = o]
  <1>1. h = Len(reported) + 1 /\ h \in 1..Len(request) /\ request[h] \in RequestRecords
    BY FrontIsNext
  <1>2. x \in RequestRecords
    BY <1>1 DEF RequestRecords
  <1>3. request' = [request EXCEPT ![h] = x]
    BY DEF ReportFront
  <1>4. queue' = Tail(queue) /\ reported' = Append(reported, h)
    BY DEF ReportFront
  <1>5. Len(reported') = Len(reported) + 1
    BY <1>1, <1>4, AppendProperties DEF QueueOK
  <1>6. Len(queue') = Len(queue) - 1
    BY <1>4, FrontOf DEF QueueOK
  <1> HIDE DEF h
  <1>7. /\ request' \in Seq(RequestRecords) /\ Len(request') = Len(request)
        /\ \A r \in 1..Len(request) : request'[r] = IF r = h THEN x ELSE request[r]
    <2> HIDE DEF x
    <2> QED
      BY <1>1, <1>2, <1>3, ExceptSeq DEF QueueOK
  <1> QED
    BY <1>1, <1>4, <1>5, <1>6, <1>7

\* Writing to a request.
LEMMA WrittenIs ==
    ASSUME QueueOK, NEW r \in 1..Len(request), NEW x \in RequestRecords,
           request' = [request EXCEPT ![r] = x]
    PROVE  /\ Len(request') = Len(request)
           /\ request' \in Seq(RequestRecords)
           /\ \A q \in 1..Len(request) :
                 request'[q] = IF q = r THEN x ELSE request[q]
  BY ExceptSeq DEF QueueOK

LEMMA TakenIs ==
    ASSUME QueueOK, Taken
    PROVE  /\ Len(request') = Len(request) + 1
           /\ Len(queue') = Len(queue) + 1
           /\ request' \in Seq(RequestRecords)
           /\ \A r \in 1..Len(request) : request'[r] = request[r]
           /\ request'[Len(request) + 1].outcome = "none"
           /\ request'[Len(request) + 1].attempts = 0
           /\ request'[Len(request) + 1].token = NoToken
  <1>1. PICK x \in RequestRecords :
          x.outcome = "none" /\ x.attempts = 0 /\ x.token = NoToken
          /\ request' = Append(request, x)
    BY DEF Taken
  <1>2. Len(request) \in Nat
    BY LenProperties DEF QueueOK
  <1>3. /\ request' \in Seq(RequestRecords) /\ Len(request') = Len(request) + 1
        /\ \A r \in 1..Len(request) : request'[r] = request[r]
        /\ request'[Len(request) + 1] = x
    <2>1. request \in Seq(RequestRecords)
      BY DEF QueueOK
    <2> QED
      BY <1>1, <2>1, Appended
  <1>4. Len(queue') = Len(queue) + 1
    BY <1>2, Appended DEF QueueOK, Taken
  <1> QED
    BY <1>1, <1>3, <1>4

\* The numbers stay in order.
LEMMA QueueStays ==
    ASSUME QueueOK, Taken \/ Resolved \/ Written \/ Untouched
    PROVE  QueueOK'
  <1>0. /\ Len(request) \in Nat /\ Len(reported) \in Nat /\ Len(queue) \in Nat
        /\ queue \in Seq(Nat) /\ reported \in Seq(Nat)
    BY LenProperties DEF QueueOK
  <1>1. CASE Taken
    <2>1. queue' = Append(queue, Len(request) + 1) /\ reported' = reported
      BY <1>1 DEF Taken
    <2>2. /\ queue' \in Seq(Nat) /\ Len(queue') = Len(queue) + 1
          /\ \A i \in 1..Len(queue) : queue'[i] = queue[i]
          /\ queue'[Len(queue) + 1] = Len(request) + 1
      BY <1>0, <2>1, Appended
    <2>0. Len(request) = Len(reported) + Len(queue)
      BY DEF QueueOK
    <2>3. \A i \in 1..Len(queue') : queue'[i] = Len(reported') + i
      <3> SUFFICES ASSUME NEW i \in 1..Len(queue')
                   PROVE  queue'[i] = Len(reported') + i
        OBVIOUS
      <3>1. CASE i = Len(queue) + 1
        BY <1>0, <2>0, <2>1, <2>2, <3>1
      <3>2. CASE i # Len(queue) + 1
        <4>1. i \in 1..Len(queue)
          BY <1>0, <2>2, <3>2
        <4> QED
          BY <2>1, <2>2, <4>1 DEF QueueOK
      <3> QED
        BY <3>1, <3>2
    <2>4. \A r \in 1..Len(request') : request'[r].outcome # "none" <=> r <= Len(reported')
      <3> SUFFICES ASSUME NEW r \in 1..Len(request')
                   PROVE  request'[r].outcome # "none" <=> r <= Len(reported')
        OBVIOUS
      <3>1. CASE r = Len(request) + 1
        BY <1>0, <1>1, <2>0, <2>1, <3>1, TakenIs
      <3>2. CASE r # Len(request) + 1
        <4>1. r \in 1..Len(request)
          BY <1>0, <1>1, <3>2, TakenIs
        <4>2. request'[r] = request[r]
          BY <1>1, <4>1, TakenIs
        <4> QED
          BY <2>1, <4>1, <4>2 DEF QueueOK, Dangles
      <3> QED
        BY <3>1, <3>2
    <2> QED
      BY <1>0, <1>1, <2>1, <2>2, <2>3, <2>4, TakenIs DEF QueueOK, Dangles
  <1>2. CASE Resolved
    <2>1. PICK o \in Outcomes \ {"none"} : queue # <<>> /\ ReportFront(o)
      BY <1>2 DEF Resolved
    <2>2. /\ queue' = Tail(queue)
          /\ reported' = Append(reported, Len(reported) + 1)
          /\ Len(reported') = Len(reported) + 1
          /\ Len(queue') = Len(queue) - 1
          /\ Len(request') = Len(request)
          /\ request' \in Seq(RequestRecords)
          /\ \A r \in 1..Len(request) : request'[r] =
               IF r = Len(reported) + 1 THEN [request[r] EXCEPT !.outcome = o]
               ELSE request[r]
      BY <2>1, ReportedIs
    <2>3. /\ reported' \in Seq(Nat)
          /\ \A i \in 1..Len(reported') : reported'[i] = i
      BY <1>0, <2>2, Appended DEF QueueOK
    <2>4. /\ queue' \in Seq(Nat)
          /\ \A i \in 1..Len(queue') : queue'[i] = Len(reported') + i
      <3>1. queue' \in Seq(Nat) /\ \A i \in 1..Len(queue') : queue'[i] = queue[i + 1]
        BY <1>0, <2>1, <2>2, FrontOf
      <3>2. \A i \in 1..Len(queue') : i + 1 \in 1..Len(queue)
        BY <1>0, <2>2
      <3> QED
        BY <1>0, <2>2, <3>1, <3>2 DEF QueueOK
    <2>5. \A r \in 1..Len(request) : request[r] \in RequestRecords
      BY ElementOfSeq DEF QueueOK
    <2>6. \A r \in 1..Len(request') : request'[r].outcome # "none" <=> r <= Len(reported')
      <3> SUFFICES ASSUME NEW r \in 1..Len(request)
                   PROVE  request'[r].outcome # "none" <=> r <= Len(reported')
        BY <2>2
      <3>1. CASE r = Len(reported) + 1
        <4>1. request'[r] = [request[r] EXCEPT !.outcome = o]
          BY <2>2, <3>1
        <4>2. request[r] \in RequestRecords
          BY <2>5
        <4>3. request'[r].outcome = o
          BY <4>1, <4>2 DEF RequestRecords
        <4> QED
          BY <1>0, <2>2, <3>1, <4>3
      <3>2. CASE r # Len(reported) + 1
        <4>1. request'[r] = request[r]
          BY <2>2, <3>2
        <4>2. r <= Len(reported') <=> r <= Len(reported)
          BY <1>0, <2>2, <3>2
        <4> QED
          BY <4>1, <4>2 DEF QueueOK, Dangles
      <3> QED
        BY <3>1, <3>2
    <2> QED
      BY <1>0, <2>2, <2>3, <2>4, <2>6 DEF QueueOK, Dangles
  <1>3. CASE Written
    <2>1. PICK r \in 1..Len(request), x \in RequestRecords :
            x.outcome = request[r].outcome /\ request' = [request EXCEPT ![r] = x]
      BY <1>3 DEF Written
    <2>2. /\ Len(request') = Len(request) /\ request' \in Seq(RequestRecords)
          /\ \A q \in 1..Len(request) :
                request'[q] = IF q = r THEN x ELSE request[q]
      BY <2>1, WrittenIs
    <2> QED
      BY <1>0, <1>3, <2>1, <2>2 DEF QueueOK, Written, Dangles
  <1>4. CASE Untouched
    BY <1>4 DEF QueueOK, Untouched, Dangles
  <1> QED
    BY <1>1, <1>2, <1>3, <1>4

----------------------------------------------------------------------------
\* Which step does what.

LEMMA RequestFields ==
    ASSUME NEW x \in RequestRecords
    PROVE  x.attempts \in Nat /\ x.attempts + 1 \in Nat /\ x.token \in Int
  BY DEF RequestRecords

LEMMA AcceptedType ==
    ASSUME NEW x \in RequestRecords, NEW n \in Nat
    PROVE  /\ [x EXCEPT !.attempts = n, !.sent = TRUE] \in RequestRecords
           /\ [x EXCEPT !.attempts = n, !.sent = TRUE].outcome = x.outcome
  BY DEF RequestRecords

LEMMA RefusedType ==
    ASSUME NEW x \in RequestRecords, NEW n \in Nat, NEW token \in Int
    PROVE  /\ [x EXCEPT !.attempts = n, !.token = token] \in RequestRecords
           /\ [x EXCEPT !.attempts = n, !.token = token].outcome = x.outcome
  BY DEF RequestRecords

LEMMA AssignedType ==
    ASSUME NEW x \in RequestRecords, NEW token \in Int
    PROVE  /\ [x EXCEPT !.token = token] \in RequestRecords
           /\ [x EXCEPT !.token = token].outcome = x.outcome
  BY DEF RequestRecords

LEMMA RetryOrGiveUpEffect ==
    ASSUME QueueOK, queue # <<>>, NEW t, NEW then, RetryOrGiveUp(t, then)
    PROVE  Resolved \/ Written
  <1> DEFINE h == Head(queue)
             x == [request[h] EXCEPT !.retryCount = request[h].retryCount + 1]
  <1>1. CASE request[h].retryCount >= PUBLISH_RETRIES \/ ~IsConnected
    BY <1>1 DEF RetryOrGiveUp, Resolved, Outcomes
  <1>2. CASE ~(request[h].retryCount >= PUBLISH_RETRIES \/ ~IsConnected)
    <2>1. /\ h \in 1..Len(request) /\ request[h] \in RequestRecords
          /\ h <= Len(reported) + 1
      BY FrontIsNext
    <2>2. /\ request' = [request EXCEPT ![h] = x]
          /\ UNCHANGED <<queue, reported>>
      BY <1>2 DEF RetryOrGiveUp
    <2>3. request[h].retryCount \in 0..PUBLISH_RETRIES
      BY <2>1 DEF RequestRecords
    <2>4. request[h].retryCount + 1 \in 0..PUBLISH_RETRIES
      BY <1>2, <2>3
    <2>5. x \in RequestRecords /\ x.outcome = request[h].outcome
      BY <2>1, <2>4 DEF RequestRecords
    <2> QED
      BY <2>1, <2>2, <2>5 DEF Written
  <1> QED
    BY <1>1, <1>2

LEMMA TakeRequestEffect ==
    ASSUME NEW p \in Publishables, NEW isBirth \in BOOLEAN, TakeRequest(p, isBirth)
    PROVE  Taken
  <1> DEFINE x == [publisher |-> p, isBirth |-> isBirth, token |-> NoToken,
                   retryCount |-> 0, attempts |-> 0, sent |-> FALSE,
                   outcome |-> "none"]
  <1>1. x \in RequestRecords
    BY DEF RequestRecords, Outcomes, NoToken
  <1>2. request' = Append(request, x) /\ queue' = Append(queue, Len(request) + 1)
        /\ reported' = reported
    BY DEF TakeRequest
  <1> QED
    BY <1>1, <1>2 DEF Taken

\* The request a thread points to is written to.
LEMMA SendEffect ==
    ASSUME QueueOK, ThreadsOK, NEW t \in Threads,
           SendAccepted(t) \/ SendRefused(t) \/ AssignToken(t)
    PROVE  Written \/ Untouched
  <1> DEFINE r == thread[t].at
  <1>1. r \in 1..Len(request) /\ r <= Len(reported) + 1
    BY DEF ThreadsOK, SendAccepted, SendRefused, AssignToken, At, Pointing
  <1>2. /\ request[r] \in RequestRecords
        /\ request[r].attempts + 1 \in Nat /\ request[r].token \in Int
    <2>1. request[r] \in RequestRecords
      BY <1>1, ElementOfSeq DEF QueueOK
    <2> QED
      BY <2>1, RequestFields
  <1>3. CASE Dangles(r)
    BY <1>3 DEF SendAccepted, SendRefused, AssignToken, Untouched
  <1>4. CASE SendAccepted(t) /\ ~Dangles(r)
    <2> DEFINE x == [request[r] EXCEPT !.attempts = request[r].attempts + 1, !.sent = TRUE]
    <2>1. request' = [request EXCEPT ![r] = x] /\ queue' = queue /\ reported' = reported
      BY <1>4 DEF SendAccepted
    <2>2. x \in RequestRecords /\ x.outcome = request[r].outcome
      BY <1>2, AcceptedType
    <2> QED
      BY <1>1, <2>1, <2>2 DEF Written
  <1>5. CASE SendRefused(t) /\ ~Dangles(r)
    <2> DEFINE token == IF library = "CppMqtt" THEN NoToken ELSE request[r].token
               x == [request[r] EXCEPT !.attempts = request[r].attempts + 1, !.token = token]
    <2>1. request' = [request EXCEPT ![r] = x] /\ queue' = queue /\ reported' = reported
      BY <1>5 DEF SendRefused
    <2>2. token \in Int
      BY <1>2 DEF NoToken
    <2>3. x \in RequestRecords /\ x.outcome = request[r].outcome
      <3> HIDE DEF token
      <3> QED
        BY <1>2, <2>2, RefusedType
    <2> QED
      BY <1>1, <2>1, <2>3 DEF Written
  <1>6. CASE AssignToken(t) /\ ~Dangles(r)
    <2> DEFINE x == [request[r] EXCEPT !.token = thread[t].token]
    <2>1. request' = [request EXCEPT ![r] = x] /\ queue' = queue /\ reported' = reported
      BY <1>6 DEF AssignToken
    <2>2. thread[t].token \in Int
      BY DEF ThreadsOK, ThreadRecords
    <2>3. x \in RequestRecords /\ x.outcome = request[r].outcome
      BY <1>2, <2>2, AssignedType
    <2> QED
      BY <1>1, <2>1, <2>3 DEF Written
  <1> QED
    BY <1>3, <1>4, <1>5, <1>6

\* onDeliveryFailure, called by publishMessage, finds a request.
LEMMA SendFailedEffect ==
    ASSUME QueueOK, ThreadsOK, NEW t \in Threads, SendFailed(t)
    PROVE  queue # <<>> /\ (Resolved \/ Written)
  <1>1. thread[t].pc = "failed" /\ SingleThreaded
    BY DEF SendFailed, At, ThreadsOK
  <1>2. t = "node"
    BY <1>1 DEF ThreadsOK, Threads
  <1>3. Len(reported) + 1 \in 1..Len(request)
    BY <1>1, <1>2 DEF ThreadsOK, Pointing, Threads
  <1>4. queue # <<>>
    BY <1>3, LenProperties DEF QueueOK
  <1> QED
    BY <1>4, RetryOrGiveUpEffect DEF SendFailed

LEMMA DumpQueueEffect ==
    ASSUME NEW t, DumpQueue(t)
    PROVE  Resolved \/ Untouched
  BY DEF DumpQueue, Resolved, Untouched, queueVars, Outcomes

LEMMA QueueStepEffect ==
    ASSUME QueueOK, ThreadsOK, NEW t \in Threads, QueueStep(t)
    PROVE  Resolved \/ Written \/ Untouched
  <1>1. CASE \/ PublishFromQueue(t) \/ ChooseRequest(t) \/ TakeFront(t) \/ Settle(t)
             \/ ProcessRequest(t) \/ EncodeRequest(t) \/ Disconnected(t) \/ Tell(t)
    BY <1>1 DEF PublishFromQueue, ChooseRequest, TakeFront, Settle,
                ProcessRequest, EncodeRequest, Disconnected, Tell, queueVars,
                Untouched
  <1> QED
    BY <1>1, SendEffect, SendFailedEffect, DumpQueueEffect DEF QueueStep

LEMMA DeliveryEffect ==
    ASSUME QueueOK, NEW m,
           \/ AsyncOnDelivery(m) \/ AsyncOnDeliveryFailure(m)
           \/ CppOnDeliveryComplete(m) \/ CppOnDeliveryFailure(m)
    PROVE  Resolved \/ Written \/ Untouched
  <1>1. CASE AsyncOnDelivery(m) \/ CppOnDeliveryComplete(m)
    BY <1>1 DEF AsyncOnDelivery, CppOnDeliveryComplete, Resolved, Untouched,
                queueVars, Outcomes
  <1>2. CASE AsyncOnDeliveryFailure(m) \/ CppOnDeliveryFailure(m)
    BY <1>2, RetryOrGiveUpEffect
       DEF AsyncOnDeliveryFailure, CppOnDeliveryFailure, Untouched, queueVars
  <1> QED
    BY <1>1, <1>2

LEMMA SyncWaitEffect ==
    ASSUME SyncWait
    PROVE  Resolved \/ Untouched
  BY DEF SyncWait, Resolved, Untouched, queueVars, Outcomes

LEMMA NextEffect ==
    ASSUME QueueOK, ThreadsOK, [Next]_vars
    PROVE  Taken \/ Resolved \/ Written \/ Untouched
  <1>1. CASE NodeStep
    <2>1. CASE CheckSize \/ Execute \/ ConnectReturns
      BY <2>1 DEF CheckSize, Execute, ConnectReturns, queueVars, Untouched
    <2> QED
      BY <1>1, <2>1, TakeRequestEffect DEF NodeStep
  <1>2. CASE QueueStep("node") \/ QueueStep("library")
    BY <1>2, QueueStepEffect DEF Threads
  <1>3. CASE AsyncStep
    <2>1. CASE \/ AsyncConnect \/ AsyncConnectRefused \/ AsyncActivate \/ AsyncStop
               \/ AsyncDisconnect
               \/ AsyncOnConnect \/ AsyncOnConnectFailure \/ AsyncOnDisconnect
               \/ AsyncOnSubscription
      BY <2>1 DEF AsyncConnect, AsyncConnectRefused, AsyncActivate, AsyncStop,
                  AsyncDisconnect, AsyncOnConnect, AsyncOnConnectFailure,
                  AsyncOnDisconnect, AsyncOnSubscription, queueVars, Untouched
    <2> QED
      BY <1>2, <1>3, <2>1, DeliveryEffect DEF AsyncStep, AsyncCallback
  <1>4. CASE SyncStep
    <2>1. CASE \/ SyncConnect \/ SyncConnectFailure \/ SyncPending \/ SyncReceive
               \/ SyncActivate \/ SyncStop \/ \E m \in inflight : BrokerAck(m)
      BY <2>1 DEF SyncConnect, SyncConnectFailure, SyncPending, SyncReceive,
                  SyncActivate, SyncStop, BrokerAck, queueVars, Untouched
    <2> QED
      BY <1>4, <2>1, SyncWaitEffect DEF SyncStep
  <1>5. CASE CppStep
    <2>1. CASE \/ CppConfigure \/ CppConnect \/ CppConnectRefused
               \/ CppOnConnectionSuccess \/ CppOnConnectionFailure
               \/ CppOnDisconnection \/ CppOnSubscribeResult \/ CppSyncReturns
               \/ CppActivate \/ CppStop
      BY <2>1 DEF CppConfigure, CppConnect, CppConnectRefused,
                  CppOnConnectionSuccess, CppOnConnectionFailure,
                  CppOnDisconnection, CppOnSubscribeResult, CppSyncReturns,
                  CppActivate, CppStop, queueVars, Untouched
    <2> QED
      BY <1>5, <2>1, DeliveryEffect DEF CppStep
  <1>6. CASE BecomeActive \/ Deactivate \/ LinkLost \/ Undefined \/ UNCHANGED vars
    BY <1>6 DEF BecomeActive, Deactivate, LinkLost, Undefined, vars, queueVars,
                Untouched
  <1> QED
    BY <1>1, <1>2, <1>3, <1>4, <1>5, <1>6 DEF Next

----------------------------------------------------------------------------
\* What the steps do to the threads.

\* The numbers only grow.
LEMMA Grows ==
    ASSUME QueueOK, Taken \/ Resolved \/ Written \/ Untouched
    PROVE  /\ Len(request) \in Nat /\ Len(request') \in Nat
           /\ Len(reported) \in Nat /\ Len(reported') \in Nat
           /\ Len(request') >= Len(request) /\ Len(reported') >= Len(reported)
  <1>1. Len(request) \in Nat /\ Len(reported) \in Nat
    BY LenProperties DEF QueueOK
  <1>2. CASE Taken
    BY <1>1, <1>2, TakenIs DEF Taken
  <1>3. CASE Resolved
    BY <1>1, <1>3, ReportedIs DEF Resolved
  <1>4. CASE Written
    BY <1>1, <1>4, WrittenIs DEF Written
  <1>5. CASE Untouched
    BY <1>1, <1>5 DEF Untouched
  <1> QED
    BY <1>2, <1>3, <1>4, <1>5

\* A thread moves, in a client where it may.
LEMMA Moved ==
    ASSUME ThreadsOK, QueueOK, Taken \/ Resolved \/ Written \/ Untouched,
           NEW t \in Threads, SingleThreaded => t = "node",
           NEW x \in ThreadRecords, thread' = [thread EXCEPT ![t] = x],
           x.then \in Returns,
           x.pc \in Pointing =>
              x.at \in 1..Len(request') /\ x.at <= Len(reported') + 1
              /\ (SingleThreaded => x.at = Len(reported') + 1),
           x.pc = "failed" => SingleThreaded,
           library' = library
    PROVE  ThreadsOK'
  <1>1. /\ Len(request) \in Nat /\ Len(request') \in Nat
        /\ Len(reported) \in Nat /\ Len(reported') \in Nat
        /\ Len(request') >= Len(request) /\ Len(reported') >= Len(reported)
    BY Grows
  <1>2. /\ thread' \in [Threads -> ThreadRecords]
        /\ thread'[t] = x
        /\ \A u \in Threads \ {t} : thread'[u] = thread[u]
    BY DEF ThreadsOK
  <1>3. ASSUME NEW u \in Threads
        PROVE  /\ thread'[u].then \in Returns
               /\ thread'[u].pc \in Pointing =>
                     thread'[u].at \in 1..Len(request')
                     /\ thread'[u].at <= Len(reported') + 1
               /\ thread'[u].pc = "failed" => SingleThreaded
    <2>1. CASE u = t
      BY <1>2, <2>1
    <2>2. CASE u # t
      BY <1>1, <1>2, <2>2 DEF ThreadsOK
    <2> QED
      BY <2>1, <2>2
  <1>4. SingleThreaded => thread'["library"] = thread["library"] /\ thread'["node"] = x
    BY <1>2 DEF Threads
  <1> QED
    BY <1>2, <1>3, <1>4 DEF ThreadsOK, SingleThreaded

\* No thread moves, and none that points to the front sees it reported.
LEMMA Kept ==
    ASSUME ThreadsOK, QueueOK, Taken \/ Resolved \/ Written \/ Untouched,
           thread' = thread, library' = library,
           \/ ~SingleThreaded \/ reported' = reported
           \/ thread["node"].pc \notin Pointing
    PROVE  ThreadsOK'
  <1>1. /\ Len(request) \in Nat /\ Len(request') \in Nat
        /\ Len(reported) \in Nat /\ Len(reported') \in Nat
        /\ Len(request') >= Len(request) /\ Len(reported') >= Len(reported)
    BY Grows
  <1> QED
    BY <1>1 DEF ThreadsOK, SingleThreaded

LEMMA ThreadType ==
    ASSUME ThreadsOK, NEW t \in Threads
    PROVE  /\ thread[t] \in ThreadRecords
           /\ thread[t].then \in Returns
           /\ thread[t].pc \in Places /\ thread[t].at \in Nat
           /\ thread[t].number \in Nat /\ thread[t].token \in Int
  BY DEF ThreadsOK, ThreadRecords

LEMMA PlaceType ==
    ASSUME NEW x \in ThreadRecords, NEW place \in Places
    PROVE  /\ [x EXCEPT !.pc = place] \in ThreadRecords
           /\ [x EXCEPT !.pc = place].pc = place
           /\ [x EXCEPT !.pc = place].then = x.then
           /\ [x EXCEPT !.pc = place].at = x.at
  BY DEF ThreadRecords

LEMMA StandingType ==
    ASSUME NEW place \in Places
    PROVE  /\ Standing(place) \in ThreadRecords
           /\ Standing(place).pc = place /\ Standing(place).then = "idle"
  BY DEF Standing, ThreadRecords, NoToken, Places

\* The three ways of going somewhere else than to a request.
LEMMA Gone ==
    ASSUME ThreadsOK, QueueOK, Taken \/ Resolved \/ Written \/ Untouched,
           NEW t \in Threads, SingleThreaded => t = "node",
           NEW place \in Places \ Pointing, NEW then \in Returns,
           Goto(t, place) \/ Call(t, place, then) \/ Return(t),
           library' = library
    PROVE  ThreadsOK'
  <1>1. thread[t] \in ThreadRecords /\ thread[t].then \in Returns
    BY ThreadType
  <1>2. /\ Returns \subseteq Places /\ "failed" \in Pointing /\ "idle" \in Returns
        /\ \A p \in Returns : p \notin Pointing
    BY DEF Returns, Places, Pointing
  <1>3. CASE Goto(t, place)
    <2> DEFINE x == [thread[t] EXCEPT !.pc = place]
    <2>1. thread' = [thread EXCEPT ![t] = x]
      BY <1>3 DEF Goto
    <2>2. x \in ThreadRecords /\ x.pc = place /\ x.then = thread[t].then
      BY <1>1, PlaceType
    <2> HIDE DEF x
    <2> QED
      BY <1>1, <1>2, <2>1, <2>2, Moved
  <1>4. CASE Call(t, place, then)
    <2> DEFINE x == [thread[t] EXCEPT !.pc = place, !.then = then]
    <2>1. thread' = [thread EXCEPT ![t] = x]
      BY <1>4 DEF Call
    <2>2. x \in ThreadRecords /\ x.pc = place /\ x.then = then
      <3>1. then \in Places /\ place \in Places
        BY <1>2
      <3>2. thread[t] \in ThreadRecords
        BY <1>1
      <3> QED
        BY <3>1, <3>2 DEF ThreadRecords
    <2> HIDE DEF x
    <2> QED
      BY <1>2, <2>1, <2>2, Moved
  <1>5. CASE Return(t)
    <2> DEFINE x == Standing(thread[t].then)
    <2>1. thread' = [thread EXCEPT ![t] = x]
      BY <1>5 DEF Return
    <2>2. x \in ThreadRecords /\ x.pc = thread[t].then /\ x.then = "idle"
      BY <1>1, <1>2, StandingType
    <2> HIDE DEF x
    <2> QED
      BY <1>1, <1>2, <2>1, <2>2, Moved
  <1> QED
    BY <1>3, <1>4, <1>5

\* A thread turns to the front of the queue.
LEMMA PointsToFront ==
    ASSUME ThreadsOK, QueueOK, queue # <<>>, Written \/ Untouched,
           NEW t \in Threads, SingleThreaded => t = "node",
           NEW then \in Returns,
           \/ thread' = [thread EXCEPT ![t].pc = "process", ![t].at = Head(queue)]
           \/ thread' = [thread EXCEPT ![t].pc = "process", ![t].at = Head(queue),
                                      ![t].then = then],
           library' = library
    PROVE  ThreadsOK'
  <1> DEFINE h == Head(queue)
  <1>1. thread[t] \in ThreadRecords /\ thread[t].then \in Returns
    BY ThreadType
  <1>2. h = Len(reported) + 1 /\ h \in 1..Len(request)
    BY FrontIsNext
  <1>3. Len(request') = Len(request) /\ reported' = reported
    BY WrittenIs DEF Written, Untouched
  <1>4. /\ h \in 1..Len(request') /\ h = Len(reported') + 1 /\ h \in Nat
        /\ h <= Len(reported') + 1
    <2>1. Len(request) \in Nat /\ Len(reported) \in Nat
      BY LenProperties DEF QueueOK
    <2> QED
      BY <1>2, <1>3, <2>1
  <1> HIDE DEF h
  <1>5. CASE thread' = [thread EXCEPT ![t].pc = "process", ![t].at = h]
    <2> DEFINE x == [thread[t] EXCEPT !.pc = "process", !.at = h]
    <2>1. thread' = [thread EXCEPT ![t] = x]
      BY <1>5
    <2>2. x \in ThreadRecords /\ x.pc = "process" /\ x.then = thread[t].then /\ x.at = h
      BY <1>1, <1>4 DEF ThreadRecords, Places
    <2> HIDE DEF x
    <2> QED
      BY <1>1, <1>4, <2>1, <2>2, Moved
  <1>6. CASE thread' = [thread EXCEPT ![t].pc = "process", ![t].at = h, ![t].then = then]
    <2> DEFINE x == [thread[t] EXCEPT !.pc = "process", !.at = h, !.then = then]
    <2>1. thread' = [thread EXCEPT ![t] = x]
      BY <1>6
    <2>2. x \in ThreadRecords /\ x.pc = "process" /\ x.then = then /\ x.at = h
      BY <1>1, <1>4 DEF ThreadRecords, Places, Returns
    <2> HIDE DEF x
    <2> QED
      BY <1>1, <1>4, <2>1, <2>2, Moved
  <1> QED
    BY <1>5, <1>6 DEF h

LEMMA RetryOrGiveUpThreads ==
    ASSUME ThreadsOK, QueueOK, queue # <<>>,
           NEW t \in Threads, SingleThreaded => t = "node",
           NEW then \in Returns, RetryOrGiveUp(t, then), library' = library
    PROVE  ThreadsOK'
  <1>1. Resolved \/ Written
    BY RetryOrGiveUpEffect
  <1>2. CASE request[Head(queue)].retryCount >= PUBLISH_RETRIES \/ ~IsConnected
    <2>1. Call(t, "publish", then)
      BY <1>2 DEF RetryOrGiveUp
    <2> QED
      BY <1>1, <2>1, Gone DEF Places, Pointing
  <1>3. CASE ~(request[Head(queue)].retryCount >= PUBLISH_RETRIES \/ ~IsConnected)
    <2>1. /\ thread' = [thread EXCEPT ![t].pc = "process", ![t].at = Head(queue),
                                     ![t].then = then]
          /\ reported' = reported
      BY <1>3 DEF RetryOrGiveUp
    <2>2. ~Resolved
      <3>1. ASSUME Resolved PROVE FALSE
        <4>1. Len(reported') = Len(reported) + 1
          BY <3>1, ReportedIs DEF Resolved
        <4> QED
          BY <2>1, <4>1, LenProperties DEF QueueOK
      <3> QED
        BY <3>1
    <2> QED
      BY <1>1, <2>1, <2>2, PointsToFront
  <1> QED
    BY <1>2, <1>3

\* The types of the numbers that the payloads and the tokens get.
NumbersOK ==
    /\ payloadSequence \in 0 .. SequenceModulus - 1
    /\ lastToken \in Nat

\* What a thread that points to a request knows, when it writes to it.
LEMMA StillPoints ==
    ASSUME ThreadsOK, QueueOK, NEW t \in Threads, SingleThreaded => t = "node",
           thread[t].pc \in Pointing, Written \/ Untouched
    PROVE  /\ thread[t].at \in 1..Len(request') /\ thread[t].at <= Len(reported') + 1
           /\ SingleThreaded => thread[t].at = Len(reported') + 1
  <1>1. /\ thread[t].at \in 1..Len(request) /\ thread[t].at <= Len(reported) + 1
        /\ SingleThreaded => thread[t].at = Len(reported) + 1
    BY DEF ThreadsOK
  <1>2. Len(request') = Len(request) /\ reported' = reported
    BY WrittenIs DEF Written, Untouched
  <1> QED
    BY <1>1, <1>2

LEMMA EncodeRequestThreads ==
    ASSUME ThreadsOK, QueueOK, NumbersOK, NEW t \in Threads,
           SingleThreaded => t = "node", ProcessRequest(t) \/ EncodeRequest(t)
    PROVE  ThreadsOK'
  <1> DEFINE r == thread[t].at
             n == SequenceFor(r)
  <1>1. Untouched /\ library' = library
    BY DEF ProcessRequest, EncodeRequest, queueVars, Untouched
  <1>2. thread[t].pc \in Pointing
    BY DEF ProcessRequest, EncodeRequest, At, Pointing
  <1>3. /\ thread[t].at \in 1..Len(request') /\ thread[t].at <= Len(reported') + 1
        /\ SingleThreaded => thread[t].at = Len(reported') + 1
    BY <1>1, <1>2, StillPoints
  <1>4. thread[t] \in ThreadRecords /\ thread[t].then \in Returns
    BY ThreadType
  <1>5. CASE Return(t)
    BY <1>1, <1>5, Gone DEF Places, Pointing, Returns
  <1>6. CASE thread' = thread
    BY <1>1, <1>6, Kept DEF Untouched
  <1>7. CASE Goto(t, "encode")
    <2> DEFINE x == [thread[t] EXCEPT !.pc = "encode"]
    <2>1. thread' = [thread EXCEPT ![t] = x]
      BY <1>7 DEF Goto
    <2>2. /\ x \in ThreadRecords /\ x.pc = "encode" /\ x.then = thread[t].then
          /\ x.at = thread[t].at
      BY <1>4 DEF ThreadRecords, Places
    <2> HIDE DEF x
    <2> QED
      BY <1>1, <1>3, <1>4, <2>1, <2>2, Moved
  <1>8. CASE EncodeRequest(t) /\ ~Dangles(r)
    <2> DEFINE x == [thread[t] EXCEPT !.pc = "send", !.number = n]
    <2>1. thread' = [thread EXCEPT ![t] = x]
      BY <1>8 DEF EncodeRequest
    <2>2. n \in Nat
      BY DEF SequenceFor, NumbersOK
    <2>3. /\ x \in ThreadRecords /\ x.pc = "send" /\ x.then = thread[t].then
          /\ x.at = thread[t].at
      <3> HIDE DEF n
      <3> QED
        BY <1>4, <2>2 DEF ThreadRecords, Places
    <2> HIDE DEF x
    <2> QED
      BY <1>1, <1>3, <1>4, <2>1, <2>3, Moved
  <1> QED
    BY <1>5, <1>6, <1>7, <1>8 DEF ProcessRequest, EncodeRequest

LEMMA SendThreads ==
    ASSUME ThreadsOK, QueueOK, NumbersOK, NEW t \in Threads,
           SingleThreaded => t = "node",
           SendAccepted(t) \/ SendRefused(t) \/ AssignToken(t)
    PROVE  ThreadsOK'
  <1> DEFINE r == thread[t].at
  <1>1. /\ Written \/ Untouched
        /\ library' = library /\ reported' = reported
    BY SendEffect DEF SendAccepted, SendRefused, AssignToken, queueVars
  <1>2. thread[t].pc \in Pointing
    BY DEF SendAccepted, SendRefused, AssignToken, At, Pointing
  <1>3. /\ thread[t].at \in 1..Len(request') /\ thread[t].at <= Len(reported') + 1
        /\ SingleThreaded => thread[t].at = Len(reported') + 1
    BY <1>1, <1>2, StillPoints
  <1>4. thread[t] \in ThreadRecords /\ thread[t].then \in Returns
    BY ThreadType
  <1>5. CASE thread' = thread
    BY <1>1, <1>5, Kept
  <1>6. CASE Return(t)
    BY <1>1, <1>6, Gone DEF Places, Pointing, Returns
  <1>7. CASE SendAccepted(t) /\ ~Dangles(r)
    <2> DEFINE x == [thread[t] EXCEPT !.pc = "assign", !.token = lastToken + 1]
    <2>1. thread' = [thread EXCEPT ![t] = x]
      BY <1>7 DEF SendAccepted
    <2>2. /\ x \in ThreadRecords /\ x.pc = "assign" /\ x.then = thread[t].then
          /\ x.at = thread[t].at
      <3>1. lastToken + 1 \in Int
        BY DEF NumbersOK
      <3>2. \A y \in Int :
              [thread[t] EXCEPT !.pc = "assign", !.token = y] \in ThreadRecords
        BY <1>4 DEF ThreadRecords, Places
      <3> QED
        BY <1>4, <3>1, <3>2 DEF ThreadRecords
    <2> HIDE DEF x
    <2> QED
      BY <1>1, <1>3, <1>4, <2>1, <2>2, Moved
  <1>8. CASE SendRefused(t) /\ Goto(t, "failed") /\ library # "PahoAsync"
    <2> DEFINE x == [thread[t] EXCEPT !.pc = "failed"]
    <2>1. thread' = [thread EXCEPT ![t] = x]
      BY <1>8 DEF Goto
    <2>2. /\ x \in ThreadRecords /\ x.pc = "failed" /\ x.then = thread[t].then
          /\ x.at = thread[t].at
      BY <1>4 DEF ThreadRecords, Places
    <2>3. SingleThreaded
      BY <1>8 DEF SingleThreaded
    <2> HIDE DEF x
    <2> QED
      BY <1>1, <1>3, <1>4, <2>1, <2>2, <2>3, Moved
  <1> QED
    BY <1>5, <1>6, <1>7, <1>8 DEF SendAccepted, SendRefused, AssignToken

LEMMA QueueStepThreads ==
    ASSUME ThreadsOK, QueueOK, NumbersOK, NEW t \in Threads,
           SingleThreaded => t = "node", QueueStep(t)
    PROVE  ThreadsOK'
  <1>1. CASE \/ PublishFromQueue(t) \/ ChooseRequest(t) \/ Settle(t)
             \/ Disconnected(t) \/ Tell(t)
    <2>1. Untouched /\ library' = library
      BY <1>1 DEF PublishFromQueue, ChooseRequest, Settle, Disconnected, Tell,
                  queueVars, Untouched
    <2>2. \E place \in {"choose", "front", "settle", "tell"} : Goto(t, place) \/ Return(t)
      BY <1>1 DEF PublishFromQueue, ChooseRequest, Settle, Disconnected, Tell
    <2> QED
      BY <2>1, <2>2, Gone DEF Places, Pointing, Returns
  <1>2. CASE SendFailed(t)
    <2>1. RetryOrGiveUp(t, thread[t].then) /\ library' = library
      BY <1>2 DEF SendFailed
    <2> QED
      BY <1>2, <2>1, SendFailedEffect, ThreadType, RetryOrGiveUpThreads
  <1>3. CASE DumpQueue(t)
    <2>1. (Resolved \/ Untouched) /\ library' = library
      BY <1>3, DumpQueueEffect DEF DumpQueue
    <2>2. CASE thread' = thread
      <3>1. SingleThreaded => thread["node"].pc \notin Pointing
        BY <1>3 DEF DumpQueue, At, Pointing
      <3> QED
        BY <2>1, <2>2, <3>1, Kept
    <2>3. CASE Goto(t, "disconnected")
      BY <2>1, <2>3, Gone DEF Places, Pointing, Returns
    <2> QED
      BY <1>3, <2>2, <2>3 DEF DumpQueue
  <1>4. CASE TakeFront(t)
    <2>1. Untouched /\ library' = library
      BY <1>4 DEF TakeFront, queueVars, Untouched
    <2>2. CASE queue = <<>>
      BY <1>4, <2>1, <2>2, Kept DEF TakeFront, Untouched
    <2>3. CASE queue # <<>>
      <3>1. thread' = [thread EXCEPT ![t].pc = "process", ![t].at = Head(queue)]
        BY <1>4, <2>3 DEF TakeFront
      <3>2. "idle" \in Returns
        BY DEF Returns
      <3> QED
        BY <2>1, <2>3, <3>1, <3>2, PointsToFront
    <2> QED
      BY <2>2, <2>3
  <1> QED
    BY <1>1, <1>2, <1>3, <1>4, EncodeRequestThreads, SendThreads DEF QueueStep

\* The places inside the queue where there is something to hand over.
Inside == Pointing \cup {"front"}

\* A thread goes to a place where there is not.
Elsewhere(t) ==
    \E place \in Places \ Inside, then \in Returns :
        Goto(t, place) \/ Call(t, place, then) \/ Return(t)

LEMMA GoneElsewhere ==
    ASSUME ThreadsOK, QueueOK, Taken \/ Resolved \/ Written \/ Untouched,
           NEW t \in Threads, SingleThreaded => t = "node", Elsewhere(t),
           library' = library
    PROVE  ThreadsOK'
  BY Gone DEF Elsewhere, Inside

LEMMA DeliveryThreads ==
    ASSUME ThreadsOK, QueueOK, NEW m,
           \/ AsyncOnDelivery(m) \/ AsyncOnDeliveryFailure(m)
           \/ CppOnDeliveryComplete(m) \/ CppOnDeliveryFailure(m)
    PROVE  ThreadsOK'
  <1>1. Resolved \/ Written \/ Untouched
    BY DeliveryEffect
  <1>2. library' = library
    BY DEF AsyncOnDelivery, AsyncOnDeliveryFailure, CppOnDeliveryComplete,
           CppOnDeliveryFailure
  <1>3. PICK t \in Threads :
          /\ SingleThreaded => t = "node"
          /\ \/ thread' = thread /\ reported' = reported
             \/ Elsewhere(t)
             \/ \E then \in Returns : queue # <<>> /\ RetryOrGiveUp(t, then)
    <2>1. CASE AsyncOnDelivery(m) \/ AsyncOnDeliveryFailure(m)
      <3>1. ~SingleThreaded /\ "library" \in Threads
        BY <2>1 DEF AsyncOnDelivery, AsyncOnDeliveryFailure, Quiet, IsAsync,
                    SingleThreaded, Threads
      <3> QED
        BY <2>1, <3>1 DEF AsyncOnDelivery, AsyncOnDeliveryFailure, Elsewhere, Inside,
                          queueVars, Inside, Places, Pointing, Returns
    <2>2. CASE CppOnDeliveryComplete(m) \/ CppOnDeliveryFailure(m)
      <3>1. "node" \in Threads
        BY DEF Threads
      <3> QED
        BY <2>2, <3>1 DEF CppOnDeliveryComplete, CppOnDeliveryFailure, Elsewhere, Inside,
                          queueVars, Inside, Places, Pointing, Returns
    <2> QED
      BY <2>1, <2>2
  <1>4. CASE thread' = thread /\ reported' = reported
    BY <1>1, <1>2, <1>4, Kept
  <1>5. CASE Elsewhere(t)
    BY <1>1, <1>2, <1>3, <1>5, GoneElsewhere
  <1>6. CASE \E then \in Returns : queue # <<>> /\ RetryOrGiveUp(t, then)
    BY <1>2, <1>3, <1>6, RetryOrGiveUpThreads
  <1> QED
    BY <1>3, <1>4, <1>5, <1>6

LEMMA NextThreads ==
    ASSUME ThreadsOK, QueueOK, NumbersOK, [Next]_vars
    PROVE  ThreadsOK'
  <1>1. Taken \/ Resolved \/ Written \/ Untouched
    BY NextEffect
  <1>2. "node" \in Threads /\ "library" \in Threads
    BY DEF Threads
  <1>3. CASE thread' = thread /\ reported' = reported /\ library' = library
    BY <1>1, <1>3, Kept
  <1>4. CASE Elsewhere("node") /\ library' = library
    BY <1>1, <1>2, <1>4, GoneElsewhere
  <1>5. CASE NodeStep
    <2>1. Elsewhere("node") /\ library' = library
      BY <1>5 DEF NodeStep, TakeRequest, CheckSize, Execute, ConnectReturns,
                  Elsewhere, Inside, Places, Pointing, Returns
    <2> QED
      BY <1>4, <2>1
  <1>6. CASE QueueStep("node")
    BY <1>2, <1>6, QueueStepThreads
  <1>7. CASE AsyncStep
    <2>1. CASE AsyncConnect \/ AsyncConnectRefused \/ AsyncStop \/ AsyncDisconnect
      <3>1. Elsewhere("node") /\ library' = library
        BY <2>1 DEF AsyncConnect, AsyncConnectRefused, AsyncStop,
                    AsyncDisconnect, Elsewhere, Inside, Places,
                    Pointing, Returns
      <3> QED
        BY <1>4, <3>1
    <2>2. CASE AsyncOnDisconnect
      <3>1. Elsewhere("library") /\ library' = library /\ ~SingleThreaded
        BY <2>2 DEF AsyncOnDisconnect, Elsewhere, Inside, Places, Pointing, Returns,
                    Quiet, IsAsync, SingleThreaded
      <3> QED
        BY <1>1, <1>2, <3>1, GoneElsewhere
    <2>3. CASE AsyncActivate \/ AsyncOnConnect
               \/ AsyncOnConnectFailure \/ AsyncOnSubscription
      <3>1. thread' = thread /\ reported' = reported /\ library' = library
        BY <2>3 DEF AsyncActivate, AsyncOnConnect, AsyncOnConnectFailure,
                    AsyncOnSubscription, queueVars
      <3> QED
        BY <1>3, <3>1
    <2>4. CASE IsAsync /\ QueueStep("library")
      BY <1>2, <2>4, QueueStepThreads DEF IsAsync, SingleThreaded
    <2> QED
      BY <1>7, <2>1, <2>2, <2>3, <2>4, DeliveryThreads DEF AsyncStep,
                                                           AsyncCallback
  <1>8. CASE SyncStep
    <2>1. CASE SyncActivate \/ SyncStop \/ \E m \in inflight : BrokerAck(m)
      <3>1. thread' = thread /\ reported' = reported /\ library' = library
        BY <2>1 DEF SyncActivate, SyncStop, BrokerAck, queueVars
      <3> QED
        BY <1>3, <3>1
    <2>2. CASE SyncConnect \/ SyncConnectFailure \/ SyncWait \/ SyncPending \/ SyncReceive
      <3>1. Elsewhere("node") /\ library' = library
        BY <2>2 DEF SyncConnect, SyncConnectFailure, SyncWait, SyncPending,
                    SyncReceive, Elsewhere, Inside, Places, Pointing, Returns
      <3> QED
        BY <1>4, <3>1
    <2> QED
      BY <1>8, <2>1, <2>2 DEF SyncStep
  <1>9. CASE CppStep
    <2>1. CASE \/ CppConfigure \/ CppOnConnectionSuccess \/ CppOnConnectionFailure
               \/ CppOnSubscribeResult \/ CppActivate \/ CppStop
      <3>1. thread' = thread /\ reported' = reported /\ library' = library
        BY <2>1 DEF CppConfigure, CppOnConnectionSuccess, CppOnConnectionFailure,
                    CppOnSubscribeResult, CppActivate, CppStop, queueVars
      <3> QED
        BY <1>3, <3>1
    <2>2. CASE CppConnect \/ CppConnectRefused \/ CppOnDisconnection \/ CppSyncReturns
      <3>1. Elsewhere("node") /\ library' = library
        BY <2>2 DEF CppConnect, CppConnectRefused, CppOnDisconnection,
                    CppSyncReturns, Elsewhere, Inside, Places, Pointing, Returns
      <3> QED
        BY <1>4, <3>1
    <2> QED
      BY <1>9, <2>1, <2>2, DeliveryThreads DEF CppStep
  <1>10. CASE BecomeActive \/ Deactivate \/ LinkLost \/ Undefined \/ UNCHANGED vars
    <2>1. thread' = thread /\ reported' = reported /\ library' = library
      BY <1>10 DEF BecomeActive, Deactivate, LinkLost, Undefined, vars, queueVars
    <2> QED
      BY <1>3, <2>1
  <1> QED
    BY <1>5, <1>6, <1>7, <1>8, <1>9, <1>10 DEF Next

----------------------------------------------------------------------------
\* The types of everything else.

ClientOK ==
    /\ state \in States /\ primary \in BOOLEAN
    /\ link \in {"down", "connecting", "up", "lost"}
    /\ bdSeq \in BdSeqs
    /\ will \in BdSeqs \cup {NoBdSeq} /\ birthBdSeq \in BdSeqs \cup {NoBdSeq}
    /\ told \in {"never", "CONNECTED", "DISCONNECTED"}
    /\ activeEvent \in BOOLEAN /\ active \in BOOLEAN /\ stopped \in BOOLEAN

CountsOK ==
    /\ inflight \subseteq [token : Int, id : Nat]
    /\ subscriptions \in Nat
    /\ handed \in Nat
    /\ undefined \in BOOLEAN
    /\ disruptions \in 0..MaxDisruptions

LEMMA Disrupted ==
    ASSUME CountsOK, Disrupt
    PROVE  disruptions' \in 0..MaxDisruptions
  BY DEF CountsOK, Disrupt

LEMMA UndefinedType ==
    ASSUME CountsOK, undefined' \in {undefined, TRUE}
    PROVE  undefined' \in BOOLEAN
  <1>1. undefined \in BOOLEAN
    BY DEF CountsOK
  <1> QED
    BY <1>1, Zenon

LEMMA NextNumber ==
    ASSUME NumbersOK, NEW r
    PROVE  NextSequence(SequenceFor(r)) \in 0 .. SequenceModulus - 1
  <1>1. SequenceFor(r) \in Nat
    BY DEF SequenceFor, NumbersOK
  <1>2. \A n \in Nat : (n + 1) % SequenceModulus \in 0 .. SequenceModulus - 1
    OBVIOUS
  <1> QED
    BY <1>1, <1>2 DEF NextSequence

LEMMA StateType ==
    ASSUME ClientOK, NEW s \in States, SetState(s)
    PROVE  state' \in States /\ primary' \in BOOLEAN
  BY DEF ClientOK, SetState

LEMMA QueueStepTypes ==
    ASSUME ClientOK, NumbersOK, CountsOK, ThreadsOK, NEW t \in Threads, QueueStep(t)
    PROVE  ClientOK' /\ NumbersOK' /\ CountsOK'
  <1> DEFINE r == thread[t].at
  <1>1. /\ thread[t].at \in Nat /\ thread[t].number \in Nat
        /\ NextSequence(SequenceFor(r)) \in 0 .. SequenceModulus - 1
    BY ThreadType, NextNumber
  <1>2. ClientOK'
    <2>1. /\ UNCHANGED <<bdSeq, will, activeEvent, active, stopped>>
          /\ UNCHANGED clientVars \/ \E s \in States : SetState(s)
          /\ link' \in {link, "down"} /\ told' \in {told, "DISCONNECTED"}
          /\ birthBdSeq' \in {birthBdSeq, bdSeq}
      BY DEF QueueStep, PublishFromQueue, ChooseRequest, TakeFront, Settle,
             ProcessRequest, EncodeRequest, SendAccepted, SendRefused,
             AssignToken, SendFailed, DumpQueue, Disconnected, Tell, clientVars,
             encodeVars, linkVars, nodeVars, States
    <2>2. state' \in States /\ primary' \in BOOLEAN
      BY <2>1, StateType DEF clientVars, ClientOK
    <2> QED
      BY <2>1, <2>2 DEF ClientOK
  <1>3. NumbersOK'
    <2>1. /\ payloadSequence' \in {payloadSequence, NextSequence(SequenceFor(r))}
          /\ lastToken' \in {lastToken, lastToken + 1}
      BY DEF QueueStep, PublishFromQueue, ChooseRequest, TakeFront, Settle,
             ProcessRequest, EncodeRequest, SendAccepted, SendRefused,
             AssignToken, SendFailed, DumpQueue, Disconnected, Tell, encodeVars,
             sendVars
    <2> QED
      BY <1>1, <2>1 DEF NumbersOK
  <1>4. CountsOK'
    <2>1. /\ subscriptions' \in {subscriptions, 0}
          /\ handed' \in {handed, thread[t].number}
          /\ undefined' \in {undefined, TRUE}
          /\ disruptions' = disruptions \/ Disrupt
      BY DEF QueueStep, PublishFromQueue, ChooseRequest, TakeFront, Settle,
             ProcessRequest, EncodeRequest, SendAccepted, SendRefused,
             AssignToken, SendFailed, DumpQueue, Disconnected, Tell, encodeVars,
             linkVars
    <2>2. inflight' \subseteq inflight \cup {[token |-> lastToken + 1, id |-> r]}
      BY DEF QueueStep, PublishFromQueue, ChooseRequest, TakeFront, Settle,
             ProcessRequest, EncodeRequest, SendAccepted, SendRefused,
             AssignToken, SendFailed, DumpQueue, Disconnected, Tell, sendVars
    <2>3. [token |-> lastToken + 1, id |-> r] \in [token : Int, id : Nat]
      BY <1>1 DEF NumbersOK
    <2>4. disruptions' \in 0..MaxDisruptions
      BY <2>1, Disrupted DEF CountsOK
    <2>5. inflight' \subseteq [token : Int, id : Nat]
      <3> DEFINE m == [token |-> lastToken + 1, id |-> r]
      <3>1. inflight \subseteq [token : Int, id : Nat]
        BY DEF CountsOK
      <3> HIDE DEF m
      <3> QED
        BY <2>2, <2>3, <3>1 DEF m
    <2>6. undefined' \in BOOLEAN
      BY <2>1, UndefinedType
    <2> QED
      BY <1>1, <2>1, <2>4, <2>5, <2>6 DEF CountsOK
  <1> QED
    BY <1>2, <1>3, <1>4

LEMMA NextTypes ==
    ASSUME ClientOK, NumbersOK, CountsOK, ThreadsOK, [Next]_vars
    PROVE  ClientOK' /\ NumbersOK' /\ CountsOK'
  <1>1. CASE QueueStep("node") \/ QueueStep("library")
    BY <1>1, QueueStepTypes DEF Threads
  <1>2. CASE NodeStep
    <2>1. /\ UNCHANGED <<encodeVars, bdSeq, linkVars, sendVars, nodeVars,
                         undefined, disruptions>>
          /\ UNCHANGED clientVars \/ SetState("CONNECTING")
      BY <1>2 DEF NodeStep, TakeRequest, CheckSize, Execute, ConnectReturns
    <2>2. state' \in States /\ primary' \in BOOLEAN
      BY <2>1, StateType DEF clientVars, ClientOK, States
    <2> QED
      BY <2>1, <2>2 DEF ClientOK, NumbersOK, CountsOK, encodeVars, linkVars,
                        sendVars, nodeVars
  <1>3. CASE AsyncStep /\ ~QueueStep("library")
    <2>1. ClientOK'
      <3>1. CASE AsyncStop
        BY <3>1 DEF AsyncStop, encodeVars, linkVars, ClientOK, States
      <3>2. CASE ~AsyncStop
        <4>1. /\ UNCHANGED <<bdSeq, active, stopped>>
              /\ \/ UNCHANGED clientVars
                 \/ state' = state /\ primary' = TRUE
                 \/ \E s \in States : SetState(s)
              /\ link' \in {link, "down", "connecting", "up"}
              /\ told' \in {told, "CONNECTED"}
              /\ will' \in {will, NoBdSeq} /\ birthBdSeq' \in {birthBdSeq, NoBdSeq}
              /\ activeEvent' \in {activeEvent, (activeEvent \/ primary)}
          BY <1>3, <3>2
             DEF AsyncStep, AsyncCallback, AsyncConnect, AsyncConnectRefused,
                 AsyncActivate, AsyncOnConnect, AsyncOnConnectFailure,
                 AsyncDisconnect, AsyncOnDisconnect, AsyncOnSubscription, AsyncOnDelivery,
                 AsyncOnDeliveryFailure, clientVars, encodeVars, linkVars,
                 nodeVars, States
        <4>2. state' \in States /\ primary' \in BOOLEAN
          BY <4>1, StateType DEF clientVars, ClientOK
        <4> QED
          BY <4>1, <4>2 DEF ClientOK
      <3> QED
        BY <3>1, <3>2
    <2>2. NumbersOK'
      BY <1>3
         DEF AsyncStep, AsyncCallback, AsyncConnect, AsyncConnectRefused,
             AsyncActivate, AsyncOnConnect, AsyncOnConnectFailure, AsyncStop,
             AsyncDisconnect, AsyncOnDisconnect, AsyncOnSubscription,
             AsyncOnDelivery, AsyncOnDeliveryFailure, encodeVars, sendVars,
             NumbersOK
    <2>3. CountsOK'
      <3>1. /\ \/ subscriptions' \in {subscriptions, 0, subscriptions + 1}
               \/ subscriptions > 0 /\ subscriptions' = subscriptions - 1
            /\ handed' = handed /\ undefined' \in {undefined, TRUE}
            /\ inflight' \subseteq inflight
            /\ disruptions' = disruptions \/ Disrupt
        BY <1>3
           DEF AsyncStep, AsyncCallback, AsyncConnect, AsyncConnectRefused,
               AsyncActivate, AsyncOnConnect, AsyncOnConnectFailure, AsyncStop,
               AsyncDisconnect, AsyncOnDisconnect, AsyncOnSubscription,
               AsyncOnDelivery, AsyncOnDeliveryFailure, encodeVars, sendVars,
               linkVars
      <3>2. disruptions' \in 0..MaxDisruptions
        BY <3>1, Disrupted DEF CountsOK
      <3>3. undefined' \in BOOLEAN
        BY <3>1, UndefinedType
      <3> QED
        BY <3>1, <3>2, <3>3 DEF CountsOK
    <2> QED
      BY <2>1, <2>2, <2>3
  <1>4. CASE SyncStep
    <2>1. ClientOK'
      <3>1. CASE SyncStop
        BY <3>1 DEF SyncStop, encodeVars, ClientOK, States
      <3>2. CASE ~SyncStop
        <4>1. /\ UNCHANGED <<bdSeq, active, stopped>>
              /\ \/ UNCHANGED clientVars
                 \/ state' = state /\ primary' = TRUE
                 \/ \E s \in States : SetState(s)
              /\ link' \in {link, "up"}
              /\ told' \in {told, "CONNECTED"}
              /\ will' \in {will, NoBdSeq} /\ birthBdSeq' \in {birthBdSeq, NoBdSeq}
              /\ activeEvent' \in {activeEvent, TRUE}
          BY <1>4, <3>2
             DEF SyncStep, SyncConnect, SyncConnectFailure, SyncWait, SyncPending,
                 SyncReceive, SyncActivate, BrokerAck, clientVars, encodeVars,
                 linkVars, nodeVars, States
        <4>2. state' \in States /\ primary' \in BOOLEAN
          BY <4>1, StateType DEF clientVars, ClientOK
        <4> QED
          BY <4>1, <4>2 DEF ClientOK
      <3> QED
        BY <3>1, <3>2
    <2>2. NumbersOK'
      BY <1>4
         DEF SyncStep, SyncConnect, SyncConnectFailure, SyncWait, SyncPending,
             SyncReceive, SyncActivate, SyncStop, BrokerAck, encodeVars, sendVars,
             NumbersOK
    <2>3. CountsOK'
      <3>1. /\ subscriptions' = subscriptions /\ handed' = handed
            /\ undefined' = undefined /\ inflight' \subseteq inflight
            /\ disruptions' = disruptions \/ Disrupt
        BY <1>4
           DEF SyncStep, SyncConnect, SyncConnectFailure, SyncWait, SyncPending,
               SyncReceive, SyncActivate, SyncStop, BrokerAck, encodeVars,
               sendVars, linkVars
      <3>2. disruptions' \in 0..MaxDisruptions
        BY <3>1, Disrupted DEF CountsOK
      <3>3. undefined' \in BOOLEAN
        BY <3>1, UndefinedType
      <3> QED
        BY <3>1, <3>2, <3>3 DEF CountsOK
    <2> QED
      BY <2>1, <2>2, <2>3
  <1>5. CASE CppStep
    <2>1. ClientOK'
      <3>1. CASE CppStop
        BY <3>1 DEF CppStop, encodeVars, ClientOK, States
      <3>2. CASE CppConfigure
        <4>1. IncrementBdSeq(bdSeq) \in BdSeqs
          BY DEF IncrementBdSeq, BdSeqs, ClientOK
        <4> QED
          BY <3>2, <4>1 DEF CppConfigure, encodeVars, linkVars, nodeVars,
                            clientVars, ClientOK
      <3>3. CASE ~CppStop /\ ~CppConfigure
        <4>1. /\ UNCHANGED <<bdSeq, active, stopped>>
              /\ \/ UNCHANGED clientVars
                 \/ state' = state /\ primary' = TRUE
                 \/ \E s \in States : SetState(s)
              /\ link' \in {link, "down", "connecting", "up"}
              /\ told' \in {told, "CONNECTED"}
              /\ will' \in {will, bdSeq} /\ birthBdSeq' \in {birthBdSeq, NoBdSeq}
              /\ activeEvent' \in
                   {activeEvent, (activeEvent \/ (primary /\ subscriptions = 1))}
          BY <1>5, <3>3
             DEF CppStep, CppConnect, CppConnectRefused, CppOnConnectionSuccess,
                 CppOnConnectionFailure, CppOnDisconnection, CppOnSubscribeResult,
                 CppSyncReturns, CppActivate, CppOnDeliveryComplete,
                 CppOnDeliveryFailure, clientVars, encodeVars, linkVars, nodeVars,
                 States
        <4>2. state' \in States /\ primary' \in BOOLEAN
          BY <4>1, StateType DEF clientVars, ClientOK
        <4> QED
          BY <4>1, <4>2 DEF ClientOK
      <3> QED
        BY <3>1, <3>2, <3>3
    <2>2. NumbersOK'
      BY <1>5
         DEF CppStep, CppConfigure, CppConnect, CppConnectRefused,
             CppOnConnectionSuccess, CppOnConnectionFailure, CppOnDisconnection,
             CppOnSubscribeResult, CppSyncReturns, CppActivate, CppStop,
             CppOnDeliveryComplete, CppOnDeliveryFailure, encodeVars, sendVars,
             NumbersOK
    <2>3. CountsOK'
      <3>1. /\ \/ subscriptions' \in {subscriptions, 0, subscriptions + 1}
               \/ subscriptions > 0 /\ subscriptions' = subscriptions - 1
            /\ handed' = handed /\ undefined' \in {undefined, TRUE}
            /\ inflight' \subseteq inflight
            /\ disruptions' = disruptions \/ Disrupt
        BY <1>5
           DEF CppStep, CppConfigure, CppConnect, CppConnectRefused,
               CppOnConnectionSuccess, CppOnConnectionFailure, CppOnDisconnection,
               CppOnSubscribeResult, CppSyncReturns, CppActivate, CppStop,
               CppOnDeliveryComplete, CppOnDeliveryFailure, encodeVars, sendVars,
               linkVars
      <3>2. disruptions' \in 0..MaxDisruptions
        BY <3>1, Disrupted DEF CountsOK
      <3>3. undefined' \in BOOLEAN
        BY <3>1, UndefinedType
      <3> QED
        BY <3>1, <3>2, <3>3 DEF CountsOK
    <2> QED
      BY <2>1, <2>2, <2>3
  <1>6. CASE BecomeActive \/ Deactivate \/ LinkLost \/ Undefined \/ UNCHANGED vars
    <2>1. disruptions' = disruptions \/ Disrupt
      BY <1>6 DEF BecomeActive, Deactivate, LinkLost, Undefined, vars
    <2>2. disruptions' \in 0..MaxDisruptions
      BY <2>1, Disrupted DEF CountsOK
    <2>3. ClientOK' /\ NumbersOK'
      BY <1>6 DEF BecomeActive, Deactivate, LinkLost, Undefined, vars, clientVars,
                  encodeVars, linkVars, sendVars, nodeVars, ClientOK, NumbersOK
    <2>4. CountsOK'
      BY <1>6, <2>2 DEF BecomeActive, Deactivate, LinkLost, Undefined, vars,
                        encodeVars, linkVars, sendVars, CountsOK
    <2> QED
      BY <2>3, <2>4
  <1> QED
    BY <1>1, <1>2, <1>3, <1>4, <1>5, <1>6 DEF Next

----------------------------------------------------------------------------
\* The invariant, and what follows from it.

IInv == QueueOK /\ ThreadsOK /\ ClientOK /\ NumbersOK /\ CountsOK

LEMMA InitIInv ==
    ASSUME Init
    PROVE  IInv
  <1>1. QueueOK
    <2>1. queue = <<>> /\ reported = <<>> /\ request = <<>>
      BY DEF Init
    <2>2. /\ Len(queue) = 0 /\ Len(reported) = 0 /\ Len(request) = 0
          /\ queue \in Seq(Nat) /\ reported \in Seq(Nat)
          /\ request \in Seq(RequestRecords)
      BY <2>1
    <2> QED
      BY <2>2 DEF QueueOK
  <1>2. ThreadsOK
    <2>1. Standing("idle") \in ThreadRecords /\ Standing("idle").pc = "idle"
          /\ Standing("idle").then = "idle"
      BY StandingType DEF Places
    <2>2. thread \in [Threads -> ThreadRecords]
          /\ \A t \in Threads : thread[t].pc = "idle" /\ thread[t].then = "idle"
      BY <2>1 DEF Init
    <2> QED
      BY <2>2 DEF Init, ThreadsOK, Pointing, Returns, Threads
  <1>3. ClientOK
    <2>1. bdSeq \in {0, 255} /\ will = NoBdSeq /\ birthBdSeq = NoBdSeq
      BY DEF Init
    <2>2. bdSeq \in BdSeqs
      BY <2>1 DEF BdSeqs
    <2>3. /\ state \in States /\ primary \in BOOLEAN /\ link = "down" /\ told = "never"
          /\ activeEvent \in BOOLEAN /\ active \in BOOLEAN /\ stopped \in BOOLEAN
      BY DEF Init, States
    <2> QED
      BY <2>1, <2>2, <2>3 DEF ClientOK
  <1>4. NumbersOK
    <2>1. 0 \in 0 .. SequenceModulus - 1
      OBVIOUS
    <2> QED
      BY <2>1 DEF Init, NumbersOK
  <1>5. CountsOK
    <2>1. SequenceModulus - 1 \in Nat /\ 0 \in 0..MaxDisruptions
      OBVIOUS
    <2> QED
      BY <2>1 DEF Init, CountsOK
  <1> QED
    BY <1>1, <1>2, <1>3, <1>4, <1>5 DEF IInv

LEMMA NextIInv ==
    ASSUME IInv, [Next]_vars
    PROVE  IInv'
  <1>1. QueueOK'
    BY NextEffect, QueueStays DEF IInv
  <1>2. ThreadsOK'
    BY NextThreads DEF IInv
  <1>3. ClientOK' /\ NumbersOK' /\ CountsOK'
    BY NextTypes DEF IInv
  <1> QED
    BY <1>1, <1>2, <1>3 DEF IInv

THEOREM Invariance == Spec => []IInv
  <1> QED
    BY InitIInv, NextIInv, PTL DEF Spec

\* Every variable keeps its type: among others the sequence numbers stay below
\* the modulus and no resend is counted past PUBLISH_RETRIES.
THEOREM TypeCorrect == Spec => []ClientsTypeOK
  <1>1. ASSUME IInv PROVE ClientsTypeOK
    BY <1>1 DEF IInv, QueueOK, ThreadsOK, ClientOK, NumbersOK, CountsOK,
                ClientsTypeOK
  <1> QED
    BY <1>1, Invariance, PTL

\* PublishQueue implements RequestQueue: each request handed to a client, of
\* whichever library, is reported at most once and in turn, or still waits.
THEOREM Refinement == Spec => ImplementsRequestQueue
  <1>1. ASSUME Init PROVE RQ!RQInit
    BY <1>1 DEF Init, RQ!RQInit
  <1>2. ASSUME IInv, [Next]_vars
        PROVE  [RQ!Take \/ RQ!ReportFront]_(RQ!rqVars)
    <2>1. Taken \/ Resolved \/ Written \/ Untouched
      BY <1>2, NextEffect DEF IInv
    <2>2. CASE Taken
      <3>1. Len(request) = Len(reported) + Len(queue)
        BY <1>2 DEF IInv, QueueOK
      <3> QED
        BY <2>2, <3>1 DEF Taken, RQ!Take
    <2>3. CASE Resolved
      BY <2>3 DEF Resolved, ReportFront, RQ!ReportFront
    <2>4. CASE Written \/ Untouched
      BY <2>4 DEF Written, Untouched, RQ!rqVars
    <2> QED
      BY <2>1, <2>2, <2>3, <2>4
  <1> QED
    BY <1>1, <1>2, Invariance, PTL DEF Spec, ImplementsRequestQueue, RQ!RQSpec

\* None leaves the queue without a report, or with two: those reported and those
\* waiting are all the requests, in the order they were handed over.
THEOREM RequestsInOrder == Spec => [](RQ!InOrder)
  <1>1. ASSUME IInv PROVE RQ!InOrder
    BY <1>1 DEF IInv, QueueOK, RQ!InOrder
  <1> QED
    BY <1>1, Invariance, PTL

----------------------------------------------------------------------------
\* Only the front request is handed over.

\* The requests behind the front have never been handed to the library.
Unsent ==
    \A r \in 1..Len(request) : r > Len(reported) + 1 => request[r].attempts = 0

LEMMA NextUnsent ==
    ASSUME QueueOK, Unsent, Taken \/ Resolved \/ Written \/ Untouched
    PROVE  Unsent'
  <1>1. Len(request) \in Nat /\ Len(reported) \in Nat
    BY LenProperties DEF QueueOK
  <1>2. CASE Taken
    <2> SUFFICES ASSUME NEW r \in 1..Len(request'), r > Len(reported') + 1
                 PROVE  request'[r].attempts = 0
      BY DEF Unsent
    <2>1. CASE r = Len(request) + 1
      BY <1>2, <2>1, TakenIs
    <2>2. CASE r # Len(request) + 1
      <3>1. Len(request') = Len(request) + 1 /\ reported' = reported
        BY <1>2, TakenIs DEF Taken
      <3>2. r \in 1..Len(request)
        BY <1>1, <2>2, <3>1
      <3> QED
        BY <1>2, <3>1, <3>2, TakenIs DEF Unsent
    <2> QED
      BY <2>1, <2>2
  <1>3. CASE Resolved
    <2>1. PICK o \in Outcomes \ {"none"} : queue # <<>> /\ ReportFront(o)
      BY <1>3 DEF Resolved
    <2>2. /\ Len(reported') = Len(reported) + 1
          /\ Len(request') = Len(request)
          /\ \A r \in 1..Len(request) :
                r # Len(reported) + 1 => request'[r] = request[r]
      BY <2>1, ReportedIs
    <2> QED
      BY <1>1, <2>2 DEF Unsent
  <1>4. CASE Written
    <2>1. PICK r \in 1..Len(request), x \in RequestRecords :
            r <= Len(reported) + 1 /\ request' = [request EXCEPT ![r] = x]
      BY <1>4 DEF Written
    <2>2. /\ Len(request') = Len(request) /\ reported' = reported
          /\ \A q \in 1..Len(request) : q # r => request'[q] = request[q]
      BY <1>4, <2>1, WrittenIs DEF Written
    <2> QED
      BY <1>1, <2>1, <2>2 DEF Unsent
  <1>5. CASE Untouched
    BY <1>5 DEF Unsent, Untouched
  <1> QED
    BY <1>2, <1>3, <1>4, <1>5

\* publishFromQueue: no request is handed to the library before its turn,
\* whichever threads are publishing.
THEOREM FrontOnly == Spec => []OnlyFrontIsSent
  <1>1. ASSUME Init PROVE Unsent
    BY <1>1 DEF Init, Unsent
  <1>2. ASSUME IInv, Unsent, [Next]_vars PROVE Unsent'
    BY <1>2, NextEffect, NextUnsent DEF IInv
  <1>3. ASSUME IInv, Unsent PROVE OnlyFrontIsSent
    <2> SUFFICES ASSUME NEW i \in 2..Len(queue)
                 PROVE  request[queue[i]].attempts = 0
      BY DEF OnlyFrontIsSent
    <2>1. Len(queue) \in Nat /\ Len(reported) \in Nat
      BY <1>3, LenProperties DEF IInv, QueueOK
    <2>2. queue[i] = Len(reported) + i /\ queue[i] \in 1..Len(request)
      BY <1>3, <2>1 DEF IInv, QueueOK
    <2> QED
      BY <1>3, <2>1, <2>2 DEF Unsent
  <1> QED
    BY <1>1, <1>2, <1>3, Invariance, PTL DEF Spec

----------------------------------------------------------------------------
\* The will and the births of a connection.

\* bdSeq is left alone while there is a link.
WillOK ==
    library = "CppMqtt" =>
        /\ link # "down" => bdSeq = will
        /\ IsConnected /\ birthBdSeq # NoBdSeq => birthBdSeq = will

LEMMA NextWill ==
    ASSUME WillOK, [Next]_vars
    PROVE  WillOK'
  <1>1. CASE /\ UNCHANGED <<library, bdSeq, will, birthBdSeq>>
             /\ link' \in {link, "down", "lost"}
             /\ link' # "down" => link # "down"
    BY <1>1 DEF WillOK, IsConnected
  <1>2. CASE NodeStep
    BY <1>2 DEF NodeStep, TakeRequest, CheckSize, Execute, ConnectReturns,
                encodeVars, linkVars, WillOK, IsConnected
  <1>3. ASSUME NEW t, QueueStep(t) PROVE WillOK'
    <2>1. CASE SendAccepted(t)
      BY <2>1 DEF SendAccepted, linkVars, WillOK, IsConnected
    <2>2. CASE Disconnected(t)
      BY <2>2 DEF Disconnected, encodeVars, WillOK, IsConnected
    <2>3. CASE Tell(t)
      BY <2>3 DEF Tell, encodeVars, linkVars, WillOK, IsConnected
    <2> QED
      BY <1>3, <2>1, <2>2, <2>3
         DEF QueueStep, PublishFromQueue, ChooseRequest, TakeFront, Settle,
             ProcessRequest, EncodeRequest, SendRefused, AssignToken, SendFailed,
             DumpQueue, encodeVars, linkVars, WillOK, IsConnected
  <1>4. CASE AsyncStep \/ SyncStep
    <2>1. CASE QueueStep("library")
      BY <1>3, <2>1
    <2>2. CASE ~QueueStep("library")
      <3>1. library # "CppMqtt" /\ library' = library
        BY <1>4, <2>2
           DEF AsyncStep, AsyncCallback, AsyncConnect, AsyncConnectRefused,
               AsyncActivate, AsyncStop, AsyncDisconnect, AsyncOnConnect,
               AsyncOnConnectFailure, AsyncOnDisconnect, AsyncOnSubscription,
               AsyncOnDelivery, AsyncOnDeliveryFailure, Quiet, IsAsync, SyncStep,
               SyncConnect, SyncConnectFailure, SyncWait, SyncPending,
               SyncReceive, SyncActivate, SyncStop, BrokerAck, IsSync
      <3> QED
        BY <3>1 DEF WillOK
    <2> QED
      BY <2>1, <2>2
  <1>5. CASE CppStep
    <2>1. CASE CppConfigure \/ CppConnect
      BY <2>1 DEF CppConfigure, CppConnect, encodeVars, linkVars, WillOK,
                  IsConnected
    <2>2. CASE CppOnConnectionSuccess
      BY <2>2 DEF CppOnConnectionSuccess, WillOK, IsConnected
    <2> QED
      BY <1>1, <1>5, <2>1, <2>2
         DEF CppStep, CppConnectRefused, CppOnConnectionFailure,
             CppOnDisconnection, CppOnSubscribeResult, CppSyncReturns,
             CppActivate, CppStop, CppOnDeliveryComplete, CppOnDeliveryFailure,
             encodeVars, linkVars, IsConnected
  <1>6. CASE BecomeActive \/ Deactivate \/ LinkLost \/ Undefined \/ UNCHANGED vars
    BY <1>1, <1>6 DEF BecomeActive, Deactivate, LinkLost, Undefined, vars,
                      encodeVars, linkVars, IsConnected
  <1> QED
    BY <1>2, <1>3, <1>4, <1>5, <1>6 DEF Next

\* SparkplugClient::getWillPayload, incrementBdSeq: whenever CppMqttClient
\* connects, is reconfigured or publishes a node's birth, the births of a
\* connection carry the bdSeq of its will.
THEOREM WillAgrees == Spec => []WillMatchesBirth
  <1>1. ASSUME Init PROVE WillOK
    BY <1>1 DEF Init, WillOK, IsConnected
  <1>2. ASSUME WillOK PROVE WillMatchesBirth
    BY <1>2 DEF WillOK, WillMatchesBirth
  <1> QED
    BY <1>1, <1>2, NextWill, PTL DEF Spec

----------------------------------------------------------------------------
\* What the node has been told.

LinkOK ==
    ~stopped =>
        /\ link \in {"down", "connecting"} /\ told = "CONNECTED" =>
              \E t \in Threads : thread[t].pc = "tell"
        /\ state = "DISCONNECTED" =>
              \/ link = "down"
              \/ link = "connecting" /\ thread["node"].pc = "connecting"
        /\ thread["node"].pc = "connect" => link = "down"
        /\ thread["node"].pc # "stopping"

\* What a thread's move says of where the node's thread is.
LEMMA NodeAt ==
    ASSUME ThreadsOK, NEW t \in Threads, NEW place \in Places, NEW then \in Returns
    PROVE  /\ t # "node" /\ (Goto(t, place) \/ Call(t, place, then) \/ Return(t))
                 => thread'["node"] = thread["node"]
           /\ Goto("node", place) \/ Call("node", place, then)
                 => thread'["node"].pc = place
           /\ Return("node") => thread'["node"].pc \in Returns
  <1>1. thread \in [Threads -> ThreadRecords] /\ "node" \in Threads
        /\ thread["node"].then \in Returns
    BY DEF ThreadsOK, Threads
  <1>2. thread["node"] \in ThreadRecords
    BY <1>1
  <1> QED
    BY <1>1, <1>2 DEF Goto, Call, Return, Standing, ThreadRecords

\* The node's thread neither comes to connect() or disconnect() nor leaves
\* connect().
NodeElsewhere ==
    \/ thread'["node"] = thread["node"]
    \/ thread["node"].pc # "connecting"
       /\ thread'["node"].pc \notin {"connect", "stopping"}

\* No thread that is about to report the loss of a connection moves.
TellStays ==
    \A t \in Threads : thread[t].pc = "tell" => thread'[t].pc = "tell"

\* Only a thread that is elsewhere moves.
LEMMA OthersMove ==
    ASSUME ThreadsOK, NEW t \in Threads, thread[t].pc # "tell",
           NEW place, NEW then,
           \/ thread' = thread
           \/ Goto(t, place) \/ Call(t, place, then) \/ Return(t)
           \/ RetryOrGiveUp(t, then)
    PROVE  TellStays
  <1>1. thread \in [Threads -> ThreadRecords]
    BY DEF ThreadsOK
  <1>2. \A u \in Threads : u # t => thread'[u] = thread[u]
    BY <1>1 DEF Goto, Call, Return, RetryOrGiveUp
  <1> QED
    BY <1>2 DEF TellStays

LEMMA RetryOrGiveUpNode ==
    ASSUME ThreadsOK, NEW t \in Threads, NEW then \in Returns,
           thread[t].pc # "connecting", RetryOrGiveUp(t, then)
    PROVE  NodeElsewhere
  <1>1. thread \in [Threads -> ThreadRecords] /\ "node" \in Threads
    BY DEF ThreadsOK, Threads
  <1>2. thread["node"] \in ThreadRecords
    BY <1>1
  <1> QED
    BY <1>1, <1>2 DEF RetryOrGiveUp, NodeElsewhere, Call, ThreadRecords

LEMMA QueueStepNode ==
    ASSUME ThreadsOK, NEW t \in Threads, QueueStep(t)
    PROVE  NodeElsewhere
  <1>1. thread \in [Threads -> ThreadRecords] /\ "node" \in Threads
        /\ thread["node"].then \in Returns /\ thread[t].then \in Returns
    BY DEF ThreadsOK, Threads
  <1>2. thread["node"] \in ThreadRecords
    BY <1>1
  <1>3. CASE PublishFromQueue(t) \/ ChooseRequest(t) \/ TakeFront(t) \/ Settle(t)
    BY <1>1, <1>2, <1>3
       DEF PublishFromQueue, ChooseRequest, TakeFront, Settle, At, Goto, Return,
           Standing, Returns, ThreadRecords, NodeElsewhere
  <1>4. CASE AssignToken(t) \/ DumpQueue(t) \/ Disconnected(t) \/ Tell(t)
    BY <1>1, <1>2, <1>4
       DEF AssignToken, Disconnected, Tell, DumpQueue, At, Goto, Return, Standing,
           Returns, ThreadRecords, NodeElsewhere
  <1>5. CASE ProcessRequest(t) \/ EncodeRequest(t) \/ SendAccepted(t)
    BY <1>1, <1>2, <1>5
       DEF ProcessRequest, EncodeRequest, SendAccepted, At, Goto, Return, Standing,
           Returns, ThreadRecords, NodeElsewhere
  <1>6. CASE SendRefused(t)
    BY <1>1, <1>2, <1>6
       DEF SendRefused, At, Goto, Return, Standing, Returns, ThreadRecords,
           NodeElsewhere
  <1>7. CASE SendFailed(t)
    BY <1>1, <1>7, RetryOrGiveUpNode DEF SendFailed, At
  <1> QED
    BY <1>3, <1>4, <1>5, <1>6, <1>7 DEF QueueStep

LEMMA QueueStepTell ==
    ASSUME ThreadsOK, NEW t \in Threads, QueueStep(t), ~Tell(t)
    PROVE  TellStays
  <1>1. thread \in [Threads -> ThreadRecords]
    BY DEF ThreadsOK
  <1>2. thread[t].pc # "tell"
    BY DEF QueueStep, PublishFromQueue, ChooseRequest, TakeFront, Settle,
           ProcessRequest, EncodeRequest, SendAccepted, SendRefused, AssignToken,
           SendFailed, DumpQueue, Disconnected, At
  <1>3. \A u \in Threads : u # t => thread'[u] = thread[u]
    BY <1>1
       DEF QueueStep, PublishFromQueue, ChooseRequest, TakeFront, Settle,
           ProcessRequest, EncodeRequest, SendAccepted, SendRefused, AssignToken,
           SendFailed, RetryOrGiveUp, DumpQueue, Disconnected, Goto, Call, Return
  <1> QED
    BY <1>2, <1>3 DEF TellStays

LEMMA LinkKept ==
    ASSUME LinkOK, UNCHANGED <<told, stopped>>,
           link' = link \/ (link = "up" /\ link' = "lost"),
           state' = "DISCONNECTED" => state = "DISCONNECTED",
           NodeElsewhere, TellStays
    PROVE  LinkOK'
  <1>1. (\E t \in Threads : thread[t].pc = "tell")
           => \E t \in Threads : thread'[t].pc = "tell"
    BY DEF TellStays
  <1> QED
    BY <1>1 DEF LinkOK, NodeElsewhere

LEMMA NextLink ==
    ASSUME ThreadsOK, LinkOK, [Next]_vars
    PROVE  LinkOK'
  <1>1. /\ thread \in [Threads -> ThreadRecords] /\ "node" \in Threads
        /\ "library" \in Threads
        /\ thread["node"].then \in Returns
    BY DEF ThreadsOK, Threads
  <1>2. thread["node"] \in ThreadRecords
    BY <1>1
  <1>3. CASE NodeStep
    <2>1. UNCHANGED <<told, stopped, link>>
      BY <1>3 DEF NodeStep, TakeRequest, CheckSize, Execute, ConnectReturns,
                  linkVars, nodeVars
    <2>2. /\ thread["node"].pc # "tell"
          /\ \E place, then : Goto("node", place) \/ Call("node", place, then)
      BY <1>3 DEF NodeStep, TakeRequest, CheckSize, Execute, ConnectReturns, At
    <2>3. TellStays
      BY <1>1, <2>2, OthersMove
    <2>4. CASE ConnectReturns
      <3>1. /\ thread["node"].pc = "connecting"
            /\ thread'["node"].pc \in {"idle", "wait", "sync"}
            /\ state' = "CONNECTING"
        BY <1>1, <1>2, <2>4 DEF ConnectReturns, At, SetState, Goto, ThreadRecords
      <3> QED
        BY <2>1, <2>3, <3>1 DEF LinkOK, TellStays
    <2>5. CASE Execute
      <3>1. /\ thread["node"].pc = "idle" /\ state' = state
            /\ thread'["node"].pc \in {"connect", "idle", "wait", "sync"}
            /\ thread'["node"].pc = "connect" => state = "DISCONNECTED"
        BY <1>1, <1>2, <2>5 DEF Execute, At, Goto, ThreadRecords, clientVars
      <3> QED
        BY <2>1, <2>3, <3>1 DEF LinkOK, TellStays
    <2>6. CASE ~ConnectReturns /\ ~Execute
      <3>1. /\ thread["node"].pc # "connecting" /\ state' = state
            /\ \/ Goto("node", "taken") \/ Goto("node", "idle")
               \/ Call("node", "publish", "idle")
        BY <1>3, <2>6 DEF NodeStep, TakeRequest, CheckSize, At, clientVars
      <3>2. thread'["node"].pc \notin {"connect", "stopping"}
        BY <1>1, <1>2, <3>1 DEF Goto, Call, ThreadRecords
      <3> QED
        BY <2>1, <2>3, <3>1, <3>2, LinkKept DEF NodeElsewhere
    <2> QED
      BY <2>4, <2>5, <2>6
  <1>4. ASSUME NEW t \in Threads, QueueStep(t) PROVE LinkOK'
    <2>1. NodeElsewhere
      BY <1>4, QueueStepNode
    <2>2. CASE Disconnected(t)
      <3>1. thread'[t].pc = "tell"
        <4>1. thread[t] \in ThreadRecords
          BY <1>1
        <4> QED
          BY <1>1, <2>2, <4>1 DEF Disconnected, Goto, ThreadRecords
      <3> QED
        BY <2>1, <2>2, <3>1 DEF Disconnected, nodeVars, LinkOK, NodeElsewhere
    <2>3. CASE Tell(t)
      BY <2>1, <2>3 DEF Tell, clientVars, linkVars, LinkOK, NodeElsewhere
    <2>4. CASE ~Disconnected(t) /\ ~Tell(t)
      <3>1. /\ UNCHANGED <<told, stopped, link>>
            /\ state' = "DISCONNECTED" => state = "DISCONNECTED"
        BY <1>4, <2>4
           DEF QueueStep, PublishFromQueue, ChooseRequest, TakeFront, Settle,
               ProcessRequest, EncodeRequest, SendAccepted, SendRefused,
               AssignToken, SendFailed, DumpQueue, SetState, clientVars, linkVars,
               nodeVars
      <3> QED
        BY <1>4, <2>1, <2>4, <3>1, QueueStepTell, LinkKept
    <2> QED
      BY <2>2, <2>3, <2>4
  <1>5. CASE AsyncStep
    <2>1. CASE AsyncConnect \/ AsyncConnectRefused \/ AsyncStop \/ AsyncDisconnect
      <3>1. TellStays
        <4>1. /\ thread["node"].pc # "tell"
              /\ \E place : Goto("node", place)
          BY <2>1 DEF AsyncConnect, AsyncConnectRefused, AsyncStop,
                      AsyncDisconnect, At
        <4> QED
          BY <1>1, <4>1, OthersMove
      <3>2. CASE AsyncConnect \/ AsyncConnectRefused
        <4>1. /\ thread["node"].pc = "connect" /\ thread'["node"].pc = "connecting"
              /\ state' = "CONNECTING" /\ link' \in {link, "connecting"}
              /\ UNCHANGED <<told, stopped>>
          BY <1>1, <1>2, <3>2
             DEF AsyncConnect, AsyncConnectRefused, At, SetState, Goto, linkVars,
                 nodeVars, ThreadRecords
        <4> QED
          BY <3>1, <4>1 DEF LinkOK, TellStays
      <3>3. CASE AsyncStop
        BY <3>3 DEF AsyncStop, LinkOK
      <3>4. CASE AsyncDisconnect
        BY <3>4 DEF AsyncDisconnect, At, nodeVars, LinkOK
      <3> QED
        BY <2>1, <3>2, <3>3, <3>4
    <2>2. CASE AsyncOnConnect \/ AsyncOnConnectFailure
      <3>1. /\ thread' = thread /\ stopped' = stopped /\ link = "connecting"
            /\ \/ link' = "up" /\ state' = "CONNECTED"
               \/ link' = "down" /\ told' = told
        BY <2>2 DEF AsyncOnConnect, AsyncOnConnectFailure, SetState, nodeVars
      <3> QED
        BY <3>1 DEF LinkOK
    <2>3. CASE \/ AsyncOnDisconnect \/ AsyncActivate \/ AsyncOnSubscription
               \/ \E m \in inflight : AsyncOnDelivery(m) \/ AsyncOnDeliveryFailure(m)
      <3>1. UNCHANGED <<state, told, stopped, link>>
        BY <2>3 DEF AsyncOnDisconnect, AsyncActivate, AsyncOnSubscription,
                    AsyncOnDelivery, AsyncOnDeliveryFailure, clientVars, linkVars,
                    nodeVars
      <3>2. \/ thread' = thread
            \/ /\ thread["library"].pc = "idle"
               /\ \/ \E place, then : Call("library", place, then)
                  \/ RetryOrGiveUp("library", "idle")
        BY <2>3 DEF AsyncOnDisconnect, AsyncActivate, AsyncOnSubscription,
                    AsyncOnDelivery, AsyncOnDeliveryFailure, Quiet
      <3>3. TellStays
        BY <1>1, <3>2, OthersMove DEF TellStays
      <3>4. NodeElsewhere
        BY <1>1, <3>2 DEF RetryOrGiveUp, Call, NodeElsewhere
      <3> QED
        BY <3>1, <3>3, <3>4, LinkKept
    <2> QED
      BY <1>1, <1>4, <1>5, <2>1, <2>2, <2>3 DEF AsyncStep, AsyncCallback
  <1>6. CASE SyncStep
    <2>1. CASE SyncConnect \/ SyncConnectFailure
      <3>1. TellStays
        <4>1. /\ thread["node"].pc # "tell"
              /\ \E place, then : Goto("node", place) \/ Call("node", place, then)
          BY <2>1 DEF SyncConnect, SyncConnectFailure, At
        <4> QED
          BY <1>1, <4>1, OthersMove
      <3>2. /\ thread["node"].pc = "connect"
            /\ thread'["node"].pc \in {"connecting", "dump"}
            /\ stopped' = stopped /\ state' # "DISCONNECTED"
            /\ link' = "up" \/ (link' = link /\ told' = told)
        BY <1>1, <1>2, <2>1
           DEF SyncConnect, SyncConnectFailure, At, SetState, Goto, Call,
               linkVars, nodeVars, ThreadRecords
      <3> QED
        BY <3>1, <3>2 DEF LinkOK, TellStays
    <2>2. CASE SyncStop
      BY <2>2 DEF SyncStop, LinkOK
    <2>3. CASE \/ SyncWait \/ SyncPending \/ SyncReceive \/ SyncActivate
               \/ \E m \in inflight : BrokerAck(m)
      <3>1. UNCHANGED <<state, told, stopped, link>>
        BY <2>3 DEF SyncWait, SyncPending, SyncReceive, SyncActivate, BrokerAck,
                    clientVars, linkVars, nodeVars
      <3>2. NodeElsewhere
        BY <1>1, <1>2, <2>3
           DEF SyncWait, SyncPending, SyncReceive, SyncActivate, BrokerAck, At,
               Goto, Call, ThreadRecords, NodeElsewhere
      <3>3. TellStays
        <4>1. \/ thread' = thread
              \/ /\ thread["node"].pc # "tell"
                 /\ \E place, then : Goto("node", place) \/ Call("node", place, then)
          BY <2>3 DEF SyncWait, SyncPending, SyncReceive, SyncActivate, BrokerAck, At
        <4> QED
          BY <1>1, <4>1, OthersMove DEF TellStays
      <3> QED
        BY <3>1, <3>2, <3>3, LinkKept
    <2> QED
      BY <1>6, <2>1, <2>2, <2>3 DEF SyncStep
  <1>7. CASE CppStep
    <2>1. CASE CppConnect \/ CppConnectRefused
      <3>1. TellStays
        <4>1. thread["node"].pc # "tell" /\ \E place : Goto("node", place)
          BY <2>1 DEF CppConnect, CppConnectRefused, At
        <4> QED
          BY <1>1, <4>1, OthersMove
      <3>2. /\ thread["node"].pc = "connect" /\ UNCHANGED <<told, stopped>>
            /\ \/ thread'["node"].pc = "connecting" /\ link' = "connecting"
               \/ thread'["node"].pc = "sync" /\ link' = link
        BY <1>1, <1>2, <2>1
           DEF CppConnect, CppConnectRefused, At, Goto, linkVars, nodeVars,
               ThreadRecords
      <3> QED
        BY <3>1, <3>2 DEF LinkOK, TellStays
    <2>2. CASE CppOnConnectionSuccess \/ CppOnConnectionFailure
      <3>1. /\ thread' = thread /\ stopped' = stopped /\ link = "connecting"
            /\ \/ link' = "up" /\ state' = "CONNECTED"
               \/ link' = "down" /\ told' = told
        BY <2>2 DEF CppOnConnectionSuccess, CppOnConnectionFailure, SetState, nodeVars
      <3> QED
        BY <3>1 DEF LinkOK
    <2>3. CASE CppStop
      BY <2>3 DEF CppStop, LinkOK
    <2>4. CASE \/ CppConfigure \/ CppOnDisconnection \/ CppOnSubscribeResult
               \/ CppSyncReturns \/ CppActivate
               \/ \E m \in inflight : CppOnDeliveryComplete(m) \/ CppOnDeliveryFailure(m)
      <3>1. UNCHANGED <<state, told, stopped, link>>
        BY <2>4 DEF CppConfigure, CppOnDisconnection, CppOnSubscribeResult,
                    CppSyncReturns, CppActivate, CppOnDeliveryComplete,
                    CppOnDeliveryFailure, clientVars, linkVars, nodeVars
      <3>2. \/ thread' = thread
            \/ /\ thread["node"].pc = "sync"
               /\ \/ Goto("node", "idle") \/ Call("node", "dump", "sync")
                  \/ Call("node", "publish", "sync") \/ RetryOrGiveUp("node", "sync")
        BY <2>4 DEF CppConfigure, CppOnDisconnection, CppOnSubscribeResult,
                    CppSyncReturns, CppActivate, CppOnDeliveryComplete,
                    CppOnDeliveryFailure, InSync, At
      <3>3. TellStays
        BY <1>1, <3>2, OthersMove DEF TellStays
      <3>4. CASE RetryOrGiveUp("node", "sync") /\ thread["node"].pc = "sync"
        BY <1>1, <3>1, <3>3, <3>4, RetryOrGiveUpNode, LinkKept DEF Returns
      <3>5. CASE ~(RetryOrGiveUp("node", "sync") /\ thread["node"].pc = "sync")
        <4>1. NodeElsewhere
          BY <1>1, <1>2, <3>2, <3>5 DEF Goto, Call, ThreadRecords, NodeElsewhere
        <4> QED
          BY <3>1, <3>3, <4>1, LinkKept
      <3> QED
        BY <3>4, <3>5
    <2> QED
      BY <1>7, <2>1, <2>2, <2>3, <2>4 DEF CppStep
  <1>8. CASE BecomeActive \/ Deactivate \/ LinkLost \/ Undefined \/ UNCHANGED vars
    <2>1. /\ UNCHANGED <<told, stopped, thread, state>>
          /\ link' = link \/ (link = "up" /\ link' = "lost")
      BY <1>8 DEF BecomeActive, Deactivate, LinkLost, Undefined, vars, clientVars,
                  linkVars, nodeVars, IsConnected
    <2> QED
      BY <2>1, LinkKept DEF NodeElsewhere, TellStays
  <1> QED
    BY <1>1, <1>3, <1>4, <1>5, <1>6, <1>7, <1>8 DEF Next

\* SparkplugClient::disconnected: a client without a connection that the node
\* believes is connected has a thread between the assignment of the state and
\* the event, however connect(), the callbacks and the loss of the link are
\* interleaved.
THEOREM ToldWhenDisconnected == Spec => []NodeIsTold
  <1>1. ASSUME Init PROVE LinkOK
    BY <1>1 DEF Init, LinkOK, Threads, Standing
  <1>2. ASSUME IInv, LinkOK, [Next]_vars PROVE LinkOK'
    BY <1>2, NextLink DEF IInv
  <1>3. ASSUME LinkOK PROVE NodeIsTold
    BY <1>3 DEF LinkOK, NodeIsTold
  <1> QED
    BY <1>1, <1>2, <1>3, Invariance, PTL DEF Spec

----------------------------------------------------------------------------
\* What becomes of the requests, in more detail.

GivenUp == queue # <<>> /\ ReportFront("UNDELIVERED")

Confirmed ==
    /\ queue # <<>> /\ ReportFront("DELIVERED")
    /\ library = "PahoSync" \/ \E m \in inflight : m.token = request[Head(queue)].token

Resent ==
    /\ queue # <<>>
    /\ request' = [request EXCEPT ![Head(queue)].retryCount =
                                    request[Head(queue)].retryCount + 1]
    /\ UNCHANGED <<queue, reported>>

Sending(t) == SendAccepted(t) \/ SendRefused(t) \/ AssignToken(t)

\* Each step does one of these.
RequestStep ==
    \/ Taken \/ GivenUp \/ Confirmed \/ Resent \/ Untouched
    \/ \E t \in Threads : Sending(t)

LEMMA QueueStepRequests ==
    ASSUME QueueOK, ThreadsOK, NEW t \in Threads, QueueStep(t)
    PROVE  RequestStep
  <1>1. CASE \/ PublishFromQueue(t) \/ ChooseRequest(t) \/ TakeFront(t) \/ Settle(t)
             \/ ProcessRequest(t) \/ EncodeRequest(t) \/ Disconnected(t) \/ Tell(t)
    BY <1>1 DEF PublishFromQueue, ChooseRequest, TakeFront, Settle,
                ProcessRequest, EncodeRequest, Disconnected, Tell, queueVars,
                Untouched, RequestStep
  <1>2. CASE DumpQueue(t)
    BY <1>2 DEF DumpQueue, GivenUp, queueVars, Untouched, RequestStep
  <1>3. CASE SendFailed(t)
    BY <1>3, SendFailedEffect DEF SendFailed, RetryOrGiveUp, GivenUp, Resent,
                                  RequestStep
  <1> QED
    BY <1>1, <1>2, <1>3 DEF QueueStep, Sending, RequestStep

LEMMA NextRequests ==
    ASSUME QueueOK, ThreadsOK, [Next]_vars
    PROVE  RequestStep
  <1>1. CASE NodeStep
    <2>1. CASE CheckSize \/ Execute \/ ConnectReturns
      BY <2>1 DEF CheckSize, Execute, ConnectReturns, queueVars, Untouched,
                  RequestStep
    <2> QED
      BY <1>1, <2>1, TakeRequestEffect DEF NodeStep, RequestStep
  <1>2. CASE QueueStep("node") \/ QueueStep("library")
    BY <1>2, QueueStepRequests DEF Threads
  <1>3. CASE \E m \in inflight : AsyncOnDelivery(m) \/ CppOnDeliveryComplete(m)
    BY <1>3 DEF AsyncOnDelivery, CppOnDeliveryComplete, Confirmed, queueVars,
                Untouched, RequestStep
  <1>4. CASE \E m \in inflight : AsyncOnDeliveryFailure(m) \/ CppOnDeliveryFailure(m)
    BY <1>4 DEF AsyncOnDeliveryFailure, CppOnDeliveryFailure, RetryOrGiveUp,
                GivenUp, Resent, queueVars, Untouched, RequestStep
  <1>5. CASE AsyncStep
    <2>1. CASE \/ AsyncConnect \/ AsyncConnectRefused \/ AsyncActivate \/ AsyncStop
               \/ AsyncDisconnect
               \/ AsyncOnConnect \/ AsyncOnConnectFailure \/ AsyncOnDisconnect
               \/ AsyncOnSubscription
      BY <2>1 DEF AsyncConnect, AsyncConnectRefused, AsyncActivate, AsyncStop,
                  AsyncDisconnect, AsyncOnConnect, AsyncOnConnectFailure,
                  AsyncOnDisconnect, AsyncOnSubscription, queueVars, Untouched,
                  RequestStep
    <2> QED
      BY <1>2, <1>3, <1>4, <1>5, <2>1 DEF AsyncStep, AsyncCallback
  <1>6. CASE SyncStep
    <2>1. CASE \/ SyncConnect \/ SyncConnectFailure \/ SyncPending \/ SyncReceive
               \/ SyncActivate \/ SyncStop \/ \E m \in inflight : BrokerAck(m)
      BY <2>1 DEF SyncConnect, SyncConnectFailure, SyncPending, SyncReceive,
                  SyncActivate, SyncStop, BrokerAck, queueVars, Untouched,
                  RequestStep
    <2>2. CASE SyncWait
      BY <2>2 DEF SyncWait, IsSync, Confirmed, queueVars, Untouched, RequestStep
    <2> QED
      BY <1>6, <2>1, <2>2 DEF SyncStep
  <1>7. CASE CppStep
    <2>1. CASE \/ CppConfigure \/ CppConnect \/ CppConnectRefused
               \/ CppOnConnectionSuccess \/ CppOnConnectionFailure
               \/ CppOnDisconnection \/ CppOnSubscribeResult \/ CppSyncReturns
               \/ CppActivate \/ CppStop
      BY <2>1 DEF CppConfigure, CppConnect, CppConnectRefused,
                  CppOnConnectionSuccess, CppOnConnectionFailure,
                  CppOnDisconnection, CppOnSubscribeResult, CppSyncReturns,
                  CppActivate, CppStop, queueVars, Untouched, RequestStep
    <2> QED
      BY <1>3, <1>4, <1>7, <2>1 DEF CppStep
  <1>8. CASE BecomeActive \/ Deactivate \/ LinkLost \/ Undefined \/ UNCHANGED vars
    BY <1>8 DEF BecomeActive, Deactivate, LinkLost, Undefined, vars, queueVars,
                Untouched, RequestStep
  <1> QED
    BY <1>1, <1>2, <1>5, <1>6, <1>7, <1>8 DEF Next

\* Reporting the front request changes its outcome only.
LEMMA ReportedFields ==
    ASSUME QueueOK, queue # <<>>, NEW o \in Outcomes \ {"none"}, ReportFront(o),
           NEW r \in 1..Len(request)
    PROVE  /\ Len(request') = Len(request)
           /\ r # Len(reported) + 1 => request'[r] = request[r]
           /\ request'[r].sent = request[r].sent
           /\ request'[r].token = request[r].token
           /\ request'[r].attempts = request[r].attempts
           /\ request'[r].retryCount = request[r].retryCount
           /\ request'[r].outcome \in {request[r].outcome, o}
  <1>1. request[r] \in RequestRecords
    BY ElementOfSeq DEF QueueOK
  <1>2. /\ Len(request') = Len(request)
        /\ request'[r] = IF r = Len(reported) + 1 THEN [request[r] EXCEPT !.outcome = o]
                         ELSE request[r]
    BY ReportedIs
  <1> QED
    BY <1>1, <1>2 DEF RequestRecords

\* Resending it changes its retryCount only.
LEMMA ResentFields ==
    ASSUME QueueOK, Resent, NEW r \in 1..Len(request)
    PROVE  /\ Len(request') = Len(request)
           /\ r # Len(reported) + 1 => request'[r] = request[r]
           /\ request'[r].sent = request[r].sent
           /\ request'[r].token = request[r].token
           /\ request'[r].attempts = request[r].attempts
           /\ r = Len(reported) + 1 => request'[r].retryCount = request[r].retryCount + 1
           /\ request'[r].outcome = request[r].outcome
  <1> DEFINE h == Head(queue)
             x == [request[h] EXCEPT !.retryCount = request[h].retryCount + 1]
  <1>1. request[r] \in RequestRecords
    BY ElementOfSeq DEF QueueOK
  <1>2. h = Len(reported) + 1 /\ h \in 1..Len(request) /\ request[h] \in RequestRecords
    BY FrontIsNext DEF Resent
  <1>3. request' = [request EXCEPT ![h] = x] /\ request \in Seq(RequestRecords)
    BY DEF Resent, QueueOK
  <1>4. /\ Len(request') = Len(request)
        /\ r # h => request'[r] = request[r]
        /\ r = h => request'[r] = x
    <2> HIDE DEF h, x
    <2> QED
      BY <1>2, <1>3
  <1>5. /\ r # Len(reported) + 1 => request'[r] = request[r]
        /\ r = Len(reported) + 1 =>
              request'[r] = [request[r] EXCEPT !.retryCount = request[r].retryCount + 1]
    BY <1>2, <1>4
  <1> QED
    BY <1>1, <1>4, <1>5 DEF RequestRecords

\* Sending and assigning a token change the request the thread points to.
LEMMA WriteAt ==
    ASSUME QueueOK, ThreadsOK, NEW t \in Threads, thread[t].pc \in Pointing,
           NEW x, request' = [request EXCEPT ![thread[t].at] = x],
           NEW r \in 1..Len(request)
    PROVE  /\ Len(request') = Len(request)
           /\ r # thread[t].at => request'[r] = request[r]
           /\ r = thread[t].at => request'[r] = x
  <1> DEFINE at == thread[t].at
  <1>1. at \in 1..Len(request) /\ request \in Seq(RequestRecords)
    BY DEF ThreadsOK, QueueOK
  <1> HIDE DEF at
  <1> QED
    BY <1>1 DEF at

LEMMA AcceptedFields ==
    ASSUME QueueOK, ThreadsOK, NEW t \in Threads, SendAccepted(t), ~Dangles(thread[t].at),
           NEW r \in 1..Len(request)
    PROVE  /\ Len(request') = Len(request)
           /\ r # thread[t].at => request'[r] = request[r]
           /\ request'[r].outcome = request[r].outcome
           /\ request'[r].retryCount = request[r].retryCount
           /\ r = thread[t].at => request'[r].sent = TRUE
                                  /\ request'[r].attempts = request[r].attempts + 1
  <1> DEFINE y == request[thread[t].at]
             x == [y EXCEPT !.attempts = y.attempts + 1, !.sent = TRUE]
  <1>1. request' = [request EXCEPT ![thread[t].at] = x] /\ thread[t].pc \in Pointing
    BY DEF SendAccepted, At, Pointing
  <1>2. /\ Len(request') = Len(request)
        /\ r # thread[t].at => request'[r] = request[r]
        /\ r = thread[t].at => request'[r] = x
    <2> HIDE DEF x
    <2> QED
      BY <1>1, WriteAt
  <1>3. request[r] \in RequestRecords
    BY ElementOfSeq DEF QueueOK
  <1> QED
    BY <1>2, <1>3 DEF RequestRecords

LEMMA RefusedFields ==
    ASSUME QueueOK, ThreadsOK, NEW t \in Threads, SendRefused(t), ~Dangles(thread[t].at),
           NEW r \in 1..Len(request)
    PROVE  /\ Len(request') = Len(request)
           /\ r # thread[t].at => request'[r] = request[r]
           /\ request'[r].outcome = request[r].outcome
           /\ request'[r].retryCount = request[r].retryCount
           /\ request'[r].sent = request[r].sent
           /\ request'[r].token \in {request[r].token, NoToken}
           /\ r = thread[t].at => request'[r].attempts = request[r].attempts + 1
  <1> DEFINE y == request[thread[t].at]
             token == IF library = "CppMqtt" THEN NoToken ELSE y.token
             x == [y EXCEPT !.attempts = y.attempts + 1, !.token = token]
  <1>1. request' = [request EXCEPT ![thread[t].at] = x] /\ thread[t].pc \in Pointing
    BY DEF SendRefused, At, Pointing
  <1>2. /\ Len(request') = Len(request)
        /\ r # thread[t].at => request'[r] = request[r]
        /\ r = thread[t].at => request'[r] = x
    <2> HIDE DEF x
    <2> QED
      BY <1>1, WriteAt
  <1>3. request[r] \in RequestRecords
    BY ElementOfSeq DEF QueueOK
  <1>4. token \in {y.token, NoToken}
    OBVIOUS
  <1> HIDE DEF token
  <1> QED
    BY <1>2, <1>3, <1>4 DEF RequestRecords

LEMMA AssignedFields ==
    ASSUME QueueOK, ThreadsOK, NEW t \in Threads, AssignToken(t), ~Dangles(thread[t].at),
           NEW r \in 1..Len(request)
    PROVE  /\ Len(request') = Len(request)
           /\ r # thread[t].at => request'[r] = request[r]
           /\ request'[r].outcome = request[r].outcome
           /\ request'[r].retryCount = request[r].retryCount
           /\ request'[r].sent = request[r].sent
           /\ request'[r].attempts = request[r].attempts
  <1> DEFINE y == request[thread[t].at]
             x == [y EXCEPT !.token = thread[t].token]
  <1>1. request' = [request EXCEPT ![thread[t].at] = x] /\ thread[t].pc \in Pointing
    BY DEF AssignToken, At, Pointing
  <1>2. /\ Len(request') = Len(request)
        /\ r # thread[t].at => request'[r] = request[r]
        /\ r = thread[t].at => request'[r] = x
    <2> HIDE DEF x
    <2> QED
      BY <1>1, WriteAt
  <1>3. request[r] \in RequestRecords
    BY ElementOfSeq DEF QueueOK
  <1> QED
    BY <1>2, <1>3 DEF RequestRecords

\* A thread that points to no request it could use leaves them all alone.
LEMMA DanglingUntouched ==
    ASSUME NEW t, Sending(t), Dangles(thread[t].at)
    PROVE  request' = request /\ inflight' = inflight /\ thread' = thread
  BY DEF Sending, SendAccepted, SendRefused, AssignToken, sendVars

----------------------------------------------------------------------------
\* A request that is reported as delivered was sent.

\* Where a token is assigned, one was given by the library.
AssignStep(t) ==
    thread'[t].pc = "assign" =>
        /\ thread'[t].at = thread[t].at
        /\ thread[t].pc = "assign" \/ (SendAccepted(t) /\ ~Dangles(thread[t].at))

LEMMA GoneNoAssign ==
    ASSUME ThreadsOK, NEW t \in Threads, NEW u \in Threads,
           \/ thread' = thread \/ Elsewhere(u)
           \/ \E then \in Returns : RetryOrGiveUp(u, then)
    PROVE  AssignStep(t)
  <1>1. /\ thread \in [Threads -> ThreadRecords] /\ thread[t] \in ThreadRecords
        /\ thread[u] \in ThreadRecords /\ thread[u].then \in Returns
    BY DEF ThreadsOK
  <1>2. CASE thread' = thread
    BY <1>2 DEF AssignStep
  <1>3. CASE Elsewhere(u)
    <2>1. PICK place \in Places \ Inside, then \in Returns :
            Goto(u, place) \/ Call(u, place, then) \/ Return(u)
      BY <1>3 DEF Elsewhere
    <2>2. place # "assign" /\ \A p \in Returns : p # "assign"
      BY <2>1 DEF Inside, Pointing, Returns
    <2>3. CASE Goto(u, place)
      BY <1>1, <2>2, <2>3 DEF Goto, AssignStep, ThreadRecords
    <2>4. CASE Call(u, place, then)
      BY <1>1, <2>2, <2>4 DEF Call, AssignStep, ThreadRecords
    <2>5. CASE Return(u)
      BY <1>1, <2>2, <2>5 DEF Return, Standing, AssignStep
    <2> QED
      BY <2>1, <2>3, <2>4, <2>5
  <1>4. CASE \E then \in Returns : RetryOrGiveUp(u, then)
    BY <1>1, <1>4 DEF AssignStep, RetryOrGiveUp, Call, ThreadRecords
  <1> QED
    BY <1>2, <1>3, <1>4

LEMMA QueueStepAssign ==
    ASSUME ThreadsOK, NEW t \in Threads, NEW u \in Threads, QueueStep(u)
    PROVE  AssignStep(t)
  <1>1. /\ thread \in [Threads -> ThreadRecords] /\ thread[t] \in ThreadRecords
        /\ thread[u] \in ThreadRecords /\ thread[u].then \in Returns
    BY DEF ThreadsOK
  <1>2. CASE PublishFromQueue(u) \/ ChooseRequest(u) \/ Settle(u)
    <2>1. \/ Return(u)
          \/ \E place \in {"choose", "front", "settle"} : Goto(u, place)
      BY <1>2 DEF PublishFromQueue, ChooseRequest, Settle
    <2> QED
      BY <1>1, <2>1 DEF Goto, Return, Standing, Returns, AssignStep, ThreadRecords
  <1>3. CASE TakeFront(u)
    <2>1. \/ thread' = thread
          \/ thread' = [thread EXCEPT ![u].pc = "process", ![u].at = Head(queue)]
      BY <1>3 DEF TakeFront
    <2> QED
      BY <1>1, <2>1 DEF AssignStep, ThreadRecords
  <1>4. CASE ProcessRequest(u)
    BY <1>1, <1>4 DEF ProcessRequest, Goto, Return, Standing, Returns, AssignStep,
                      ThreadRecords
  <1>5. CASE EncodeRequest(u)
    BY <1>1, <1>5 DEF EncodeRequest, AssignStep, ThreadRecords
  <1>6. CASE SendAccepted(u)
    BY <1>1, <1>6 DEF SendAccepted, AssignStep, ThreadRecords
  <1>7. CASE SendRefused(u)
    BY <1>1, <1>7 DEF SendRefused, Goto, Return, Standing, Returns, AssignStep,
                      ThreadRecords
  <1>8. CASE AssignToken(u) \/ DumpQueue(u) \/ Disconnected(u) \/ Tell(u)
    BY <1>1, <1>8 DEF AssignToken, DumpQueue, Disconnected, Tell, Goto, Return,
                      Standing, Returns, AssignStep, ThreadRecords
  <1>9. CASE SendFailed(u)
    BY <1>1, <1>9, GoneNoAssign DEF SendFailed
  <1> QED
    BY <1>2, <1>3, <1>4, <1>5, <1>6, <1>7, <1>8, <1>9 DEF QueueStep

\* What moves a thread, other than the steps inside the queue.
LEMMA OtherMoves ==
    ASSUME ThreadsOK, Next, ~QueueStep("node"), ~QueueStep("library")
    PROVE  \E u \in Threads :
              /\ SingleThreaded => u = "node"
              /\ \/ thread' = thread /\ queue' = queue
                 \/ Elsewhere(u)
                 \/ \E then \in Returns : RetryOrGiveUp(u, then)
  <1>1. "node" \in Threads /\ "library" \in Threads
    BY DEF Threads
  <1>2. CASE NodeStep
    BY <1>1, <1>2 DEF NodeStep, TakeRequest, CheckSize, Execute, ConnectReturns,
                      Elsewhere, Inside, Places, Pointing, Returns
  <1>3. CASE AsyncStep
    <2>1. ~SingleThreaded
      BY <1>3
         DEF AsyncStep, AsyncCallback, AsyncConnect, AsyncConnectRefused,
             AsyncActivate, AsyncStop, AsyncDisconnect, AsyncOnConnect,
             AsyncOnConnectFailure, AsyncOnDisconnect, AsyncOnSubscription,
             AsyncOnDelivery, AsyncOnDeliveryFailure, Quiet, IsAsync, SingleThreaded
    <2> QED
      BY <1>1, <1>3, <2>1
         DEF AsyncStep, AsyncCallback, AsyncConnect, AsyncConnectRefused,
             AsyncActivate, AsyncStop, AsyncDisconnect, AsyncOnConnect,
             AsyncOnConnectFailure, AsyncOnDisconnect, AsyncOnSubscription,
             AsyncOnDelivery, AsyncOnDeliveryFailure, queueVars, Elsewhere, Inside,
             Places, Pointing, Returns
  <1>4. CASE SyncStep
    BY <1>1, <1>4
       DEF SyncStep, SyncConnect, SyncConnectFailure, SyncWait, SyncPending,
           SyncReceive, SyncActivate, SyncStop, BrokerAck, queueVars, Elsewhere,
           Inside, Places, Pointing, Returns
  <1>5. CASE CppStep
    BY <1>1, <1>5
       DEF CppStep, CppConfigure, CppConnect, CppConnectRefused,
           CppOnConnectionSuccess, CppOnConnectionFailure, CppOnDisconnection,
           CppOnSubscribeResult, CppSyncReturns, CppActivate, CppStop,
           CppOnDeliveryComplete, CppOnDeliveryFailure, queueVars, Elsewhere,
           Inside, Places, Pointing, Returns
  <1>6. CASE BecomeActive \/ Deactivate \/ LinkLost \/ Undefined
    BY <1>1, <1>6 DEF BecomeActive, Deactivate, LinkLost, Undefined, vars, queueVars
  <1> QED
    BY <1>2, <1>3, <1>4, <1>5, <1>6 DEF Next

LEMMA NextAssign ==
    ASSUME ThreadsOK, [Next]_vars, NEW t \in Threads
    PROVE  AssignStep(t)
  <1>1. CASE QueueStep("node") \/ QueueStep("library")
    BY <1>1, QueueStepAssign DEF Threads
  <1>2. CASE Next /\ ~QueueStep("node") /\ ~QueueStep("library")
    BY <1>2, OtherMoves, GoneNoAssign
  <1>3. CASE UNCHANGED vars
    BY <1>3 DEF vars, AssignStep
  <1> QED
    BY <1>1, <1>2, <1>3

\* What the library holds it has given a token, and no request has a token that
\* was not sent.
SentOK ==
    /\ \A m \in inflight : m.token >= 1
    /\ \A r \in 1..Len(request) :
          /\ request[r].token # NoToken => request[r].sent
          /\ library # "PahoSync" /\ request[r].outcome = "DELIVERED" => request[r].sent
    /\ \A t \in Threads : thread[t].pc = "assign" => request[thread[t].at].sent

LEMMA InflightStep ==
    ASSUME [Next]_vars
    PROVE  \A m \in inflight' :
              m \in inflight \/ m.token = lastToken + 1
  <1>1. CASE QueueStep("node") \/ QueueStep("library")
    <2>1. ASSUME NEW t, SendAccepted(t)
          PROVE  \A m \in inflight' : m \in inflight \/ m.token = lastToken + 1
      BY <2>1 DEF SendAccepted, sendVars
    <2>2. ASSUME NEW t, QueueStep(t), ~SendAccepted(t)
          PROVE  inflight' \subseteq inflight
      BY <2>2 DEF QueueStep, PublishFromQueue, ChooseRequest, TakeFront, Settle,
                  ProcessRequest, EncodeRequest, SendRefused, AssignToken,
                  SendFailed, DumpQueue, Disconnected, Tell, sendVars
    <2> QED
      BY <1>1, <2>1, <2>2
  <1>2. CASE NodeStep
    BY <1>2 DEF NodeStep, TakeRequest, CheckSize, Execute, ConnectReturns,
                sendVars
  <1>3. CASE AsyncStep /\ ~QueueStep("library")
    BY <1>3
       DEF AsyncStep, AsyncCallback, AsyncConnect, AsyncConnectRefused,
           AsyncActivate, AsyncStop, AsyncDisconnect, AsyncOnConnect,
           AsyncOnConnectFailure, AsyncOnDisconnect, AsyncOnSubscription,
           AsyncOnDelivery, AsyncOnDeliveryFailure, sendVars
  <1>4. CASE SyncStep
    BY <1>4
       DEF SyncStep, SyncConnect, SyncConnectFailure, SyncWait, SyncPending,
           SyncReceive, SyncActivate, SyncStop, BrokerAck, sendVars
  <1>5. CASE CppStep
    BY <1>5
       DEF CppStep, CppConfigure, CppConnect, CppConnectRefused,
           CppOnConnectionSuccess, CppOnConnectionFailure, CppOnDisconnection,
           CppOnSubscribeResult, CppSyncReturns, CppActivate, CppStop,
           CppOnDeliveryComplete, CppOnDeliveryFailure, sendVars
  <1>6. CASE BecomeActive \/ Deactivate \/ LinkLost \/ Undefined \/ UNCHANGED vars
    BY <1>6 DEF BecomeActive, Deactivate, LinkLost, Undefined, vars, sendVars
  <1> QED
    BY <1>1, <1>2, <1>3, <1>4, <1>5, <1>6 DEF Next

\* A request once sent stays sent, and the two facts about each request stay.
LEMMA RequestSent ==
    ASSUME QueueOK, ThreadsOK, NumbersOK, SentOK, [Next]_vars, NEW r \in 1..Len(request)
    PROVE  /\ request[r].sent => request'[r].sent
           /\ request'[r].token # NoToken => request'[r].sent
           /\ library # "PahoSync" /\ request'[r].outcome = "DELIVERED" => request'[r].sent
  <1>1. /\ request[r].token # NoToken => request[r].sent
        /\ library # "PahoSync" /\ request[r].outcome = "DELIVERED" => request[r].sent
    BY DEF SentOK
  <1>2. RequestStep
    BY NextRequests
  <1>3. CASE request'[r] = request[r]
    BY <1>1, <1>3
  <1>4. CASE Taken \/ Untouched
    BY <1>3, <1>4, TakenIs DEF Untouched
  <1>5. CASE GivenUp
    <2>1. queue # <<>> /\ ReportFront("UNDELIVERED") /\ "UNDELIVERED" \in Outcomes \ {"none"}
      BY <1>5 DEF GivenUp, Outcomes
    <2>2. /\ request'[r].sent = request[r].sent /\ request'[r].token = request[r].token
          /\ request'[r].outcome \in {request[r].outcome, "UNDELIVERED"}
      BY <2>1, ReportedFields
    <2> QED
      BY <1>1, <2>2
  <1>6. CASE Confirmed
    <2>1. queue # <<>> /\ ReportFront("DELIVERED") /\ "DELIVERED" \in Outcomes \ {"none"}
      BY <1>6 DEF Confirmed, Outcomes
    <2>2. /\ request'[r].sent = request[r].sent /\ request'[r].token = request[r].token
          /\ r # Len(reported) + 1 => request'[r] = request[r]
      BY <2>1, ReportedFields
    <2>3. r = Len(reported) + 1 /\ library # "PahoSync" => request[r].sent
      <3>1. ASSUME r = Len(reported) + 1, library # "PahoSync"
            PROVE  request[r].token # NoToken
        <4>1. r = Head(queue)
          BY <2>1, <3>1, FrontIsNext
        <4>2. PICK m \in inflight : m.token = request[r].token
          BY <1>6, <3>1, <4>1 DEF Confirmed
        <4>3. m.token >= 1
          BY DEF SentOK
        <4> QED
          BY <4>2, <4>3 DEF NoToken
      <3> QED
        BY <1>1, <3>1
    <2> QED
      BY <1>1, <2>2, <2>3
  <1>7. CASE Resent
    BY <1>1, <1>7, ResentFields
  <1>8. ASSUME NEW t \in Threads, Sending(t)
        PROVE  /\ request[r].sent => request'[r].sent
               /\ request'[r].token # NoToken => request'[r].sent
               /\ library # "PahoSync" /\ request'[r].outcome = "DELIVERED" => request'[r].sent
    <2>1. CASE Dangles(thread[t].at) \/ r # thread[t].at
      <3>1. request'[r] = request[r]
        BY <1>8, <2>1, DanglingUntouched, AcceptedFields, RefusedFields,
           AssignedFields DEF Sending
      <3> QED
        BY <1>3, <3>1
    <2>2. CASE ~Dangles(thread[t].at) /\ r = thread[t].at /\ SendAccepted(t)
      BY <2>2, AcceptedFields
    <2>3. CASE ~Dangles(thread[t].at) /\ r = thread[t].at /\ SendRefused(t)
      BY <1>1, <2>3, RefusedFields
    <2>4. CASE ~Dangles(thread[t].at) /\ r = thread[t].at /\ AssignToken(t)
      <3>1. request[r].sent
        BY <2>4 DEF SentOK, AssignToken, At
      <3> QED
        BY <2>4, <3>1, AssignedFields
    <2> QED
      BY <1>8, <2>1, <2>2, <2>3, <2>4 DEF Sending
  <1> QED
    BY <1>2, <1>4, <1>5, <1>6, <1>7, <1>8 DEF RequestStep

LEMMA SameLibrary ==
    ASSUME [Next]_vars
    PROVE  library' = library
  BY DEF Next, NodeStep, TakeRequest, CheckSize, Execute, ConnectReturns,
         QueueStep, PublishFromQueue, ChooseRequest, TakeFront, Settle,
         ProcessRequest, EncodeRequest, SendAccepted, SendRefused, AssignToken,
         SendFailed, DumpQueue, Disconnected, Tell, AsyncStep, AsyncCallback,
         AsyncConnect, AsyncConnectRefused, AsyncActivate, AsyncStop,
         AsyncDisconnect, AsyncOnConnect, AsyncOnConnectFailure,
         AsyncOnDisconnect, AsyncOnSubscription, AsyncOnDelivery,
         AsyncOnDeliveryFailure, SyncStep, SyncConnect, SyncConnectFailure,
         SyncWait, SyncPending, SyncReceive, SyncActivate, SyncStop, BrokerAck,
         CppStep, CppConfigure, CppConnect, CppConnectRefused,
         CppOnConnectionSuccess, CppOnConnectionFailure, CppOnDisconnection,
         CppOnSubscribeResult, CppSyncReturns, CppActivate, CppStop,
         CppOnDeliveryComplete, CppOnDeliveryFailure, BecomeActive, Deactivate,
         LinkLost, Undefined, vars

LEMMA NextSent ==
    ASSUME IInv, SentOK, [Next]_vars
    PROVE  SentOK'
  <1>1. QueueOK /\ ThreadsOK /\ NumbersOK
    BY DEF IInv
  <1>2. ASSUME NEW m \in inflight' PROVE m.token >= 1
    BY <1>1, InflightStep DEF SentOK, NumbersOK
  <1>3. library' = library
    BY SameLibrary
  <1>4. ASSUME NEW r \in 1..Len(request')
        PROVE  /\ request'[r].token # NoToken => request'[r].sent
               /\ library # "PahoSync" /\ request'[r].outcome = "DELIVERED"
                    => request'[r].sent
    <2>1. CASE r \in 1..Len(request)
      BY <1>1, <2>1, RequestSent
    <2>2. CASE r \notin 1..Len(request)
      <3>1. Taken
        <4>1. Len(request) \in Nat
          BY <1>1, LenProperties DEF QueueOK
        <4>2. Len(request') # Len(request)
          BY <2>2, <4>1
        <4> QED
          BY <1>1, <4>2, NextEffect, ReportedIs, WrittenIs
             DEF Resolved, Written, Untouched
      <3>2. Len(request) \in Nat /\ Len(request') = Len(request) + 1
        BY <1>1, <3>1, LenProperties, TakenIs DEF QueueOK
      <3>3. r = Len(request) + 1
        BY <2>2, <3>2
      <3> QED
        BY <1>1, <3>1, <3>3, TakenIs
    <2> QED
      BY <2>1, <2>2
  <1>5. ASSUME NEW t \in Threads, thread'[t].pc = "assign"
        PROVE  request'[thread'[t].at].sent
    <2>1. /\ thread'[t].at = thread[t].at
          /\ thread[t].pc = "assign" \/ (SendAccepted(t) /\ ~Dangles(thread[t].at))
      BY <1>1, <1>5, NextAssign DEF AssignStep
    <2>2. thread[t].at \in 1..Len(request)
      BY <1>1, <2>1 DEF ThreadsOK, Pointing, SendAccepted, At
    <2>3. CASE thread[t].pc = "assign"
      BY <1>1, <2>1, <2>2, <2>3, RequestSent DEF SentOK
    <2>4. CASE SendAccepted(t) /\ ~Dangles(thread[t].at)
      BY <1>1, <2>1, <2>2, <2>4, AcceptedFields
    <2> QED
      BY <2>1, <2>3, <2>4
  <1> QED
    BY <1>2, <1>3, <1>4, <1>5 DEF SentOK

\* onDelivery, onDeliveryComplete: what PahoAsyncClient and CppMqttClient report
\* as delivered was accepted by the library, whatever tokens are retried,
\* assigned late or never.
THEOREM DeliveredHonestly == Spec => []DeliveredWasSent
  <1>1. ASSUME Init PROVE SentOK
    BY <1>1 DEF Init, SentOK, Threads, Standing
  <1>2. ASSUME SentOK PROVE DeliveredWasSent
    BY <1>2 DEF SentOK, DeliveredWasSent
  <1> QED
    BY <1>1, <1>2, NextSent, Invariance, PTL DEF Spec

----------------------------------------------------------------------------
\* The sequence numbers of a client without threads of its own.

\* The number of the next payload, or of the one that is encoded, follows the
\* last that was handed over.
SequenceOK ==
    SingleThreaded =>
        IF thread["node"].pc = "send"
          THEN /\ thread["node"].number =
                     IF IsNodeBirth(thread["node"].at) THEN 0 ELSE NextSequence(handed)
               /\ payloadSequence = NextSequence(thread["node"].number)
          ELSE payloadSequence = NextSequence(handed)

LEMMA ElsewhereIs ==
    ASSUME ThreadsOK, NEW t \in Threads, Elsewhere(t)
    PROVE  thread'[t].pc \notin Inside
  <1>1. /\ thread \in [Threads -> ThreadRecords] /\ thread[t] \in ThreadRecords
        /\ thread[t].then \in Returns
    BY DEF ThreadsOK
  <1>2. PICK place \in Places \ Inside, then \in Returns :
          Goto(t, place) \/ Call(t, place, then) \/ Return(t)
    BY DEF Elsewhere
  <1>3. CASE Goto(t, place)
    BY <1>1, <1>2, <1>3 DEF Goto, ThreadRecords
  <1>4. CASE Call(t, place, then)
    BY <1>1, <1>2, <1>4 DEF Call, ThreadRecords
  <1>5. CASE Return(t)
    BY <1>1, <1>5 DEF Return, Standing, Returns, Inside, Pointing
  <1> QED
    BY <1>2, <1>3, <1>4, <1>5

\* Only these steps touch the numbers, and no other comes to "send" or leaves it.
LEMMA SequenceSteps ==
    ASSUME ThreadsOK, SingleThreaded, [Next]_vars
    PROVE  \/ UNCHANGED <<payloadSequence, handed, request, thread>>
           \/ /\ UNCHANGED <<payloadSequence, handed>>
              /\ thread["node"].pc # "send" /\ thread'["node"].pc # "send"
           \/ EncodeRequest("node") \/ SendAccepted("node") \/ SendRefused("node")
  <1>1. /\ thread \in [Threads -> ThreadRecords] /\ "node" \in Threads
        /\ "library" \in Threads /\ thread["library"].pc = "idle"
        /\ thread["node"].then \in Returns
    BY DEF ThreadsOK, Threads
  <1>2. thread["node"] \in ThreadRecords
    BY <1>1
  <1>3. ASSUME NEW then \in Returns, RetryOrGiveUp("node", then)
        PROVE  thread'["node"].pc # "send"
    BY <1>1, <1>2, <1>3 DEF RetryOrGiveUp, Call, ThreadRecords
  <1>4. CASE Elsewhere("node") /\ UNCHANGED <<payloadSequence, handed>>
             /\ thread["node"].pc # "send"
    BY <1>1, <1>4, ElsewhereIs DEF Inside, Pointing
  <1>5. CASE QueueStep("node")
    <2>1. CASE \/ PublishFromQueue("node") \/ ChooseRequest("node")
               \/ TakeFront("node") \/ Settle("node") \/ ProcessRequest("node")
      <3>1. UNCHANGED <<payloadSequence, handed>> /\ thread["node"].pc # "send"
        BY <2>1 DEF PublishFromQueue, ChooseRequest, TakeFront, Settle,
                    ProcessRequest, At, encodeVars
      <3>2. \/ thread' = thread \/ Return("node")
            \/ \E place \in {"choose", "front", "settle", "encode"} : Goto("node", place)
            \/ thread' = [thread EXCEPT !["node"].pc = "process",
                                       !["node"].at = Head(queue)]
        BY <2>1 DEF PublishFromQueue, ChooseRequest, TakeFront, Settle, ProcessRequest
      <3>3. thread'["node"].pc # "send"
        BY <1>1, <1>2, <3>1, <3>2 DEF Return, Goto, Standing, Returns, ThreadRecords
      <3> QED
        BY <3>1, <3>3
    <2>2. CASE AssignToken("node") \/ DumpQueue("node") \/ Disconnected("node")
               \/ Tell("node")
      <3>1. UNCHANGED <<payloadSequence, handed>> /\ thread["node"].pc # "send"
        BY <2>2 DEF AssignToken, DumpQueue, Disconnected, Tell, At, encodeVars
      <3>2. \/ thread' = thread \/ Return("node")
            \/ Goto("node", "disconnected") \/ Goto("node", "tell")
        BY <2>2 DEF AssignToken, DumpQueue, Disconnected, Tell
      <3> QED
        BY <1>4, <3>1, <3>2 DEF Elsewhere, Inside, Places, Pointing, Returns
    <2>3. CASE SendFailed("node")
      BY <1>1, <1>3, <2>3 DEF SendFailed, At, encodeVars
    <2> QED
      BY <1>5, <2>1, <2>2, <2>3 DEF QueueStep
  <1>6. CASE NodeStep
    <2>1. /\ UNCHANGED <<payloadSequence, handed>> /\ thread["node"].pc # "send"
          /\ Elsewhere("node")
      BY <1>6 DEF NodeStep, TakeRequest, CheckSize, Execute, ConnectReturns, At,
                  encodeVars, Elsewhere, Inside, Places, Pointing, Returns
    <2> QED
      BY <1>4, <2>1
  <1>7. CASE SyncStep
    <2>1. CASE \E m \in inflight : BrokerAck(m)
      BY <2>1 DEF BrokerAck, queueVars, encodeVars
    <2>2. CASE SyncActivate \/ SyncStop
      BY <2>2 DEF SyncActivate, SyncStop, queueVars, encodeVars
    <2>3. CASE SyncConnect \/ SyncConnectFailure \/ SyncWait \/ SyncPending \/ SyncReceive
      <3>1. /\ UNCHANGED <<payloadSequence, handed>> /\ thread["node"].pc # "send"
            /\ Elsewhere("node")
        BY <2>3 DEF SyncConnect, SyncConnectFailure, SyncWait, SyncPending,
                    SyncReceive, At, encodeVars, Elsewhere, Inside, Places, Pointing,
                    Returns
      <3> QED
        BY <1>4, <3>1
    <2> QED
      BY <1>7, <2>1, <2>2, <2>3 DEF SyncStep
  <1>8. CASE CppStep
    <2>1. CASE \/ CppConfigure \/ CppOnConnectionSuccess \/ CppOnConnectionFailure
               \/ CppOnSubscribeResult \/ CppActivate \/ CppStop
      BY <2>1 DEF CppConfigure, CppOnConnectionSuccess, CppOnConnectionFailure,
                  CppOnSubscribeResult, CppActivate, CppStop, queueVars,
                  encodeVars
    <2>2. CASE CppConnect \/ CppConnectRefused \/ CppOnDisconnection \/ CppSyncReturns
      <3>1. /\ UNCHANGED <<payloadSequence, handed>> /\ thread["node"].pc # "send"
            /\ Elsewhere("node")
        BY <2>2 DEF CppConnect, CppConnectRefused, CppOnDisconnection,
                    CppSyncReturns, InSync, At, encodeVars, Elsewhere, Inside, Places,
                    Pointing, Returns
      <3> QED
        BY <1>4, <3>1
    <2>3. CASE \E m \in inflight : CppOnDeliveryComplete(m) \/ CppOnDeliveryFailure(m)
      <3>1. UNCHANGED <<payloadSequence, handed>> /\ thread["node"].pc # "send"
        BY <2>3 DEF CppOnDeliveryComplete, CppOnDeliveryFailure, InSync, At,
                    encodeVars
      <3>2. \/ thread' = thread \/ Call("node", "publish", "sync")
            \/ RetryOrGiveUp("node", "sync")
        BY <2>3 DEF CppOnDeliveryComplete, CppOnDeliveryFailure
      <3> QED
        BY <1>3, <1>4, <3>1, <3>2 DEF Elsewhere, Inside, Places, Pointing, Returns
    <2> QED
      BY <1>8, <2>1, <2>2, <2>3 DEF CppStep
  <1>9. CASE BecomeActive \/ Deactivate \/ LinkLost \/ Undefined \/ UNCHANGED vars
    BY <1>9 DEF BecomeActive, Deactivate, LinkLost, Undefined, vars, queueVars,
                encodeVars
  <1>10. ~AsyncStep
    BY DEF AsyncStep, AsyncCallback, AsyncConnect, AsyncConnectRefused,
           AsyncActivate, AsyncStop, AsyncDisconnect, AsyncOnConnect,
           AsyncOnConnectFailure, AsyncOnDisconnect, AsyncOnSubscription,
           AsyncOnDelivery, AsyncOnDeliveryFailure, Quiet, IsAsync, SingleThreaded
  <1> QED
    BY <1>5, <1>6, <1>7, <1>8, <1>9, <1>10 DEF Next

LEMMA NextSequenceOK ==
    ASSUME QueueOK, ThreadsOK, SequenceOK, [Next]_vars
    PROVE  SequenceOK'
  <1> SUFFICES ASSUME SingleThreaded PROVE SequenceOK'
    BY SameLibrary DEF SequenceOK, SingleThreaded
  <1>1. thread \in [Threads -> ThreadRecords] /\ "node" \in Threads
        /\ thread["node"].then \in Returns
    BY DEF ThreadsOK, Threads
  <1>2. thread["node"] \in ThreadRecords
    BY <1>1
  <1>3. CASE UNCHANGED <<payloadSequence, handed, request, thread>>
    BY <1>3 DEF SequenceOK, IsNodeBirth, SingleThreaded
  <1>4. CASE /\ UNCHANGED <<payloadSequence, handed>>
             /\ thread["node"].pc # "send" /\ thread'["node"].pc # "send"
    BY <1>4 DEF SequenceOK
  <1>5. CASE EncodeRequest("node")
    <2> DEFINE r == thread["node"].at
    <2>1. thread["node"].pc = "encode" /\ request' = request /\ handed' = handed
      BY <1>5 DEF EncodeRequest, At, queueVars
    <2>2. payloadSequence = NextSequence(handed)
      BY <2>1 DEF SequenceOK
    <2>3. CASE thread' = thread /\ payloadSequence' = payloadSequence
      BY <2>1, <2>2, <2>3 DEF SequenceOK
    <2>5. CASE /\ payloadSequence' = NextSequence(SequenceFor(r))
               /\ thread' = [thread EXCEPT !["node"].pc = "send",
                                          !["node"].number = SequenceFor(r)]
      <3> DEFINE n == SequenceFor(r)
      <3>1. /\ thread'["node"].pc = "send" /\ thread'["node"].number = n
            /\ thread'["node"].at = r
        <4> HIDE DEF n
        <4> QED
          BY <1>1, <1>2, <2>5 DEF ThreadRecords, n
      <3>2. n = IF IsNodeBirth(r) THEN 0 ELSE NextSequence(handed)
        BY <2>2 DEF SequenceFor
      <3>3. IsNodeBirth(r)' <=> IsNodeBirth(r)
        BY <2>1, <3>1 DEF IsNodeBirth
      <3> QED
        BY <2>1, <2>5, <3>1, <3>2, <3>3 DEF SequenceOK, IsNodeBirth
    <2> QED
      BY <1>5, <2>3, <2>5 DEF EncodeRequest
  <1>6. CASE SendAccepted("node") \/ SendRefused("node")
    <2>1. thread["node"].pc = "send" /\ payloadSequence' = payloadSequence
      BY <1>6 DEF SendAccepted, SendRefused, At
    <2>2. CASE Dangles(thread["node"].at)
      <3>1. UNCHANGED <<payloadSequence, handed, request, thread>>
        BY <1>6, <2>2 DEF SendAccepted, SendRefused
      <3> QED
        BY <1>3, <3>1
    <2>3. CASE ~Dangles(thread["node"].at)
      <3>1. handed' = thread["node"].number
        BY <1>6, <2>3 DEF SendAccepted, SendRefused
      <3>2. \/ Return("node") \/ Goto("node", "failed")
            \/ thread' = [thread EXCEPT !["node"].pc = "assign",
                                       !["node"].token = lastToken + 1]
        BY <1>6, <2>3 DEF SendAccepted, SendRefused
      <3>3. thread'["node"].pc # "send"
        BY <1>1, <1>2, <3>2 DEF Return, Goto, Standing, Returns, ThreadRecords
      <3> QED
        BY <2>1, <3>1, <3>3 DEF SequenceOK
    <2> QED
      BY <2>2, <2>3
  <1> QED
    BY <1>3, <1>4, <1>5, <1>6, SequenceSteps

\* Requests are handed over, or not, by the steps Sending only.
LEMMA AttemptsChange ==
    ASSUME QueueOK, ThreadsOK, [Next]_vars, NEW r \in 1..Len(request),
           request'[r].attempts # request[r].attempts
    PROVE  \E t \in Threads :
              /\ SendAccepted(t) \/ SendRefused(t)
              /\ ~Dangles(thread[t].at) /\ r = thread[t].at
  <1>1. RequestStep
    BY NextRequests
  <1>2. ~Taken /\ ~Untouched
    BY TakenIs DEF Untouched
  <1>3. ~GivenUp /\ ~Confirmed
    BY ReportedFields DEF GivenUp, Confirmed, Outcomes
  <1>4. ~Resent
    BY ResentFields
  <1>5. PICK t \in Threads : Sending(t)
    BY <1>1, <1>2, <1>3, <1>4 DEF RequestStep
  <1>6. ~Dangles(thread[t].at)
    BY <1>5, DanglingUntouched
  <1>7. ~AssignToken(t)
    BY <1>6, AssignedFields
  <1>8. r = thread[t].at
    BY <1>5, <1>6, <1>7, AcceptedFields, RefusedFields DEF Sending
  <1> QED
    BY <1>5, <1>6, <1>7, <1>8 DEF Sending

\* initializePayload, resetSequence: without threads of its own a client numbers
\* the payloads it hands over 0, 1, 2 and so on from a node's birth, across
\* refusals, resends and connections, for every modulus.
THEOREM NumberedInOrder == Spec => SequenceInOrder
  <1>1. ASSUME Init PROVE SequenceOK
    <2>1. NextSequence(SequenceModulus - 1) = 0
      BY DEF NextSequence
    <2> QED
      BY <1>1, <2>1 DEF Init, SequenceOK, Threads, Standing
  <1>2. ASSUME IInv, SequenceOK, [Next]_vars PROVE SequenceOK'
    BY <1>2, NextSequenceOK DEF IInv
  <1>3. ASSUME IInv, SequenceOK, [Next]_vars
        PROVE  [\A r \in 1..Len(request) :
                  SingleThreaded /\ request'[r].attempts # request[r].attempts
                      => handed' = IF IsNodeBirth(r) THEN 0
                                   ELSE (handed + 1) % SequenceModulus]_vars
    <2> SUFFICES ASSUME NEW r \in 1..Len(request), SingleThreaded,
                        request'[r].attempts # request[r].attempts
                 PROVE  handed' = IF IsNodeBirth(r) THEN 0 ELSE NextSequence(handed)
      BY DEF NextSequence
    <2>1. PICK t \in Threads :
            /\ SendAccepted(t) \/ SendRefused(t)
            /\ ~Dangles(thread[t].at) /\ r = thread[t].at
      BY <1>3, AttemptsChange DEF IInv
    <2>2. t = "node" /\ thread[t].pc = "send"
      BY <1>3, <2>1 DEF IInv, ThreadsOK, Threads, SendAccepted, SendRefused, At
    <2>3. handed' = thread[t].number
      BY <2>1 DEF SendAccepted, SendRefused
    <2> QED
      BY <1>3, <2>1, <2>2, <2>3 DEF SequenceOK
  <1> QED
    BY <1>1, <1>2, <1>3, Invariance, PTL DEF Spec, SequenceInOrder

----------------------------------------------------------------------------
\* CppMqttClient: what the library holds.

\* Where a request is about to be handed over, if there is one.
Handing == {"publish", "choose", "front", "process", "encode", "send", "failed"}

\* A step that leaves the queue and the library alone and does not publish.
PlainStep ==
    /\ UNCHANGED <<inflight, queue, request, reported>>
    /\ thread["node"].pc \notin {"dump", "disconnected"}
    /\ thread'["node"].pc \notin Handing \cup {"taken"}

LEMMA CppSteps ==
    ASSUME ThreadsOK, library = "CppMqtt", [Next]_vars
    PROVE  \/ UNCHANGED <<inflight, queue, request, reported, thread>>
           \/ PlainStep
           \/ Taken /\ inflight' = inflight /\ thread["node"].pc = "idle"
              /\ thread'["node"].pc = "taken"
           \/ CheckSize \/ QueueStep("node")
           \/ \E m \in inflight : CppOnDeliveryComplete(m) \/ CppOnDeliveryFailure(m)
  <1>1. /\ thread \in [Threads -> ThreadRecords] /\ "node" \in Threads
        /\ thread["node"].then \in Returns
    BY DEF ThreadsOK, Threads
  <1>2. thread["node"] \in ThreadRecords
    BY <1>1
  <1>3. CASE NodeStep
    <2>1. CASE \E p \in Publishables, isBirth \in BOOLEAN : TakeRequest(p, isBirth)
      <3>1. /\ Taken /\ inflight' = inflight /\ thread["node"].pc = "idle"
            /\ Goto("node", "taken")
        BY <2>1, TakeRequestEffect DEF TakeRequest, At, sendVars
      <3>2. thread'["node"].pc = "taken"
        BY <1>1, <1>2, <3>1 DEF Goto, ThreadRecords
      <3> QED
        BY <3>1, <3>2
    <2>2. CASE Execute \/ ConnectReturns
      <3>1. /\ UNCHANGED <<inflight, queue, request, reported>>
            /\ thread["node"].pc \in {"idle", "connecting"}
            /\ \/ Goto("node", "idle") \/ Goto("node", "connect")
               \/ Goto("node", "wait") \/ Goto("node", "sync")
        BY <2>2 DEF Execute, ConnectReturns, At, queueVars, sendVars
      <3>2. thread'["node"].pc \in {"idle", "connect", "wait", "sync"}
        BY <1>1, <1>2, <3>1 DEF Goto, ThreadRecords
      <3> QED
        BY <3>1, <3>2 DEF PlainStep, Handing
    <2> QED
      BY <1>3, <2>1, <2>2 DEF NodeStep
  <1>4. CASE CppStep
    <2>1. CASE \/ CppConfigure \/ CppOnConnectionSuccess \/ CppOnConnectionFailure
               \/ CppOnSubscribeResult \/ CppActivate \/ CppStop
      BY <2>1 DEF CppConfigure, CppOnConnectionSuccess, CppOnConnectionFailure,
                  CppOnSubscribeResult, CppActivate, CppStop, queueVars, sendVars
    <2>2. CASE CppConnect \/ CppConnectRefused \/ CppOnDisconnection \/ CppSyncReturns
      <3>1. /\ UNCHANGED <<inflight, queue, request, reported>>
            /\ thread["node"].pc \in {"connect", "sync"}
            /\ \/ Goto("node", "connecting") \/ Goto("node", "sync")
               \/ Goto("node", "idle") \/ Call("node", "dump", "sync")
        BY <2>2 DEF CppConnect, CppConnectRefused, CppOnDisconnection,
                    CppSyncReturns, InSync, At, queueVars, sendVars
      <3>2. thread'["node"].pc \in {"connecting", "sync", "idle", "dump"}
        BY <1>1, <1>2, <3>1 DEF Goto, Call, ThreadRecords
      <3> QED
        BY <3>1, <3>2 DEF PlainStep, Handing
    <2> QED
      BY <1>4, <2>1, <2>2 DEF CppStep
  <1>5. CASE BecomeActive \/ Deactivate \/ LinkLost \/ Undefined \/ UNCHANGED vars
    BY <1>5 DEF BecomeActive, Deactivate, LinkLost, Undefined, vars, queueVars,
                sendVars
  <1>6. ~AsyncStep /\ ~SyncStep
    BY DEF AsyncStep, AsyncCallback, AsyncConnect, AsyncConnectRefused,
           AsyncActivate, AsyncStop, AsyncDisconnect, AsyncOnConnect,
           AsyncOnConnectFailure, AsyncOnDisconnect, AsyncOnSubscription,
           AsyncOnDelivery, AsyncOnDeliveryFailure, Quiet, IsAsync, SyncStep,
           SyncConnect, SyncConnectFailure, SyncWait, SyncPending, SyncReceive,
           SyncActivate, SyncStop, BrokerAck, IsSync
  <1> QED
    BY <1>3, <1>4, <1>5, <1>6 DEF Next

\* The library holds at most the front request, and none while there is
\* something to hand over.
HeldOK ==
    library = "CppMqtt" =>
        /\ \A m, n \in inflight : m = n
        /\ thread["node"].pc \notin {"dump", "disconnected"} =>
              \A m \in inflight : m.id = Len(reported) + 1 /\ m.id <= Len(request)
        /\ thread["node"].pc = "taken" => \A m \in inflight : m.id < Len(request)
        /\ thread["node"].pc \in Handing => inflight = {}

LEMMA NextHeld ==
    ASSUME QueueOK, ThreadsOK, HeldOK, [Next]_vars
    PROVE  HeldOK'
  <1> SUFFICES ASSUME library = "CppMqtt" PROVE HeldOK'
    BY SameLibrary DEF HeldOK
  <1>1. /\ thread \in [Threads -> ThreadRecords] /\ "node" \in Threads
        /\ thread["node"].then \in Returns /\ SingleThreaded
    BY DEF ThreadsOK, Threads, SingleThreaded
  <1>2. thread["node"] \in ThreadRecords
    BY <1>1
  <1>3. Len(request) \in Nat /\ Len(reported) \in Nat /\ Len(queue) \in Nat
        /\ Len(request) = Len(reported) + Len(queue)
    BY LenProperties DEF QueueOK
  <1>4. CASE inflight' = {}
    BY <1>4 DEF HeldOK
  <1>5. CASE UNCHANGED <<inflight, queue, request, reported, thread>>
    BY <1>5 DEF HeldOK
  <1>6. CASE PlainStep
    BY <1>6 DEF PlainStep, HeldOK
  <1>7. CASE Taken /\ inflight' = inflight /\ thread["node"].pc = "idle"
             /\ thread'["node"].pc = "taken"
    <2>1. Len(request') = Len(request) + 1 /\ reported' = reported
      BY <1>7, TakenIs DEF Taken
    <2>2. \A m \in inflight : m.id = Len(reported) + 1 /\ m.id <= Len(request)
      BY <1>7 DEF HeldOK
    <2>3. \A m \in inflight : m.id < Len(request') /\ m.id <= Len(request')
      BY <1>3, <2>1, <2>2
    <2> QED
      BY <1>7, <2>1, <2>2, <2>3 DEF HeldOK, Handing
  <1>8. CASE CheckSize
    <2>1. /\ UNCHANGED <<inflight, queue, request, reported>>
          /\ thread["node"].pc = "taken"
          /\ Goto("node", "idle") \/ (Len(queue) = 1 /\ Call("node", "publish", "idle"))
      BY <1>8 DEF CheckSize, At, queueVars, sendVars
    <2>2. \/ thread'["node"].pc = "idle"
          \/ Len(queue) = 1 /\ thread'["node"].pc = "publish"
      BY <1>1, <1>2, <2>1 DEF Goto, Call, ThreadRecords
    <2>3. CASE thread'["node"].pc = "idle"
      BY <2>1, <2>3 DEF HeldOK, Handing
    <2>4. CASE Len(queue) = 1
      <3>1. \A m \in inflight : m.id = Len(request) /\ m.id < Len(request)
        BY <1>3, <2>1, <2>4 DEF HeldOK
      <3>2. inflight = {}
        BY <1>3, <3>1
      <3> QED
        BY <1>4, <2>1, <3>2
    <2> QED
      BY <2>2, <2>3, <2>4
  <1>9. CASE \E m \in inflight : CppOnDeliveryComplete(m) \/ CppOnDeliveryFailure(m)
    <2>1. PICK m \in inflight : inflight' = inflight \ {m}
      BY <1>9 DEF CppOnDeliveryComplete, CppOnDeliveryFailure
    <2>2. \A n \in inflight : n = m
      BY <2>1 DEF HeldOK
    <2> QED
      BY <1>4, <2>1, <2>2
  <1>10. CASE QueueStep("node")
    <2>1. CASE \/ PublishFromQueue("node") \/ ChooseRequest("node")
               \/ TakeFront("node") \/ ProcessRequest("node")
               \/ EncodeRequest("node") \/ SendRefused("node") \/ SendFailed("node")
      <3>1. thread["node"].pc \in Handing /\ inflight' = inflight
        BY <2>1 DEF PublishFromQueue, ChooseRequest, TakeFront, ProcessRequest,
                    EncodeRequest, SendRefused, SendFailed, At, sendVars, Handing
      <3> QED
        BY <1>4, <3>1 DEF HeldOK
    <2>2. CASE SendAccepted("node")
      <3>1. CASE Dangles(thread["node"].at)
        BY <1>5, <2>2, <3>1 DEF SendAccepted, sendVars
      <3>2. CASE ~Dangles(thread["node"].at)
        <4> DEFINE m == [token |-> lastToken + 1, id |-> thread["node"].at]
        <4>1. thread["node"].pc = "send" /\ inflight = {}
          BY <2>2 DEF SendAccepted, At, HeldOK, Handing
        <4>2. inflight' = {m} /\ m.id = thread["node"].at
          BY <2>2, <3>2, <4>1 DEF SendAccepted
        <4>3. /\ thread["node"].at = Len(reported) + 1
              /\ thread["node"].at \in 1..Len(request)
          BY <1>1, <4>1 DEF ThreadsOK, Pointing
        <4>4. thread'["node"].pc = "assign"
          BY <1>1, <1>2, <2>2, <3>2 DEF SendAccepted, ThreadRecords
        <4>5. Len(request') = Len(request) /\ reported' = reported
          BY <1>1, <1>3, <2>2, <3>2, <4>3, AcceptedFields DEF SendAccepted
        <4>6. m.id = Len(reported') + 1 /\ m.id <= Len(request')
          BY <1>3, <4>2, <4>3, <4>5
        <4> HIDE DEF m
        <4> QED
          BY <4>2, <4>4, <4>6 DEF HeldOK, Handing
      <3> QED
        BY <3>1, <3>2
    <2>3. CASE AssignToken("node")
      <3>1. /\ inflight' = inflight /\ reported' = reported
            /\ thread["node"].pc = "assign"
            /\ thread' = thread \/ Return("node")
        BY <2>3 DEF AssignToken, At, sendVars
      <3>2. Len(request') = Len(request)
        BY <2>3, SendEffect, WrittenIs, <1>1 DEF Written, Untouched
      <3>3. thread'["node"].pc \in Returns \cup {"assign"}
        BY <1>1, <3>1 DEF Return, Standing
      <3> QED
        BY <3>1, <3>2, <3>3 DEF HeldOK, Handing, Returns
    <2>4. CASE DumpQueue("node")
      <3>1. /\ inflight' = inflight /\ thread["node"].pc = "dump"
            /\ thread' = thread \/ Goto("node", "disconnected")
        BY <2>4 DEF DumpQueue, At, sendVars
      <3>2. thread'["node"].pc \in {"dump", "disconnected"}
        BY <1>1, <1>2, <3>1 DEF Goto, ThreadRecords
      <3> QED
        BY <3>1, <3>2 DEF HeldOK, Handing
    <2>5. CASE Disconnected("node")
      BY <1>4, <2>5 DEF Disconnected
    <2>6. CASE Settle("node") \/ Tell("node")
      <3>1. /\ UNCHANGED <<inflight, request, reported>> /\ Return("node")
            /\ thread["node"].pc \in {"settle", "tell"}
        BY <2>6 DEF Settle, Tell, At, queueVars, sendVars
      <3>2. thread'["node"].pc \in Returns
        BY <1>1, <3>1 DEF Return, Standing
      <3> QED
        BY <3>1, <3>2 DEF HeldOK, Handing, Returns
    <2> QED
      BY <1>10, <2>1, <2>2, <2>3, <2>4, <2>5, <2>6 DEF QueueStep
  <1> QED
    BY <1>5, <1>6, <1>7, <1>8, <1>9, <1>10, CppSteps

\* In a client without threads of its own the queue still has the request that
\* publishFromQueue() found there.
FrontOK ==
    SingleThreaded /\ thread["node"].pc = "front" => queue # <<>>

LEMMA NextFront ==
    ASSUME ThreadsOK, FrontOK, [Next]_vars
    PROVE  FrontOK'
  <1> SUFFICES ASSUME SingleThreaded, thread'["node"].pc = "front"
               PROVE  queue' # <<>>
    BY SameLibrary DEF FrontOK, SingleThreaded
  <1>1. /\ thread \in [Threads -> ThreadRecords] /\ "node" \in Threads
        /\ "library" \in Threads /\ thread["library"].pc = "idle"
        /\ thread["node"].then \in Returns
    BY DEF ThreadsOK, Threads
  <1>2. thread["node"] \in ThreadRecords
    BY <1>1
  <1>3. CASE thread' = thread /\ queue' = queue
    BY <1>3 DEF FrontOK
  <1>4. ~QueueStep("library")
    BY <1>1 DEF QueueStep, PublishFromQueue, ChooseRequest, TakeFront, Settle,
                ProcessRequest, EncodeRequest, SendAccepted, SendRefused, AssignToken,
                SendFailed, DumpQueue, Disconnected, Tell, At
  <1>5. ASSUME NEW then \in Returns, RetryOrGiveUp("node", then) PROVE FALSE
    BY <1>1, <1>2, <1>5 DEF RetryOrGiveUp, Call, ThreadRecords
  <1>6. ~Return("node") /\ \A place : Goto("node", place) => place = "front"
    BY <1>1, <1>2 DEF Return, Standing, Returns, Goto, ThreadRecords
  <1>7. CASE QueueStep("node")
    <2>1. CASE ChooseRequest("node")
      BY <1>6, <2>1 DEF ChooseRequest, queueVars
    <2>2. ~(\/ PublishFromQueue("node") \/ Settle("node") \/ ProcessRequest("node")
            \/ Disconnected("node") \/ Tell("node"))
      BY <1>6 DEF PublishFromQueue, Settle, ProcessRequest, Disconnected, Tell
    <2>3. CASE TakeFront("node") \/ EncodeRequest("node")
      <3>1. thread' = thread /\ queue' = queue
        BY <1>1, <1>2, <2>3 DEF TakeFront, EncodeRequest, queueVars, ThreadRecords
      <3> QED
        BY <1>3, <3>1
    <2>4. CASE SendAccepted("node") \/ SendRefused("node") \/ AssignToken("node")
      <3>1. thread' = thread /\ queue' = queue
        BY <1>1, <1>2, <1>6, <2>4
           DEF SendAccepted, SendRefused, AssignToken, ThreadRecords
      <3> QED
        BY <1>3, <3>1
    <2>5. ~SendFailed("node")
      BY <1>1, <1>5 DEF SendFailed
    <2>6. ~DumpQueue("node")
      BY <1>6 DEF DumpQueue, At
    <2> QED
      BY <1>7, <2>1, <2>2, <2>3, <2>4, <2>5, <2>6 DEF QueueStep
  <1>8. CASE Next /\ ~QueueStep("node")
    <2>1. \/ thread' = thread /\ queue' = queue
          \/ Elsewhere("node")
          \/ \E then \in Returns : RetryOrGiveUp("node", then)
      BY <1>4, <1>8, OtherMoves
    <2>2. ~Elsewhere("node")
      BY <1>1, ElsewhereIs DEF Inside
    <2> QED
      BY <1>3, <1>5, <2>1, <2>2
  <1>9. CASE UNCHANGED vars
    BY <1>3, <1>9 DEF vars, queueVars
  <1> QED
    BY <1>7, <1>8, <1>9

\* The steps that use a request without asking whether it is still there.
LEMMA UndefinedSteps ==
    ASSUME [Next]_vars, undefined' # undefined
    PROVE  \/ \E t \in Threads : /\ thread[t].pc \in Pointing
                                /\ Dangles(thread[t].at)
           \/ \E t \in Threads : thread[t].pc = "front" /\ queue = <<>>
           \/ \E m \in inflight : AsyncOnDelivery(m)
           \/ \E m \in inflight : CppOnDeliveryComplete(m) /\ queue = <<>>
  <1>1. ASSUME NEW t \in Threads, QueueStep(t)
        PROVE  \/ thread[t].pc \in Pointing /\ Dangles(thread[t].at)
               \/ thread[t].pc = "front" /\ queue = <<>>
    BY <1>1 DEF QueueStep, PublishFromQueue, ChooseRequest, TakeFront, Settle,
                ProcessRequest, EncodeRequest, SendAccepted, SendRefused,
                AssignToken, SendFailed, DumpQueue, Disconnected, Tell, At, Pointing
  <1>2. ~NodeStep
    BY DEF NodeStep, TakeRequest, CheckSize, Execute, ConnectReturns
  <1>3. CASE AsyncStep
    BY <1>1, <1>3
       DEF AsyncStep, AsyncCallback, AsyncConnect, AsyncConnectRefused,
           AsyncActivate, AsyncStop, AsyncDisconnect, AsyncOnConnect,
           AsyncOnConnectFailure, AsyncOnDisconnect, AsyncOnSubscription,
           AsyncOnDeliveryFailure, Threads
  <1>4. ~SyncStep
    BY DEF SyncStep, SyncConnect, SyncConnectFailure, SyncWait, SyncPending,
           SyncReceive, SyncActivate, SyncStop, BrokerAck
  <1>5. CASE CppStep
    BY <1>5
       DEF CppStep, CppConfigure, CppConnect, CppConnectRefused,
           CppOnConnectionSuccess, CppOnConnectionFailure, CppOnDisconnection,
           CppOnSubscribeResult, CppSyncReturns, CppActivate, CppStop,
           CppOnDeliveryComplete, CppOnDeliveryFailure
  <1>6. ~(BecomeActive \/ Deactivate \/ LinkLost \/ Undefined \/ UNCHANGED vars)
    BY DEF BecomeActive, Deactivate, LinkLost, Undefined, vars
  <1> QED
    BY <1>1, <1>2, <1>3, <1>4, <1>5, <1>6 DEF Next, Threads

\* A client without threads of its own never sends a request that was reported,
\* and so deleted, nor writes in one, nor uses the front of an empty queue, in
\* publishFromQueue() or when a delivery is reported.
THEOREM Defined == Spec => []SingleThreadedUsesLive
  <1>1. ASSUME Init PROVE HeldOK /\ FrontOK /\ SingleThreadedUsesLive
    BY <1>1 DEF Init, HeldOK, Handing, FrontOK, SingleThreadedUsesLive, Threads, Standing
  <1>2. ASSUME IInv, HeldOK, FrontOK, [Next]_vars PROVE HeldOK' /\ FrontOK'
    BY <1>2, NextHeld, NextFront DEF IInv
  <1>3. ASSUME IInv, HeldOK, FrontOK, SingleThreadedUsesLive, [Next]_vars
        PROVE  SingleThreadedUsesLive'
    <2> SUFFICES ASSUME SingleThreaded PROVE undefined' = undefined
      BY <1>3, SameLibrary DEF SingleThreadedUsesLive, SingleThreaded
    <2>1. QueueOK /\ ThreadsOK
      BY <1>3 DEF IInv
    <2>2. ASSUME NEW t \in Threads, thread[t].pc \in Pointing
          PROVE  ~Dangles(thread[t].at)
      <3>1. t = "node"
        BY <2>1, <2>2 DEF ThreadsOK, Threads, Pointing
      <3>2. /\ thread[t].at = Len(reported) + 1
            /\ thread[t].at \in 1..Len(request) /\ Len(reported) \in Nat
        BY <2>1, <2>2, <3>1, LenProperties DEF ThreadsOK, QueueOK
      <3>3. ~(Len(reported) + 1 <= Len(reported))
        BY <3>2
      <3> QED
        BY <2>1, <3>2, <3>3 DEF QueueOK
    <2>3. ASSUME NEW m \in inflight, CppOnDeliveryComplete(m)
          PROVE  queue # <<>>
      <3>1. library = "CppMqtt" /\ thread["node"].pc = "sync"
        BY <2>3 DEF CppOnDeliveryComplete, InSync, IsCpp, At
      <3>2. m.id = Len(reported) + 1 /\ m.id <= Len(request)
        BY <1>3, <3>1 DEF HeldOK
      <3>3. Len(request) = Len(reported) + Len(queue) /\ Len(reported) \in Nat
        BY <2>1, LenProperties DEF QueueOK
      <3>4. Len(<<>>) = 0
        OBVIOUS
      <3> QED
        BY <3>2, <3>3, <3>4
    <2>4. \A m \in inflight : ~AsyncOnDelivery(m)
      BY DEF AsyncOnDelivery, Quiet, IsAsync, SingleThreaded
    <2>5. ASSUME NEW t \in Threads, thread[t].pc = "front" PROVE queue # <<>>
      BY <1>3, <2>1, <2>5 DEF FrontOK, ThreadsOK, Threads
    <2> QED
      BY <1>3, <2>2, <2>3, <2>4, <2>5, UndefinedSteps
  <1> QED
    BY <1>1, <1>2, <1>3, Invariance, PTL DEF Spec

----------------------------------------------------------------------------
\* PahoSyncClient: what the library holds.

\* A step that leaves the queue and the library alone, and neither publishes nor
\* assigns a token.
SyncPlainStep ==
    /\ PlainStep
    /\ thread["node"].pc # "assign" /\ thread'["node"].pc # "assign"

\* sync() finds the front request complete, or nothing pending.
FindsComplete ==
    /\ thread["node"].pc \in {"wait", "pending"} /\ inflight' = inflight
    /\ (queue # <<>> /\ ~FrontOutstanding) \/ inflight = {}

LEMMA SyncSteps ==
    ASSUME ThreadsOK, library = "PahoSync", [Next]_vars
    PROVE  \/ /\ UNCHANGED <<queue, request, reported, thread>>
              /\ inflight' \subseteq inflight
           \/ SyncPlainStep
           \/ Taken /\ inflight' = inflight /\ thread["node"].pc = "idle"
              /\ thread'["node"].pc = "taken"
           \/ CheckSize \/ QueueStep("node") \/ FindsComplete
  <1>1. /\ thread \in [Threads -> ThreadRecords] /\ "node" \in Threads
        /\ thread["node"].then \in Returns
    BY DEF ThreadsOK, Threads
  <1>2. thread["node"] \in ThreadRecords
    BY <1>1
  <1>3. CASE NodeStep
    <2>1. CASE \E p \in Publishables, isBirth \in BOOLEAN : TakeRequest(p, isBirth)
      <3>1. /\ Taken /\ inflight' = inflight /\ thread["node"].pc = "idle"
            /\ Goto("node", "taken")
        BY <2>1, TakeRequestEffect DEF TakeRequest, At, sendVars
      <3>2. thread'["node"].pc = "taken"
        BY <1>1, <1>2, <3>1 DEF Goto, ThreadRecords
      <3> QED
        BY <3>1, <3>2
    <2>2. CASE Execute \/ ConnectReturns
      <3>1. /\ UNCHANGED <<inflight, queue, request, reported>>
            /\ thread["node"].pc \in {"idle", "connecting"}
            /\ \/ Goto("node", "idle") \/ Goto("node", "connect")
               \/ Goto("node", "wait") \/ Goto("node", "sync")
        BY <2>2 DEF Execute, ConnectReturns, At, queueVars, sendVars
      <3>2. thread'["node"].pc \in {"idle", "connect", "wait", "sync"}
        BY <1>1, <1>2, <3>1 DEF Goto, ThreadRecords
      <3> QED
        BY <3>1, <3>2 DEF SyncPlainStep, PlainStep, Handing
    <2> QED
      BY <1>3, <2>1, <2>2 DEF NodeStep
  <1>4. CASE SyncStep
    <2>1. CASE SyncActivate \/ SyncStop \/ \E m \in inflight : BrokerAck(m)
      BY <2>1 DEF SyncActivate, SyncStop, BrokerAck, queueVars, sendVars
    <2>2. ASSUME NEW place \in {"connecting", "dump", "receive", "pending", "idle"},
                 UNCHANGED <<inflight, queue, request, reported>>,
                 thread["node"].pc \in {"connect", "wait", "pending", "receive"},
                 \/ Goto("node", place)
                 \/ \E then \in Returns : Call("node", place, then)
          PROVE  SyncPlainStep
      <3>1. thread'["node"].pc = place
        BY <1>1, <1>2, <2>2 DEF Goto, Call, ThreadRecords
      <3> QED
        BY <2>2, <3>1 DEF SyncPlainStep, PlainStep, Handing
    <2>3. CASE SyncConnect \/ SyncConnectFailure \/ SyncReceive
      <3>1. /\ UNCHANGED <<inflight, queue, request, reported>>
            /\ thread["node"].pc \in {"connect", "wait", "pending", "receive"}
            /\ \/ Goto("node", "connecting") \/ Call("node", "dump", "connecting")
               \/ Goto("node", "idle") \/ Call("node", "dump", "idle")
        BY <2>3 DEF SyncConnect, SyncConnectFailure, SyncReceive, At, queueVars,
                    sendVars
      <3> QED
        BY <2>2, <3>1 DEF Returns
    <2>4. CASE SyncWait \/ SyncPending
      <3>1. \/ FindsComplete
            \/ /\ UNCHANGED <<inflight, queue, request, reported>>
               /\ thread["node"].pc \in {"connect", "wait", "pending", "receive"}
               /\ \/ Goto("node", "receive") \/ Goto("node", "pending")
                  \/ Call("node", "dump", "idle")
        BY <2>4 DEF SyncWait, SyncPending, FindsComplete, At, queueVars, sendVars
      <3> QED
        BY <2>2, <3>1 DEF Returns
    <2> QED
      BY <1>4, <2>1, <2>3, <2>4 DEF SyncStep
  <1>5. CASE BecomeActive \/ Deactivate \/ LinkLost \/ Undefined \/ UNCHANGED vars
    BY <1>5 DEF BecomeActive, Deactivate, LinkLost, Undefined, vars, queueVars,
                sendVars
  <1>6. ~AsyncStep /\ ~CppStep
    BY DEF AsyncStep, AsyncCallback, AsyncConnect, AsyncConnectRefused,
           AsyncActivate, AsyncStop, AsyncDisconnect, AsyncOnConnect,
           AsyncOnConnectFailure, AsyncOnDisconnect, AsyncOnSubscription,
           AsyncOnDelivery, AsyncOnDeliveryFailure, Quiet, IsAsync, CppStep,
           CppConfigure, CppConnect, CppConnectRefused, CppOnConnectionSuccess,
           CppOnConnectionFailure, CppOnDisconnection, CppOnSubscribeResult,
           CppSyncReturns, CppActivate, CppStop, CppOnDeliveryComplete,
           CppOnDeliveryFailure, InSync, IsCpp
  <1> QED
    BY <1>3, <1>4, <1>5, <1>6 DEF Next

\* The library holds at most the front request, whose token is the one it was
\* given, or is about to be: sync() finds it outstanding. It holds none while
\* there is something to hand over.
SyncHeldOK ==
    LET pc == thread["node"].pc IN
    library = "PahoSync" =>
        /\ \A m, n \in inflight : m = n
        /\ pc \notin {"dump", "disconnected"} =>
              \A m \in inflight :
                  /\ m.id = Len(reported) + 1 /\ m.id <= Len(request)
                  /\ m.token = IF pc = "assign" THEN thread["node"].token
                               ELSE request[m.id].token
        /\ pc = "taken" => \A m \in inflight : m.id < Len(request)
        /\ pc \in Handing => inflight = {}

LEMMA NextSyncHeld ==
    ASSUME QueueOK, ThreadsOK, SyncHeldOK, [Next]_vars
    PROVE  SyncHeldOK'
  <1> SUFFICES ASSUME library = "PahoSync" PROVE SyncHeldOK'
    BY SameLibrary DEF SyncHeldOK
  <1>1. /\ thread \in [Threads -> ThreadRecords] /\ "node" \in Threads
        /\ thread["node"].then \in Returns /\ SingleThreaded
    BY DEF ThreadsOK, Threads, SingleThreaded
  <1>2. thread["node"] \in ThreadRecords
    BY <1>1
  <1>3. Len(request) \in Nat /\ Len(reported) \in Nat /\ Len(queue) \in Nat
        /\ Len(request) = Len(reported) + Len(queue)
    BY LenProperties DEF QueueOK
  <1>4. CASE inflight' = {}
    BY <1>4 DEF SyncHeldOK
  <1>5. CASE /\ UNCHANGED <<queue, request, reported, thread>>
             /\ inflight' \subseteq inflight
    BY <1>5 DEF SyncHeldOK
  <1>6. CASE SyncPlainStep
    BY <1>6 DEF SyncPlainStep, PlainStep, SyncHeldOK
  <1>7. CASE Taken /\ inflight' = inflight /\ thread["node"].pc = "idle"
             /\ thread'["node"].pc = "taken"
    <2>1. /\ Len(request') = Len(request) + 1 /\ reported' = reported
          /\ \A r \in 1..Len(request) : request'[r] = request[r]
      BY <1>7, TakenIs DEF Taken
    <2>2. \A m \in inflight : /\ m.id = Len(reported) + 1 /\ m.id <= Len(request)
                              /\ m.token = request[m.id].token
      BY <1>7 DEF SyncHeldOK
    <2>3. \A m \in inflight :
              /\ m.id < Len(request') /\ m.id <= Len(request')
              /\ m.token = request'[m.id].token
      BY <1>3, <2>1, <2>2
    <2> QED
      BY <1>7, <2>1, <2>2, <2>3 DEF SyncHeldOK, Handing
  <1>8. CASE CheckSize
    <2>1. /\ UNCHANGED <<inflight, queue, request, reported>>
          /\ thread["node"].pc = "taken"
          /\ Goto("node", "idle") \/ (Len(queue) = 1 /\ Call("node", "publish", "idle"))
      BY <1>8 DEF CheckSize, At, queueVars, sendVars
    <2>2. \/ thread'["node"].pc = "idle"
          \/ Len(queue) = 1 /\ thread'["node"].pc = "publish"
      BY <1>1, <1>2, <2>1 DEF Goto, Call, ThreadRecords
    <2>3. CASE thread'["node"].pc = "idle"
      BY <2>1, <2>3 DEF SyncHeldOK, Handing
    <2>4. CASE Len(queue) = 1
      <3>1. \A m \in inflight : m.id = Len(request) /\ m.id < Len(request)
        BY <1>3, <2>1, <2>4 DEF SyncHeldOK
      <3>2. inflight = {}
        BY <1>3, <3>1
      <3> QED
        BY <1>4, <2>1, <3>2
    <2> QED
      BY <2>2, <2>3, <2>4
  <1>9. CASE FindsComplete
    <2>1. CASE queue # <<>> /\ ~FrontOutstanding
      <3>1. Head(queue) = Len(reported) + 1
        BY <2>1, FrontIsNext
      <3>2. \A m \in inflight : m.id = Head(queue) /\ m.token = request[m.id].token
        BY <1>9, <3>1 DEF FindsComplete, SyncHeldOK
      <3>3. inflight = {}
        BY <2>1, <3>2 DEF FrontOutstanding
      <3> QED
        BY <1>4, <1>9, <3>3 DEF FindsComplete
    <2> QED
      BY <1>4, <1>9, <2>1 DEF FindsComplete
  <1>10. CASE QueueStep("node")
    <2>1. CASE \/ PublishFromQueue("node") \/ ChooseRequest("node")
               \/ TakeFront("node") \/ ProcessRequest("node")
               \/ EncodeRequest("node") \/ SendRefused("node") \/ SendFailed("node")
      <3>1. thread["node"].pc \in Handing /\ inflight' = inflight
        BY <2>1 DEF PublishFromQueue, ChooseRequest, TakeFront, ProcessRequest,
                    EncodeRequest, SendRefused, SendFailed, At, sendVars, Handing
      <3> QED
        BY <1>4, <3>1 DEF SyncHeldOK
    <2>2. ASSUME thread["node"].pc \in {"send", "assign"}
          PROVE  /\ thread["node"].at = Len(reported) + 1
                 /\ thread["node"].at \in 1..Len(request)
                 /\ ~Dangles(thread["node"].at)
      <3>1. /\ thread["node"].at = Len(reported) + 1
            /\ thread["node"].at \in 1..Len(request)
        BY <1>1, <2>2 DEF ThreadsOK, Pointing
      <3>2. ~(Len(reported) + 1 <= Len(reported))
        BY <1>3
      <3> QED
        BY <3>1, <3>2 DEF QueueOK
    <2>3. CASE SendAccepted("node")
      <3> DEFINE m == [token |-> lastToken + 1, id |-> thread["node"].at]
      <3>1. thread["node"].pc = "send" /\ inflight = {} /\ reported' = reported
        BY <2>3 DEF SendAccepted, At, SyncHeldOK, Handing
      <3>2. inflight' = {m} /\ m.id = thread["node"].at /\ m.token = lastToken + 1
        BY <2>2, <2>3, <3>1 DEF SendAccepted
      <3>3. thread'["node"].pc = "assign" /\ thread'["node"].token = lastToken + 1
        BY <1>1, <1>2, <2>2, <2>3, <3>1 DEF SendAccepted, ThreadRecords
      <3>4. Len(request') = Len(request)
        BY <1>1, <2>2, <2>3, <3>1, AcceptedFields
      <3>5. /\ m.id = Len(reported') + 1 /\ m.id <= Len(request')
            /\ m.token = thread'["node"].token
        BY <1>3, <2>2, <3>1, <3>2, <3>3, <3>4
      <3> HIDE DEF m
      <3> QED
        BY <3>2, <3>3, <3>5 DEF SyncHeldOK, Handing
    <2>4. CASE AssignToken("node")
      <3> DEFINE r == thread["node"].at
      <3>1. /\ inflight' = inflight /\ reported' = reported
            /\ thread["node"].pc = "assign" /\ Return("node")
            /\ request' = [request EXCEPT ![r].token = thread["node"].token]
        BY <2>2, <2>4 DEF AssignToken, At, sendVars
      <3>2. r = Len(reported) + 1 /\ r \in 1..Len(request) /\ ~Dangles(r)
        BY <2>2, <3>1
      <3>3. Len(request') = Len(request)
        BY <1>1, <2>4, <3>2, AssignedFields
      <3>4. request'[r].token = thread["node"].token
        <4>1. request[r] \in RequestRecords
          BY <3>2, ElementOfSeq DEF QueueOK
        <4> QED
          BY <3>1, <3>2, <4>1 DEF QueueOK, RequestRecords
      <3>5. thread'["node"].pc \in Returns
        BY <1>1, <3>1 DEF Return, Standing
      <3>6. \A m \in inflight : /\ m.id = r /\ m.id <= Len(request)
                                /\ m.token = thread["node"].token
        BY <3>1, <3>2 DEF SyncHeldOK
      <3> HIDE DEF r
      <3>7. \A m \in inflight' :
                /\ m.id = Len(reported') + 1 /\ m.id <= Len(request')
                /\ m.token = request'[m.id].token
        BY <3>1, <3>2, <3>3, <3>4, <3>6
      <3> QED
        BY <3>1, <3>5, <3>7 DEF SyncHeldOK, Handing, Returns
    <2>5. CASE DumpQueue("node")
      <3>1. /\ inflight' = inflight /\ thread["node"].pc = "dump"
            /\ thread' = thread \/ Goto("node", "disconnected")
        BY <2>5 DEF DumpQueue, At, sendVars
      <3>2. thread'["node"].pc \in {"dump", "disconnected"}
        BY <1>1, <1>2, <3>1 DEF Goto, ThreadRecords
      <3> QED
        BY <3>1, <3>2 DEF SyncHeldOK, Handing
    <2>6. CASE Disconnected("node")
      BY <1>4, <2>6 DEF Disconnected
    <2>7. CASE Settle("node") \/ Tell("node")
      <3>1. /\ UNCHANGED <<inflight, request, reported>> /\ Return("node")
            /\ thread["node"].pc \in {"settle", "tell"}
        BY <2>7 DEF Settle, Tell, At, queueVars, sendVars
      <3>2. thread'["node"].pc \in Returns
        BY <1>1, <3>1 DEF Return, Standing
      <3> QED
        BY <3>1, <3>2 DEF SyncHeldOK, Handing, Returns
    <2> QED
      BY <1>10, <2>1, <2>3, <2>4, <2>5, <2>6, <2>7 DEF QueueStep
  <1> QED
    BY <1>5, <1>6, <1>7, <1>8, <1>9, <1>10, SyncSteps

\* PahoSyncClient and CppMqttClient neither resend a request that the library
\* still holds nor hand over the next, for any number of retries, requests and
\* disruptions.
THEOREM OneRequestInFlight == Spec => []OneAtATime
  <1>1. ASSUME Init PROVE HeldOK /\ SyncHeldOK
    BY <1>1 DEF Init, HeldOK, SyncHeldOK, Handing, Threads, Standing
  <1>2. ASSUME IInv, HeldOK, SyncHeldOK, [Next]_vars PROVE HeldOK' /\ SyncHeldOK'
    BY <1>2, NextHeld, NextSyncHeld DEF IInv
  <1>3. ASSUME IInv, HeldOK, SyncHeldOK PROVE OneAtATime
    BY <1>3
       DEF IInv, ThreadsOK, HeldOK, SyncHeldOK, OneAtATime, SingleThreaded
  <1> QED
    BY <1>1, <1>2, <1>3, Invariance, PTL DEF Spec

----------------------------------------------------------------------------
\* CppMqttClient: the resends.

\* No request has been handed over more often than it was resent, plus once.
CountedOK ==
    \A r \in 1..Len(request) : request[r].attempts <= request[r].retryCount + 1

\* What is about to be handed over was handed over less often than that.
PublishingOK ==
    LET n == Len(reported) + 1
        pc == thread["node"].pc IN
    /\ pc \in {"process", "encode", "send"} =>
          request[n].attempts <= request[n].retryCount
    /\ pc \in {"publish", "choose", "front"} /\ queue # <<>> => request[n].attempts = 0
    /\ pc = "taken" => queue # <<>> /\ request[Len(request)].attempts = 0

RetriesOK == library = "CppMqtt" => CountedOK /\ PublishingOK

LEMMA RequestNumbers ==
    ASSUME QueueOK, NEW r \in 1..Len(request)
    PROVE  /\ request[r].attempts \in Nat
           /\ request[r].retryCount \in 0..PUBLISH_RETRIES
  <1>1. request[r] \in RequestRecords
    BY ElementOfSeq DEF QueueOK
  <1> QED
    BY <1>1 DEF RequestRecords

LEMMA NextCounted ==
    ASSUME QueueOK, ThreadsOK, CountedOK, PublishingOK, library = "CppMqtt", [Next]_vars
    PROVE  CountedOK'
  <1>0. Len(request) \in Nat
    BY LenProperties DEF QueueOK
  <1>1. ASSUME NEW r \in 1..Len(request)
        PROVE  /\ request[r].attempts \in Nat /\ request[r].retryCount \in Int
               /\ request[r].attempts <= request[r].retryCount + 1
    BY RequestNumbers DEF CountedOK
  <1>2. RequestStep
    BY NextRequests
  <1>3. CASE Taken
    <2>1. /\ Len(request') = Len(request) + 1
          /\ \A r \in 1..Len(request) : request'[r] = request[r]
          /\ request'[Len(request) + 1].attempts = 0
          /\ QueueOK'
      BY <1>3, TakenIs, QueueStays
    <2> SUFFICES ASSUME NEW r \in 1..Len(request')
                 PROVE  request'[r].attempts <= request'[r].retryCount + 1
      BY DEF CountedOK
    <2>2. CASE r = Len(request) + 1
      <3>1. request'[r] \in RequestRecords
        BY <2>1, ElementOfSeq DEF QueueOK
      <3>2. request'[r].retryCount \in 0..PUBLISH_RETRIES
        BY <3>1 DEF RequestRecords
      <3> QED
        BY <2>1, <2>2, <3>2
    <2>3. CASE r # Len(request) + 1
      <3>1. r \in 1..Len(request)
        BY <1>0, <2>1, <2>3
      <3> QED
        BY <1>1, <2>1, <3>1
    <2> QED
      BY <2>2, <2>3
  <1>4. ASSUME NEW o \in Outcomes \ {"none"}, queue # <<>>, ReportFront(o)
        PROVE  CountedOK'
    <2>1. Len(request') = Len(request)
      BY <1>4, ReportedIs
    <2> QED
      BY <1>1, <1>4, <2>1, ReportedFields DEF CountedOK
  <1>5. CASE Resent
    <2>1. Len(request') = Len(request)
      <3>1. Head(queue) \in 1..Len(request) /\ queue # <<>>
        BY <1>5, FrontIsNext DEF Resent
      <3> QED
        BY <1>5, <3>1, ResentFields
    <2> SUFFICES ASSUME NEW r \in 1..Len(request)
                 PROVE  request'[r].attempts <= request'[r].retryCount + 1
      BY <2>1 DEF CountedOK
    <2>2. CASE r # Len(reported) + 1
      BY <1>1, <1>5, <2>2, ResentFields
    <2>3. CASE r = Len(reported) + 1
      <3>1. request'[r].attempts = request[r].attempts
            /\ request'[r].retryCount = request[r].retryCount + 1
        BY <1>5, <2>3, ResentFields
      <3> QED
        BY <1>1, <3>1
    <2> QED
      BY <2>2, <2>3
  <1>6. CASE Untouched
    BY <1>6 DEF CountedOK, Untouched
  <1>7. ASSUME NEW t \in Threads, Sending(t) PROVE CountedOK'
    <2>1. CASE Dangles(thread[t].at)
      BY <1>7, <2>1, DanglingUntouched DEF CountedOK
    <2>2. CASE ~Dangles(thread[t].at)
      <3>1. thread[t].pc \in Pointing
        BY <1>7 DEF Sending, SendAccepted, SendRefused, AssignToken, At, Pointing
      <3>2. thread[t].at \in 1..Len(request) /\ t = "node"
            /\ thread[t].at = Len(reported) + 1
        BY <3>1 DEF ThreadsOK, SingleThreaded, Threads, Pointing
      <3>3. Len(request') = Len(request)
        BY <1>7, <2>2, <3>2, AcceptedFields, RefusedFields, AssignedFields DEF Sending
      <3> SUFFICES ASSUME NEW r \in 1..Len(request)
                   PROVE  request'[r].attempts <= request'[r].retryCount + 1
        BY <3>3 DEF CountedOK
      <3>4. CASE r # thread[t].at
        BY <1>1, <1>7, <2>2, <3>4, AcceptedFields, RefusedFields, AssignedFields DEF Sending
      <3>5. CASE AssignToken(t)
        BY <1>1, <2>2, <3>5, AssignedFields
      <3>6. CASE (SendAccepted(t) \/ SendRefused(t)) /\ r = thread[t].at
        <4>1. request'[r].attempts = request[r].attempts + 1
              /\ request'[r].retryCount = request[r].retryCount
          BY <2>2, <3>6, AcceptedFields, RefusedFields
        <4>2. request[r].attempts <= request[r].retryCount
          BY <3>2, <3>6 DEF PublishingOK, SendAccepted, SendRefused, At
        <4> QED
          BY <1>1, <4>1, <4>2
      <3> QED
        BY <1>7, <3>4, <3>5, <3>6 DEF Sending
    <2> QED
      BY <2>1, <2>2
  <1> QED
    BY <1>2, <1>3, <1>4, <1>5, <1>6, <1>7 DEF RequestStep, GivenUp, Confirmed,
                                              Outcomes

\* The request that becomes the front was never handed over.
LEMMA NextFrontUnsent ==
    ASSUME QueueOK, Unsent, queue # <<>>, NEW o \in Outcomes \ {"none"}, ReportFront(o),
           queue' # <<>>
    PROVE  request'[Len(reported') + 1].attempts = 0
  <1> DEFINE n == Len(reported) + 2
  <1>1. /\ Len(reported) \in Nat /\ Len(queue) \in Nat
        /\ Len(request) = Len(reported) + Len(queue) /\ queue \in Seq(Nat)
    BY LenProperties DEF QueueOK
  <1>2. Len(reported') = Len(reported) + 1 /\ queue' = Tail(queue)
    BY ReportedIs
  <1>3. Len(queue) >= 2
    <2>1. Tail(queue) \in Seq(Nat) /\ Len(Tail(queue)) = Len(queue) - 1
      BY <1>1, FrontOf
    <2> QED
      BY <1>1, <1>2, <2>1
  <1>4. n \in 1..Len(request) /\ n # Len(reported) + 1 /\ n > Len(reported) + 1
    BY <1>1, <1>3
  <1>5. request'[n].attempts = request[n].attempts /\ request[n].attempts = 0
    BY <1>4, ReportedFields DEF Unsent
  <1>6. n = Len(reported') + 1
    BY <1>1, <1>2
  <1> QED
    BY <1>5, <1>6

LEMMA RetryOrGiveUpPublishing ==
    ASSUME QueueOK, ThreadsOK, CountedOK, Unsent, queue # <<>>, NEW then \in Returns,
           RetryOrGiveUp("node", then)
    PROVE  PublishingOK'
  <1>1. /\ thread \in [Threads -> ThreadRecords] /\ "node" \in Threads
        /\ thread["node"] \in ThreadRecords
    BY DEF ThreadsOK, Threads
  <1>2. CASE request[Head(queue)].retryCount >= PUBLISH_RETRIES \/ ~IsConnected
    <2>1. /\ ReportFront("UNDELIVERED") /\ Call("node", "publish", then)
          /\ "UNDELIVERED" \in Outcomes \ {"none"}
      BY <1>2 DEF RetryOrGiveUp, Outcomes
    <2>2. thread'["node"].pc = "publish"
      BY <1>1, <2>1 DEF Call, ThreadRecords
    <2> QED
      BY <2>1, <2>2, NextFrontUnsent DEF PublishingOK
  <1>3. CASE ~(request[Head(queue)].retryCount >= PUBLISH_RETRIES \/ ~IsConnected)
    <2>1. /\ Resent
          /\ thread' = [thread EXCEPT !["node"].pc = "process",
                          !["node"].at = Head(queue), !["node"].then = then]
      BY <1>3 DEF RetryOrGiveUp, Resent
    <2>2. thread'["node"].pc = "process"
      BY <1>1, <2>1 DEF ThreadRecords
    <2>3. Len(reported) + 1 \in 1..Len(request)
      BY FrontIsNext
    <2>4. reported' = reported
      BY <2>1 DEF Resent
    <2> DEFINE n == Len(reported) + 1
    <2>5. /\ request'[n].attempts = request[n].attempts
          /\ request'[n].retryCount = request[n].retryCount + 1
          /\ request[n].attempts <= request[n].retryCount + 1
      BY <2>1, <2>3, ResentFields DEF CountedOK
    <2> QED
      BY <2>2, <2>4, <2>5 DEF PublishingOK
  <1> QED
    BY <1>2, <1>3

LEMMA NextPublishing ==
    ASSUME QueueOK, ThreadsOK, CountedOK, PublishingOK, Unsent, library = "CppMqtt",
           [Next]_vars
    PROVE  PublishingOK'
  <1>1. /\ thread \in [Threads -> ThreadRecords] /\ "node" \in Threads
        /\ thread["node"].then \in Returns /\ SingleThreaded
    BY DEF ThreadsOK, Threads, SingleThreaded
  <1>2. thread["node"] \in ThreadRecords
    BY <1>1
  <1>3. CASE thread'["node"].pc \notin Handing \cup {"taken"}
    BY <1>3 DEF PublishingOK, Handing
  <1>4. CASE UNCHANGED <<queue, request, reported, thread>>
    BY <1>4 DEF PublishingOK
  <1>5. CASE PlainStep
    BY <1>3, <1>5 DEF PlainStep
  <1>6. CASE Taken /\ thread'["node"].pc = "taken"
    <2>1. /\ Len(request') = Len(request) + 1 /\ Len(queue') = Len(queue) + 1
          /\ request'[Len(request) + 1].attempts = 0
      BY <1>6, TakenIs
    <2>2. queue' # <<>>
      <3>1. Len(queue) \in Nat /\ Len(<<>>) = 0
        BY LenProperties DEF QueueOK
      <3> QED
        BY <2>1, <3>1
    <2> QED
      BY <1>6, <2>1, <2>2 DEF PublishingOK
  <1>7. CASE CheckSize
    <2>1. /\ UNCHANGED <<queue, request, reported>> /\ thread["node"].pc = "taken"
          /\ Goto("node", "idle") \/ (Len(queue) = 1 /\ Call("node", "publish", "idle"))
      BY <1>7 DEF CheckSize, At, queueVars
    <2>2. \/ thread'["node"].pc = "idle"
          \/ Len(queue) = 1 /\ thread'["node"].pc = "publish"
      BY <1>1, <1>2, <2>1 DEF Goto, Call, ThreadRecords
    <2>3. Len(queue) = 1 => Len(request) = Len(reported) + 1
      BY DEF QueueOK
    <2> QED
      BY <2>1, <2>2, <2>3 DEF PublishingOK
  <1>8. ASSUME NEW m \in inflight, CppOnDeliveryComplete(m) \/ CppOnDeliveryFailure(m)
        PROVE  PublishingOK'
    <2>1. CASE UNCHANGED <<queueVars, thread>>
      BY <1>4, <2>1 DEF queueVars
    <2>2. CASE queue # <<>> /\ ReportFront("DELIVERED") /\ Call("node", "publish", "sync")
      <3>1. thread'["node"].pc = "publish"
        BY <1>1, <1>2, <2>2 DEF Call, ThreadRecords
      <3>2. "DELIVERED" \in Outcomes \ {"none"}
        BY DEF Outcomes
      <3> QED
        BY <2>2, <3>1, <3>2, NextFrontUnsent DEF PublishingOK
    <2>3. CASE queue # <<>> /\ RetryOrGiveUp("node", "sync")
      BY <2>3, RetryOrGiveUpPublishing DEF Returns
    <2> QED
      BY <1>8, <2>1, <2>2, <2>3 DEF CppOnDeliveryComplete, CppOnDeliveryFailure
  <1>9. CASE QueueStep("node")
    <2>1. CASE PublishFromQueue("node") \/ ChooseRequest("node") \/ Settle("node")
      <3>1. /\ UNCHANGED <<queue, request, reported>>
            /\ \/ Return("node")
               \/ /\ thread["node"].pc \in {"publish", "choose"}
                  /\ \E place \in {"choose", "front", "settle"} : Goto("node", place)
        BY <2>1 DEF PublishFromQueue, ChooseRequest, Settle, At, queueVars
      <3>2. \/ thread'["node"].pc \in Returns
            \/ /\ thread["node"].pc \in {"publish", "choose"}
               /\ thread'["node"].pc \in {"choose", "front", "settle"}
        BY <1>1, <1>2, <3>1 DEF Return, Standing, Goto, ThreadRecords
      <3> QED
        BY <3>1, <3>2 DEF PublishingOK, Returns
    <2>2. CASE TakeFront("node")
      <3>1. CASE queue = <<>>
        BY <1>4, <2>2, <3>1 DEF TakeFront, queueVars
      <3>2. CASE queue # <<>>
        <4>1. /\ UNCHANGED <<queue, request, reported>> /\ thread["node"].pc = "front"
              /\ thread' = [thread EXCEPT !["node"].pc = "process",
                                         !["node"].at = Head(queue)]
          BY <2>2, <3>2 DEF TakeFront, At, queueVars
        <4>2. thread'["node"].pc = "process"
          BY <1>1, <1>2, <4>1 DEF ThreadRecords
        <4> DEFINE n == Len(reported) + 1
        <4>3. /\ request[n].attempts = 0 /\ n \in 1..Len(request)
              /\ request[n].retryCount \in 0..PUBLISH_RETRIES
          BY <3>2, <4>1, FrontIsNext, RequestNumbers DEF PublishingOK
        <4>4. request[n].attempts <= request[n].retryCount
          BY <4>3
        <4> QED
          BY <4>1, <4>2, <4>4 DEF PublishingOK
      <3> QED
        BY <3>1, <3>2
    <2>6. CASE ProcessRequest("node") \/ EncodeRequest("node")
      <3>1. /\ UNCHANGED <<queue, request, reported>>
            /\ thread["node"].pc \in {"process", "encode"}
        BY <2>6 DEF ProcessRequest, EncodeRequest, At, queueVars
      <3>2. \/ thread' = thread \/ Return("node") \/ Goto("node", "encode")
            \/ \E n : thread' = [thread EXCEPT !["node"].pc = "send", !["node"].number = n]
        BY <2>6 DEF ProcessRequest, EncodeRequest
      <3>3. thread'["node"].pc \in Returns \cup {"process", "encode", "send"}
        BY <1>1, <1>2, <3>1, <3>2 DEF Return, Goto, Standing, ThreadRecords
      <3> QED
        BY <3>1, <3>3 DEF PublishingOK, Returns
    <2>3. CASE SendAccepted("node") \/ SendRefused("node") \/ AssignToken("node")
      <3>1. CASE UNCHANGED <<request, thread>>
        BY <1>4, <2>3, <3>1 DEF SendAccepted, SendRefused, AssignToken
      <3>2. CASE ~UNCHANGED <<request, thread>>
        <4>1. \/ Return("node") \/ Goto("node", "failed")
              \/ thread' = [thread EXCEPT !["node"].pc = "assign",
                                         !["node"].token = lastToken + 1]
          BY <2>3, <3>2 DEF SendAccepted, SendRefused, AssignToken
        <4>2. thread'["node"].pc \in Returns \cup {"failed", "assign"}
          BY <1>1, <1>2, <4>1 DEF Return, Standing, Goto, ThreadRecords
        <4> QED
          BY <4>2 DEF PublishingOK, Returns
      <3> QED
        BY <3>1, <3>2
    <2>4. CASE SendFailed("node")
      BY <1>1, <2>4, SendFailedEffect, RetryOrGiveUpPublishing DEF SendFailed
    <2>5. CASE DumpQueue("node") \/ Disconnected("node") \/ Tell("node")
      <3>1. /\ thread["node"].pc \in {"dump", "disconnected", "tell"}
            /\ \/ thread' = thread \/ Goto("node", "disconnected")
               \/ Goto("node", "tell") \/ Return("node")
        BY <2>5 DEF DumpQueue, Disconnected, Tell, At
      <3>2. thread'["node"].pc \in Returns \cup {"dump", "disconnected", "tell"}
        BY <1>1, <1>2, <3>1 DEF Return, Standing, Goto, ThreadRecords
      <3> QED
        BY <3>2 DEF PublishingOK, Returns
    <2> QED
      BY <1>9, <2>1, <2>2, <2>3, <2>4, <2>5, <2>6 DEF QueueStep
  <1> QED
    BY <1>4, <1>5, <1>6, <1>7, <1>8, <1>9, CppSteps

\* onDeliveryFailure: CppMqttClient hands no request over more often than
\* PUBLISH_RETRIES allows, for every number of retries, also where the resends
\* nest inside a refused publish.
THEOREM Bounded == Spec => []RetriesAreBounded
  <1>1. ASSUME Init PROVE RetriesOK /\ Unsent
    BY <1>1 DEF Init, RetriesOK, CountedOK, PublishingOK, Unsent, Threads,
                Standing
  <1>2. ASSUME IInv, RetriesOK /\ Unsent, [Next]_vars PROVE (RetriesOK /\ Unsent)'
    <2>1. Unsent'
      BY <1>2, NextEffect, NextUnsent DEF IInv
    <2>2. library' = library
      BY <1>2, SameLibrary
    <2>3. CASE library = "CppMqtt"
      BY <1>2, <2>1, <2>3, NextCounted, NextPublishing DEF IInv, RetriesOK
    <2>4. CASE library # "CppMqtt"
      BY <2>1, <2>2, <2>4 DEF RetriesOK
    <2> QED
      BY <2>3, <2>4
  <1>3. ASSUME IInv, RetriesOK PROVE RetriesAreBounded
    <2> SUFFICES ASSUME library = "CppMqtt", NEW r \in 1..Len(request)
                 PROVE  request[r].attempts <= PUBLISH_RETRIES + 1
      BY DEF RetriesAreBounded
    <2>1. /\ request[r].attempts \in Nat
          /\ request[r].retryCount \in 0..PUBLISH_RETRIES
          /\ request[r].attempts <= request[r].retryCount + 1
      BY <1>3, RequestNumbers DEF IInv, RetriesOK, CountedOK
    <2> QED
      BY <2>1
  <1> QED
    BY <1>1, <1>2, <1>3, Invariance, PTL DEF Spec

=============================================================================
