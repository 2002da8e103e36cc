------------------------- MODULE PublishableProofs -------------------------
(***************************************************************************)
(* Proofs about Publishable, for every set of metrics and clients, every   *)
(* publish period and every pace at which execute() is called: its type    *)
(* invariant, the invariant behind the minimum time between DATA messages, *)
(* that minimum time, and that a PUBLISHING publishable has a request or   *)
(* an event outstanding.                                                   *)
(***************************************************************************)
EXTENDS Publishable, TLAPS

USE PublishableAssumption DEF States, Events, Requests

\* The two conjuncts of the timer's argument are proved together: the time
\* left is bounded by the period only because of the type invariant.
TimerInv == TypeOK /\ WaitedLongEnough

\* The front and the rest of a queue of elements of S.
LEMMA HeadAndTail ==
    ASSUME NEW S, NEW s \in Seq(S), s # <<>>
    PROVE  Head(s) \in S /\ Tail(s) \in Seq(S)
  OBVIOUS

LEMMA AtMostPeriodRange ==
    ASSUME NEW t \in Nat
    PROVE  /\ AtMostPeriod(t) \in 0..publishPeriod
           /\ t >= publishPeriod => AtMostPeriod(t) = publishPeriod
           /\ t < publishPeriod => AtMostPeriod(t) = t
  BY DEF AtMostPeriod

\* Appending to one of the queues keeps them queues of requests.
LEMMA PublishType ==
    ASSUME TypeOK, NEW c \in Clients, NEW b \in BOOLEAN, Publish(c, b)
    PROVE  /\ state' = "PUBLISHING"
           /\ queue' \in [Clients -> Seq(Requests)]
           /\ queue'[c] # <<>>
  <1>1. queue[c] \in Seq(Requests)
    BY DEF TypeOK
  <1>2. [birth |-> b, encoded |-> FALSE] \in Requests
    OBVIOUS
  <1>3. Append(queue[c], [birth |-> b, encoded |-> FALSE])
            \in Seq(Requests) \ {<<>>}
    BY <1>1, <1>2
  <1>4. queue' = [queue EXCEPT ![c] =
                    Append(queue[c], [birth |-> b, encoded |-> FALSE])]
    BY DEF Publish
  <1> QED
    BY <1>3, <1>4 DEF Publish, TypeOK

\* Taking the front of a queue off leaves a queue.
LEMMA ResolveType ==
    ASSUME TypeOK, NEW c \in Clients, queue[c] # <<>>,
           NEW e \in Events, Resolve(c, e)
    PROVE  TypeOK'
  <1>1. Tail(queue[c]) \in Seq(Requests)
    BY DEF TypeOK
  <1>2. Append(events, e) \in Seq(Events)
    BY DEF TypeOK
  <1> QED
    BY <1>1, <1>2 DEF TypeOK, Resolve

\* What update() returns: the time left stays within the period, and it expires
\* only when the time it was given covers the time that was left.
LEMMA UpdateResult ==
    ASSUME TypeOK, NEW e \in Nat
    PROVE  /\ Update(e).state \in States
           /\ Update(e).next \in 1..publishPeriod
           /\ state # "IDLE" => Update(e) = [state |-> state, next |-> nextPublish]
           /\ state = "IDLE" /\ Update(e).state = "CAN_PUBLISH"
                => Update(e).next = publishPeriod /\ nextPublish <= e
           /\ state = "IDLE" /\ Update(e).state # "CAN_PUBLISH"
                => Update(e).next = nextPublish - e
  <1>1. CASE state # "IDLE"
    BY <1>1 DEF TypeOK, Update
  <1>2. CASE state = "IDLE" /\ nextPublish <= e
    BY <1>2 DEF TypeOK, Update
  <1>3. CASE state = "IDLE" /\ ~(nextPublish <= e)
    BY <1>3 DEF TypeOK, Update
  <1> QED
    BY <1>1, <1>2, <1>3

LEMMA InitTimerInv == Init => TimerInv
  BY DEF Init, TimerInv, TypeOK, WaitedLongEnough

\* One step per action; execute() is the only one that lets time pass.
LEMMA NextTimerInv ==
    ASSUME TimerInv, [Next]_vars
    PROVE  TimerInv'
  <1> USE DEF TimerInv
  <1>1. ASSUME NEW m \in Metrics, NEW v \in Values, SetValue(m, v)
        PROVE  TimerInv'
    BY <1>1 DEF SetValue, TypeOK, WaitedLongEnough
  <1>2. ASSUME NEW e \in Elapsed, Execute(e)
        PROVE  TimerInv'
    <2> DEFINE timer == Update(e)
    <2>1. e \in Nat
      OBVIOUS
    <2>2. /\ timer.state \in States
          /\ timer.next \in 1..publishPeriod
          /\ state # "IDLE" => timer = [state |-> state, next |-> nextPublish]
          /\ state = "IDLE" /\ timer.state = "CAN_PUBLISH"
               => timer.next = publishPeriod /\ nextPublish <= e
          /\ state = "IDLE" /\ timer.state # "CAN_PUBLISH"
               => timer.next = nextPublish - e
      BY <2>1, UpdateResult
    <2> HIDE DEF timer
    <2>3. nextPublish' = timer.next
      BY <1>2 DEF Execute, timer
    <2>4. CASE CanPublish(timer.state)
      <3>1. Publish(active, FALSE) /\ sinceData' = 0
        BY <1>2, <2>4 DEF Execute, timer
      <3>2. state' = "PUBLISHING" /\ queue' \in [Clients -> Seq(Requests)]
        BY <3>1, PublishType DEF TypeOK
      <3>3. timer.state = "CAN_PUBLISH" /\ timer.next = publishPeriod
        BY <2>2, <2>4 DEF CanPublish, TypeOK, WaitedLongEnough
      <3>4. UNCHANGED <<value, dirty, active, events, sent>>
        BY <1>2 DEF Execute
      <3> QED
        BY <2>3, <3>1, <3>2, <3>3, <3>4 DEF TypeOK, WaitedLongEnough
    <2>5. CASE ~CanPublish(timer.state)
      <3>1. /\ state' = timer.state
            /\ sinceData' = AtMostPeriod(sinceData + e)
            /\ UNCHANGED <<value, dirty, active, events, sent, queue>>
        BY <1>2, <2>5 DEF Execute, timer
      <3>2. sinceData + e \in Nat
        BY <2>1 DEF TypeOK
      <3>3. TypeOK'
        BY <2>2, <2>3, <3>1, <3>2, AtMostPeriodRange DEF TypeOK
      <3>4. WaitedLongEnough'
        <4> DEFINE waited == AtMostPeriod(sinceData + e)
        <4>1. /\ waited \in 0..publishPeriod
              /\ sinceData + e >= publishPeriod => waited = publishPeriod
              /\ sinceData + e < publishPeriod => waited = sinceData + e
          BY <3>2, AtMostPeriodRange
        <4>2. state' = timer.state /\ sinceData' = waited
          BY <3>1
        <4> HIDE DEF waited
        <4>3. CASE state = "IDLE"
          BY <2>1, <2>2, <2>3, <4>1, <4>2, <4>3 DEF TypeOK, WaitedLongEnough
        <4>4. CASE state # "IDLE"
          BY <2>1, <2>2, <2>3, <4>1, <4>2, <4>4 DEF TypeOK, WaitedLongEnough
        <4> QED
          BY <4>3, <4>4
      <3> QED
        BY <3>3, <3>4
    <2> QED
      BY <2>4, <2>5
  <1>3. ASSUME RequestPublish
        PROVE  TimerInv'
    <2>1. Publish(active, FALSE) /\ sinceData' = 0
      BY <1>3 DEF RequestPublish
    <2>2. state' = "PUBLISHING" /\ queue' \in [Clients -> Seq(Requests)]
      BY <2>1, PublishType DEF TypeOK
    <2> QED
      BY <1>3, <2>1, <2>2
         DEF RequestPublish, CanPublish, TypeOK, WaitedLongEnough
  <1>4. ASSUME NEW c \in Clients, PublishBirth(c)
        PROVE  TimerInv'
    <2>1. state' = "PUBLISHING" /\ queue' \in [Clients -> Seq(Requests)]
      BY <1>4, PublishType DEF PublishBirth
    <2> QED
      BY <1>4, <2>1 DEF PublishBirth, TypeOK, WaitedLongEnough
  <1>5. ASSUME NEW c \in Clients, Encode(c)
        PROVE  TimerInv'
    <2>1. queue[c] \in Seq(Requests) /\ queue[c] # <<>>
      BY <1>5 DEF Encode, TypeOK
    <2> DEFINE encoded == <<[birth |-> Head(queue[c]).birth, encoded |-> TRUE]>>
    <2>2. encoded \o Tail(queue[c]) \in Seq(Requests)
      <3>1. Head(queue[c]) \in Requests /\ Tail(queue[c]) \in Seq(Requests)
        BY <2>1, HeadAndTail
      <3>2. [birth |-> Head(queue[c]).birth, encoded |-> TRUE] \in Requests
        BY <3>1
      <3> QED
        BY <3>1, <3>2
    <2>3. queue' = [queue EXCEPT ![c] = encoded \o Tail(queue[c])]
      BY <1>5 DEF Encode
    <2> QED
      BY <1>5, <2>2, <2>3 DEF Encode, TypeOK, WaitedLongEnough
  <1>6. ASSUME NEW c \in Clients, Delivered(c) \/ Undelivered(c)
        PROVE  TimerInv'
    <2>1. PICK e \in Events : Resolve(c, e)
      BY <1>6 DEF Delivered, Undelivered
    <2>2. TypeOK'
      BY <1>6, <2>1, ResolveType DEF Delivered, Undelivered
    <2> QED
      BY <2>1, <2>2 DEF Resolve, WaitedLongEnough
  <1>7. ASSUME Published
        PROVE  TimerInv'
    <2>1. Tail(events) \in Seq(Events)
      BY <1>7 DEF Published, TypeOK
    <2> QED
      BY <1>7, <2>1 DEF Published, TypeOK, WaitedLongEnough
  <1>8. CASE UNCHANGED vars
    BY <1>8 DEF vars, TypeOK, WaitedLongEnough
  <1> QED
    BY <1>1, <1>2, <1>3, <1>4, <1>5, <1>6, <1>7, <1>8 DEF Next

\* The type invariant of one publishable with its requests and events.
THEOREM TypeCorrect == Spec => []TypeOK
  <1>1. TimerInv => TypeOK
    BY DEF TimerInv
  <1> QED
    BY InitTimerInv, NextTimerInv, <1>1, PTL DEF Spec

\* The timer's invariant: what is left to wait plus what has been waited since
\* the last DATA message covers the publish period.
THEOREM TimerCorrect == Spec => []WaitedLongEnough
  <1>1. TimerInv => WaitedLongEnough
    BY DEF TimerInv
  <1> QED
    BY InitTimerInv, NextTimerInv, <1>1, PTL DEF Spec

\* Two DATA messages of a publishable are at least a publish period apart.
THEOREM MinimumTimePerPublish == Spec => PublishSpacing
  <1> DEFINE Spaced ==
        /\ \A e \in Elapsed : Execute(e) /\ queue' # queue
                                => sinceData + e >= publishPeriod
        /\ RequestPublish => sinceData >= publishPeriod
  <1>1. TimerInv => [Spaced]_vars
    <2> SUFFICES ASSUME TimerInv PROVE Spaced
      OBVIOUS
    <2> USE DEF TimerInv
    <2>1. ASSUME NEW e \in Elapsed, Execute(e), queue' # queue
          PROVE  sinceData + e >= publishPeriod
      <3>1. e \in Nat
        OBVIOUS
      <3>2. Update(e).state = "CAN_PUBLISH"
        BY <2>1 DEF Execute, CanPublish
      <3> QED
        BY <3>1, <3>2, UpdateResult DEF TypeOK, WaitedLongEnough
    <2>2. RequestPublish => sinceData >= publishPeriod
      BY DEF RequestPublish, CanPublish, TypeOK, WaitedLongEnough
    <2> QED
      BY <2>1, <2>2
  <1>2. Spec => []TimerInv
    BY InitTimerInv, NextTimerInv, PTL DEF Spec
  <1>3. Spec => [][Spaced]_vars
    BY <1>1, <1>2, PTL
  <1> QED
    BY <1>3 DEF PublishSpacing

\* A publishable whose timer is stopped in PUBLISHING is going to be released:
\* a client still holds a request of it, or the event is on its way.
THEOREM PublishingOutstanding == Spec => []PublishingIsOutstanding
  <1> DEFINE IInv == TypeOK /\ PublishingIsOutstanding
  <1>1. Init => PublishingIsOutstanding
    BY DEF Init, PublishingIsOutstanding
  <1>2. ASSUME TypeOK, PublishingIsOutstanding, [Next]_vars
        PROVE  PublishingIsOutstanding'
    <2>1. ASSUME NEW m \in Metrics, NEW v \in Values, SetValue(m, v)
          PROVE  PublishingIsOutstanding'
      BY <1>2, <2>1 DEF SetValue, PublishingIsOutstanding
    <2>2. ASSUME NEW e \in Elapsed, Execute(e)
          PROVE  PublishingIsOutstanding'
      <3>1. CASE CanPublish(Update(e).state)
        BY <1>2, <2>2, <3>1, PublishType
           DEF Execute, TypeOK, PublishingIsOutstanding
      <3>2. CASE ~CanPublish(Update(e).state)
        <4>1. state' = "PUBLISHING" => state = "PUBLISHING"
          BY <2>2, <3>2 DEF Execute, Update
        <4> QED
          BY <1>2, <2>2, <3>2, <4>1 DEF Execute, PublishingIsOutstanding
      <3> QED
        BY <3>1, <3>2
    <2>3. ASSUME RequestPublish
          PROVE  PublishingIsOutstanding'
      BY <1>2, <2>3, PublishType
         DEF RequestPublish, TypeOK, PublishingIsOutstanding
    <2>4. ASSUME NEW c \in Clients, PublishBirth(c)
          PROVE  PublishingIsOutstanding'
      BY <1>2, <2>4, PublishType DEF PublishBirth, PublishingIsOutstanding
    <2>5. ASSUME NEW c \in Clients, Encode(c)
          PROVE  PublishingIsOutstanding'
      <3>1. queue[c] \in Seq(Requests) /\ queue[c] # <<>>
        BY <1>2, <2>5 DEF Encode, TypeOK
      <3> DEFINE encoded == <<[birth |-> Head(queue[c]).birth, encoded |-> TRUE]>>
      <3>2. encoded \o Tail(queue[c]) # <<>>
        BY <3>1
      <3>3. queue'[c] = encoded \o Tail(queue[c])
        BY <1>2, <2>5 DEF Encode, TypeOK
      <3> QED
        BY <3>2, <3>3 DEF PublishingIsOutstanding
    <2>6. ASSUME NEW c \in Clients, Delivered(c) \/ Undelivered(c)
          PROVE  PublishingIsOutstanding'
      <3>1. PICK e \in Events : events' = Append(events, e)
        BY <2>6 DEF Delivered, Undelivered, Resolve
      <3>2. events' # <<>>
        <4>1. events \in Seq(Events)
          BY <1>2 DEF TypeOK
        <4> QED
          BY <3>1, <4>1
      <3> QED
        BY <3>2 DEF PublishingIsOutstanding
    <2>7. ASSUME Published
          PROVE  PublishingIsOutstanding'
      BY <2>7 DEF Published, PublishingIsOutstanding
    <2>8. CASE UNCHANGED vars
      BY <1>2, <2>8 DEF vars, PublishingIsOutstanding
    <2> QED
      BY <1>2, <2>1, <2>2, <2>3, <2>4, <2>5, <2>6, <2>7, <2>8 DEF Next
  <1> QED
    BY <1>1, <1>2, TypeCorrect, PTL DEF Spec

=============================================================================
