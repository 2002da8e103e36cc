---------------------------- MODULE Publishable ----------------------------
(***************************************************************************)
(* One Publishable (the Node or a Device): its publish timer, its          *)
(* IDLE / CAN_PUBLISH / PUBLISHING state and the dirty flags of its        *)
(* Metrics, from the moment a value changes to the moment the request that *)
(* carries it is resolved by a client (src/src/Publishable.cpp,            *)
(* src/src/metrics/Metric.cpp and their callers in src/src/Node.cpp).      *)
(*                                                                         *)
(* The clients are reduced to what a Publishable sees of them: a FIFO of   *)
(* its PublishRequests per client, which is encoded, retried, delivered or *)
(* given up, and the DELIVERED / UNDELIVERED events the Node queues.       *)
(***************************************************************************)
EXTENDS Integers, Sequences

CONSTANTS Metrics,        \* the metrics of the publishable
          Values,         \* the values a metric can hold
          InitialValue,   \* the value every metric is created with
          Clients,        \* the clients a request can be handed to
          publishPeriod,  \* Publishable::publishPeriod
          Elapsed,        \* the times execute() can be called with
          MaxOutstanding  \* bound: requests and events not processed yet

ASSUME PublishableAssumption ==
    /\ publishPeriod \in Nat \ {0}
    /\ Elapsed \subseteq Nat
    /\ InitialValue \in Values
    /\ MaxOutstanding \in Nat

VARIABLES state,        \* PublishableState
          nextPublish,  \* time left before the next publish
          value, dirty, \* Metric::data and Metric::dirty, per metric
          queue,        \* client -> its requests of this publishable
          active,       \* the node's active client
          events,       \* DELIVERED / UNDELIVERED events not processed yet
          sent,         \* history: the value last put in a payload
          sinceData     \* history: time since the last DATA request, at most
                        \* publishPeriod

vars == <<state, nextPublish, value, dirty, queue, active, events, sent,
          sinceData>>

States == {"IDLE", "CAN_PUBLISH", "PUBLISHING"}
Events == {"DELIVERED", "UNDELIVERED"}
Requests == [birth : BOOLEAN, encoded : BOOLEAN]

TypeOK ==
    /\ state \in States
    /\ nextPublish \in 1..publishPeriod
    /\ value \in [Metrics -> Values]
    /\ dirty \in [Metrics -> BOOLEAN]
    /\ queue \in [Clients -> Seq(Requests)]
    /\ active \in Clients
    /\ events \in Seq(Events)
    /\ sent \in [Metrics -> Values]
    /\ sinceData \in 0..publishPeriod

----------------------------------------------------------------------------
\* Bound: the outstanding requests and events stay below MaxOutstanding.
RoomForRequest ==
    \A c \in Clients : Len(queue[c]) + Len(events) < MaxOutstanding

AtMostPeriod(t) == IF t < publishPeriod THEN t ELSE publishPeriod

\* Mutants of Update: the timer is not restarted when it expires; an elapsed
\* time equal to the time left does not expire it.
UpdateNoRestart(elapsed) ==
    IF state # "IDLE" THEN [state |-> state, next |-> nextPublish]
    ELSE IF nextPublish <= elapsed
      THEN [state |-> "CAN_PUBLISH", next |-> nextPublish]
      ELSE [state |-> "IDLE", next |-> nextPublish - elapsed]

UpdateOffByOne(elapsed) ==
    IF state # "IDLE" THEN [state |-> state, next |-> nextPublish]
    ELSE IF nextPublish < elapsed
      THEN [state |-> "CAN_PUBLISH", next |-> publishPeriod]
      ELSE [state |-> "IDLE", next |-> nextPublish - elapsed]

\* Publishable::update: the timer only runs while the publishable is IDLE.
\* The result is the new state and the new time left.
Update(elapsed) ==
    IF state # "IDLE" THEN [state |-> state, next |-> nextPublish]
    ELSE IF nextPublish <= elapsed
      THEN [state |-> "CAN_PUBLISH", next |-> publishPeriod]
      ELSE [state |-> "IDLE", next |-> nextPublish - elapsed]

\* Publishable::canPublish, asked of the state s.
CanPublish(s) == s = "CAN_PUBLISH" /\ \E m \in Metrics : dirty[m]

\* Node::publish up to the client's request(): the publishable is PUBLISHING
\* and a new request is the last of client c's queue.
Publish(c, isBirth) ==
    /\ state' = "PUBLISHING"
    /\ queue' = [queue EXCEPT ![c] =
                   Append(@, [birth |-> isBirth, encoded |-> FALSE])]

----------------------------------------------------------------------------
Init ==
    /\ state = "IDLE"
    /\ nextPublish = publishPeriod
    /\ value = [m \in Metrics |-> InitialValue]
    /\ dirty = [m \in Metrics |-> FALSE]
    /\ queue = [c \in Clients |-> <<>>]
    /\ active \in Clients
    /\ events = <<>>
    /\ sent = [m \in Metrics |-> InitialValue]
    /\ sinceData = publishPeriod

\* Metric::setValue: a metric already dirty stays so even if it gets its old
\* value back.
SetValue(m, v) ==
    /\ value' = [value EXCEPT ![m] = v]
    /\ dirty' = [dirty EXCEPT ![m] = @ \/ v # value[m]]
    /\ UNCHANGED <<state, nextPublish, queue, active, events, sent, sinceData>>

\* The part of Node::execute that concerns this publishable: update(), then
\* publish() if it can publish.
Execute(elapsed) ==
    LET timer == Update(elapsed) IN
    /\ RoomForRequest
    /\ nextPublish' = timer.next
    /\ IF CanPublish(timer.state)
         THEN Publish(active, FALSE) /\ sinceData' = 0
         ELSE /\ state' = timer.state
              /\ sinceData' = AtMostPeriod(sinceData + elapsed)
              /\ UNCHANGED queue
    /\ UNCHANGED <<value, dirty, active, events, sent>>

\* Node::publishBirth, after client c became active or on a rebirth command
\* that c received: the birth is requested in any state.
PublishBirth(c) ==
    /\ RoomForRequest
    /\ active' = c
    /\ Publish(c, TRUE)
    /\ UNCHANGED <<nextPublish, value, dirty, events, sent, sinceData>>

\* Node::requestPublish of a DATA message, from a command handler: publish()
\* returns early unless the publishable can publish.
RequestPublish ==
    /\ RoomForRequest
    /\ CanPublish(state)
    /\ Publish(active, FALSE)
    /\ sinceData' = 0
    /\ UNCHANGED <<nextPublish, value, dirty, active, events, sent>>

\* Publishable::addToPayload, called when client c builds the payload of its
\* front request, again at every retry of it: the timer restarts and the
\* payload takes every metric of a birth, the dirty ones of a DATA message.
Encode(c) ==
    /\ queue[c] # <<>>
    /\ queue' = [queue EXCEPT ![c] =
                   <<[birth |-> Head(@).birth, encoded |-> TRUE]>> \o Tail(@)]
    /\ nextPublish' = publishPeriod
    /\ sent' = [m \in Metrics |-> IF dirty[m] \/ Head(queue[c]).birth
                                  THEN value[m] ELSE sent[m]]
    /\ UNCHANGED <<state, value, dirty, active, events, sinceData>>

\* The client pops its front request and queues the event for the Node.
Resolve(c, event) ==
    /\ queue' = [queue EXCEPT ![c] = Tail(@)]
    /\ events' = Append(events, event)
    /\ UNCHANGED <<state, nextPublish, value, dirty, active, sent, sinceData>>

Delivered(c) ==
    /\ queue[c] # <<>> /\ Head(queue[c]).encoded
    /\ Resolve(c, "DELIVERED")

\* Mutant of Undelivered: the request is dropped without an event.
UndeliveredSilently(c) ==
    /\ queue[c] # <<>>
    /\ queue' = [queue EXCEPT ![c] = Tail(@)]
    /\ UNCHANGED <<state, nextPublish, value, dirty, active, events, sent,
                   sinceData>>

\* Retries exhausted, or the queue dumped because the connection is lost: the
\* request may never have been encoded.
Undelivered(c) ==
    /\ queue[c] # <<>>
    /\ Resolve(c, "UNDELIVERED")


\* Node::processEvents on a DELIVERED or an UNDELIVERED event: both call
\* Publishable::published(), and that Metric::published() on every metric.
Published ==
    /\ events # <<>>
    /\ events' = Tail(events)
    /\ state' = "IDLE"
    /\ dirty' = [m \in Metrics |-> FALSE]
    /\ UNCHANGED <<nextPublish, value, queue, active, sent, sinceData>>

Next ==
    \/ \E m \in Metrics, v \in Values : SetValue(m, v)
    \/ \E e \in Elapsed : Execute(e)
    \/ RequestPublish
    \/ \E c \in Clients :
          PublishBirth(c) \/ Encode(c) \/ Delivered(c) \/ Undelivered(c)
    \/ Published

Spec == Init /\ [][Next]_vars

\* The application keeps calling execute() with some time elapsed. Nothing is
\* assumed of the clients.
FairSpec == Spec /\ WF_vars(\E e \in Elapsed \ {0} : Execute(e))

----------------------------------------------------------------------------
\* Publishable.h:59: the publish period "determines the minimum time per
\* publish". A DATA message is requested only when execute() has been given at
\* least publishPeriod since the previous DATA request, whatever births,
\* retries and late deliveries do to the timer and the state in between.
PublishSpacing ==
    [][/\ \A e \in Elapsed : Execute(e) /\ queue' # queue
                                => sinceData + e >= publishPeriod
       /\ RequestPublish => sinceData >= publishPeriod]_vars

\* What makes it so: the time a publishable still has to wait plus the time it
\* has waited since its last DATA message is never short of the period.
WaitedLongEnough ==
    IF state = "CAN_PUBLISH"
      THEN sinceData = publishPeriod /\ nextPublish = publishPeriod
      ELSE sinceData + nextPublish >= publishPeriod

\* A publishable that waits in PUBLISHING (the timer stopped, so that no other
\* step can restart it) has a request or an event that will release it.
PublishingIsOutstanding ==
    state = "PUBLISHING" => events # <<>> \/ \E c \in Clients : queue[c] # <<>>

\* Nothing of the publishable is under way.
NothingUnderWay == events = <<>> /\ \A c \in Clients : queue[c] = <<>>

GivenUp == \E i \in DOMAIN events : events[i] = "UNDELIVERED"

ClientsResolve == \A c \in Clients : []<>(queue[c] = <<>>)


\* Metric.h:115: published() is "Used to mark the metric that is had been
\* published": on a DELIVERED event, a metric is marked published only if its
\* value is the one that was sent.
DeliveredMarksWhatWasSent ==
    [][Published /\ Head(events) = "DELIVERED"
          => \A m \in Metrics : dirty[m] => sent[m] = value[m]]_vars

=============================================================================
