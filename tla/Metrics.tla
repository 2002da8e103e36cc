------------------------------ MODULE Metrics ------------------------------
(***************************************************************************)
(* The Metrics of the publishables with their Properties, also those in a  *)
(* PropertySet: values, dirty flags, and what the host gets to know of     *)
(* them (src/src/metrics, src/src/properties). One message of a            *)
(* publishable is outstanding at a time: Publishable has the overlaps, and *)
(* its timer.                                                              *)
(***************************************************************************)
EXTENDS DataTypes, Sequences, FiniteSets

CONSTANTS Publishables,  \* the node and its devices
          Metrics,
          Properties,    \* properties of a metric that hold a value
          Nested,        \* properties in a PropertySet of a metric
          Owner,         \* metric -> its publishable
          MetricOf,      \* property or nested property -> its metric
          Inputs,        \* arguments of create() and setValue()
          Unknown,       \* what the host knows of an item before its birth
          MaxSteps       \* bound: calls of the application, and commands

Items == Metrics \cup Properties \cup Nested

ASSUME MetricsAssumption ==
    /\ Owner \in [Metrics -> Publishables]
    /\ MetricOf \in [Properties \cup Nested -> Metrics]
    /\ Properties \cap Nested = {}
    /\ Metrics \cap (Properties \cup Nested) = {}
    /\ Inputs \subseteq Nat
    /\ Unknown \notin Nat
    /\ MaxSteps \in Nat

VARIABLES class,       \* item -> its class
          data, size,  \* Metric::data and size, Property::data and size
          dirty,       \* Metric::dirty and Property::dirty
          message,     \* publishable -> the values of its last message
          busy,        \* the publishables whose message is outstanding
          host,        \* item -> the value the host knows
          setSince,    \* history: items set since their message was encoded
          overlooked,  \* history: items whose flag was cleared in spite of a
                       \* change that was not delivered
          steps        \* how many calls and commands there have been

itemVars == <<class, data, size, dirty>>
messageVars == <<message, busy, host>>
pastVars == <<setSince, overlooked>>
metricVars == <<itemVars, messageVars, pastVars, steps>>

MetricsTypeOK ==
    /\ \A x \in Items : \E c \in Classes : class[x] \in {c[1], c[2]}
    /\ data \in [Items -> Nat] /\ size \in [Items -> Nat]
    /\ dirty \in [Items -> BOOLEAN]
    /\ busy \subseteq Publishables
    /\ \A p \in Publishables : DOMAIN message[p] \subseteq Items
    /\ host \in [Items -> Nat \cup {Unknown}]
    /\ setSince \subseteq Items
    /\ overlooked \subseteq Items
    /\ steps \in 0..MaxSteps

MetricOwned(x) == IF x \in Metrics THEN x ELSE MetricOf[x]
ItemsOf(p) == {x \in Items : Owner[MetricOwned(x)] = p}

\* Metrics and properties are created clean; the types vary together.
MetricsInit ==
    /\ \E c \in Classes :
          class = [x \in Items |-> IF x \in Metrics THEN c[1] ELSE c[2]]
    /\ data = [x \in Items |-> 0]
    /\ size = [x \in Items |-> SizeOfNew(class[x], 0)]
    /\ dirty = [x \in Items |-> FALSE]
    /\ message = [p \in Publishables |-> <<>>] /\ busy = {}
    /\ host = [x \in Items |-> Unknown]
    /\ setSince = {} /\ overlooked = {}
    /\ steps = 0

Step == steps < MaxSteps /\ steps' = steps + 1

----------------------------------------------------------------------------
\* Mutant of DiffersMetric: every value set counts as a change.
DiffersAlways(x, v) == TRUE

\* Metric::setValue, and that of StringMetric, which compares the sizes first:
\* the item is dirty from now on if it was or if the bytes differ.
DiffersMetric(x, v) == size[x] # SizeOfSet(class[x], v) \/ data[x] # v

\* Property::setValue and that of StringProperty.
DiffersProperty(x, v) == size[x] # SizeOfSet(class[x], v) \/ data[x] # v

Differs(x, v) ==
    IF x \in Metrics THEN DiffersMetric(x, v) ELSE DiffersProperty(x, v)

\* setValue of x, its argument converted.
Assign(x, v) ==
    /\ data' = [data EXCEPT ![x] = v]
    /\ size' = [size EXCEPT ![x] = SizeOfSet(class[x], v)]
    /\ dirty' = [dirty EXCEPT ![x] = @ \/ Differs(x, v)]
    /\ setSince' = setSince \cup {x}
    /\ UNCHANGED <<class, messageVars, overlooked>>

\* The application sets a value.
SetValue(x, v) == Step /\ Assign(x, Converted(class[x], v))

\* Publishable::canPublish, its timer aside: only metrics are asked.
CanPublish(p) == \E m \in Metrics : Owner[m] = p /\ dirty[m]

\* Property::addToPropertySet.
AddsProperty(x, isBirth) == x \in Properties /\ (dirty[x] \/ isBirth)

\* PropertySet::addToPropertySet: the nested properties add themselves.
AddsNested(x, isBirth) == x \in Nested /\ (dirty[x] \/ isBirth)

\* Metric::addToPayload: properties go with their metric.
AddToPayload(m, isBirth) ==
    IF dirty[m] \/ isBirth
      THEN {m} \cup {x \in Properties \cup Nested :
                        /\ MetricOf[x] = m
                        /\ AddsProperty(x, isBirth) \/ AddsNested(x, isBirth)}
      ELSE {}

\* Publishable::addToPayload: a message of p is encoded.
Encode(p, isBirth) ==
    /\ p \notin busy /\ busy' = busy \cup {p}
    /\ message' = [message EXCEPT ![p] =
         [x \in UNION {AddToPayload(m, isBirth) : m \in {n \in Metrics : Owner[n] = p}}
              |-> HostReads(class[x], data[x])]]
    /\ setSince' = setSince \ ItemsOf(p)
    /\ UNCHANGED <<itemVars, host, overlooked, steps>>

\* Mutant of Cleared: a PropertySet clears the properties in it.
ClearedNested(p) == ItemsOf(p)

\* Publishable::published, Metric::published and Property::published: every
\* metric of p and its properties, in the message or not, but none that is in a
\* PropertySet, whose published() is Property's.
Cleared(p) == ItemsOf(p) \ Nested

Published(p) ==
    /\ busy' = busy \ {p}
    /\ message' = [message EXCEPT ![p] = <<>>]
    /\ dirty' = [x \in Items |-> dirty[x] /\ x \notin Cleared(p)]
    /\ UNCHANGED <<class, data, size, setSince, steps>>

\* What published() clears although the message did not tell the host: what was
\* set after it was encoded, and properties whose metric was not in it.
NotTold(p) ==
    {x \in Cleared(p) : dirty[x] /\ (x \in setSince \/ x \notin DOMAIN message[p])}

Heard(p) ==
    [x \in Items |-> IF x \in DOMAIN message[p] THEN message[p][x] ELSE host[x]]

\* The message gets through.
Deliver(p) ==
    /\ p \in busy
    /\ host' = Heard(p)
    /\ overlooked' = (overlooked \ DOMAIN message[p]) \cup NotTold(p)
    /\ Published(p)

\* The message is given up, whether it got through or not; the node takes it
\* for published.
GiveUp(p) ==
    /\ p \in busy
    /\ host' \in {host, Heard(p)}
    /\ overlooked' = overlooked \cup {x \in Cleared(p) : dirty[x]}
    /\ Published(p)

----------------------------------------------------------------------------
\* Report by exception. The host knows the value of an item that is not dirty,
\* unless its change was overlooked in one of three ways: it was set again
\* after the message was encoded, the message was given up, or it is a
\* property whose metric did not change. Whatever the types: the bytes written
\* are the bytes read.
CleanIsKnown ==
    \A x \in Items \ overlooked :
        ~dirty[x] /\ host[x] # Unknown => host[x] = data[x]

\* A property in a PropertySet is never overlooked: its flag is never cleared,
\* and it is sent again with every change of its metric.
NestedIsNotOverlooked ==
    \A x \in Nested :
        host[x] # Unknown /\ host[x] # data[x] => dirty[x]

\* A StringProperty is created with a size that leaves out the NUL, and has
\* that size until its value is set.
SizeWithoutNul(x) == class[x] = StringProperty /\ size[x] = LengthOf(data[x])

\* Metric::setValue and Property::setValue: an item becomes dirty only because
\* its value becomes another, in every class: what is set to the value it has
\* is not reported again. The StringProperty that was never set is excepted:
\* its size is taken for a change.
OnlyChangesMakeDirty ==
    [][\A x \in Items :
          dirty'[x] /\ ~dirty[x] => data'[x] # data[x] \/ SizeWithoutNul(x)]_itemVars

=============================================================================
