--------------------------- MODULE CommandsProofs ---------------------------
(***************************************************************************)
(* What is proved of Commands, and of the Metrics and DataTypes below it,  *)
(* for any publishables, metrics, properties, names, commands and bounds:  *)
(* the types, what the host knows of an item that is clean, that only a    *)
(* change makes an item dirty, and where a command goes.                   *)
(***************************************************************************)
EXTENDS Commands, FiniteSetTheorems, SequenceTheorems, TLAPS

----------------------------------------------------------------------------
\* Arithmetic.

LEMMA Remainders ==
    ASSUME NEW m \in Nat \ {0}, NEW v \in Nat
    PROVE  v % m \in Nat /\ (v % m) % m = v % m /\ 0 % m = 0
<1>1. v % m \in Nat  OBVIOUS
<1>2. (v % m) % m = v % m  OBVIOUS
<1>3. 0 % m = 0  OBVIOUS
<1> QED  BY <1>1, <1>2, <1>3

LEMMA SmallRemainder ==
    ASSUME NEW m \in Nat \ {0}, NEW v \in Nat, v < m
    PROVE  v % m = v
OBVIOUS

----------------------------------------------------------------------------
\* Sequences.

LEMMA SequenceOf ==
    ASSUME NEW S, NEW n \in Nat, NEW f \in [1..n -> S]
    PROVE  f \in Seq(S) /\ Len(f) = n /\ DOMAIN f = 1..n
OBVIOUS

LEMMA EmptySequence == ASSUME NEW S PROVE <<>> \in Seq(S) /\ DOMAIN <<>> = {}
OBVIOUS

LEMMA Prepended ==
    ASSUME NEW S, NEW x \in S, NEW s \in Seq(S)
    PROVE  /\ <<x>> \o s \in Seq(S) /\ Len(<<x>> \o s) = Len(s) + 1
           /\ (<<x>> \o s)[1] = x
           /\ \A i \in 1..Len(s) : (<<x>> \o s)[i + 1] = s[i]
<1>1. <<x>> \in Seq(S) /\ Len(<<x>>) = 1 /\ <<x>>[1] = x  OBVIOUS
<1>2. Len(s) \in Nat  OBVIOUS
<1>3. /\ <<x>> \o s \in Seq(S) /\ Len(<<x>> \o s) = Len(<<x>>) + Len(s)
      /\ \A i \in 1..(Len(<<x>>) + Len(s)) : (<<x>> \o s)[i] =
            IF i <= Len(<<x>>) THEN <<x>>[i] ELSE s[i - Len(<<x>>)]
  BY <1>1, ConcatProperties
<1>4. ASSUME NEW i \in 1..Len(s)
      PROVE  /\ i + 1 \in 1..(1 + Len(s)) /\ ~(i + 1 <= 1) /\ (i + 1) - 1 = i
  BY <1>2
<1> QED  BY <1>1, <1>2, <1>3, <1>4

----------------------------------------------------------------------------
USE DataTypesAssumption, MetricsAssumption

----------------------------------------------------------------------------
\* The classes.

IsClass(k) == \E c \in Classes : k \in {c[1], c[2]}

Sized(k) ==
    /\ k.bytes \in {1, 2, 4, 8} /\ SparkplugBytes[k.type] = k.bytes
    /\ k.type # "STRING" /\ (k.type = "BOOLEAN" => k.bytes = 1)

Text(k) == k.type = "STRING" /\ (k = StringProperty \/ k.terminator = 1)

\* Each class stores as many bytes as the host reads of its data type, or is
\* that of a string.
LEMMA ClassesAgree == ASSUME NEW k, IsClass(k) PROVE Sized(k) \/ Text(k)
<1>1. PICK c \in Classes : k \in {c[1], c[2]}  BY DEF IsClass
<1>2. CASE \/ c = <<BooleanMetric, BooleanProperty>>
           \/ c = <<DateTimeMetric, DateTimeProperty>>
           \/ c = <<DoubleMetric, DoubleProperty>>
           \/ c = <<FloatMetric, FloatProperty>>
  BY <1>1, <1>2 DEF Sized, SparkplugBytes, Class, BooleanMetric, BooleanProperty,
     DateTimeMetric, DateTimeProperty, DoubleMetric, DoubleProperty, FloatMetric,
     FloatProperty
<1>3. CASE \/ c = <<Int8Metric, Int8Property>> \/ c = <<Int16Metric, Int16Property>>
           \/ c = <<Int32Metric, Int32Property>> \/ c = <<Int64Metric, Int64Property>>
  BY <1>1, <1>3 DEF Sized, SparkplugBytes, Class, Int8Metric, Int8Property,
     Int16Metric, Int16Property, Int32Metric, Int32Property, Int64Metric,
     Int64Property
<1>4. CASE \/ c = <<UInt8Metric, UInt8Property>>
           \/ c = <<UInt16Metric, UInt16Property>>
           \/ c = <<UInt32Metric, UInt32Property>>
           \/ c = <<UInt64Metric, UInt64Property>>
  BY <1>1, <1>4 DEF Sized, SparkplugBytes, Class, UInt8Metric, UInt8Property,
     UInt16Metric, UInt16Property, UInt32Metric, UInt32Property, UInt64Metric,
     UInt64Property
<1>5. CASE c = <<StringMetric, StringProperty>>
  BY <1>1, <1>5 DEF Text, StringMetric, StringProperty
<1> QED  BY <1>1, <1>2, <1>3, <1>4, <1>5 DEF Classes

LEMMA ValuesInPositive ==
    ASSUME NEW n \in {1, 2, 4, 8}
    PROVE  ValuesIn(n) \in Nat \ {0} /\ ValuesIn(1) = ByteValues
<1> DEFINE two == ByteValues * ByteValues
           four == two * two
<1>1. \A a, b \in Nat \ {0} : a * b \in Nat \ {0}  BY SMT
<1>2. two \in Nat \ {0}  BY <1>1
<1>3. four \in Nat \ {0}  BY <1>1, <1>2
<1>4. four * four \in Nat \ {0}  BY <1>1, <1>3
<1>5. /\ ValuesIn(1) = ByteValues /\ ValuesIn(2) = two /\ ValuesIn(4) = four
      /\ ValuesIn(8) = four * four
  BY DEF ValuesIn
<1> QED  BY <1>2, <1>3, <1>4, <1>5

\* The bytes written are the bytes read: what setValue stores, the host reads
\* as it is, whatever the class.
LEMMA StoredIsRead ==
    ASSUME NEW k, IsClass(k), NEW v \in Nat
    PROVE  /\ Converted(k, v) \in Nat /\ HostReads(k, v) \in Nat
           /\ HostReads(k, Converted(k, v)) = Converted(k, v)
           /\ HostReads(k, 0) = 0
<1>1. CASE Text(k)  BY <1>1 DEF Text, Converted, HostReads
<1>2. CASE Sized(k)
  <2> DEFINE n == ValuesIn(k.bytes)
  <2>1. n \in Nat \ {0}  BY <1>2, ValuesInPositive DEF Sized
  <2>2. \A w : HostReads(k, w) = w % n  BY <1>2 DEF Sized, HostReads
  <2>3. CASE k.type = "BOOLEAN"
    <3>1. n = ByteValues  BY <1>2, <2>3, ValuesInPositive DEF Sized
    <3>2. Converted(k, v) \in {0, 1}  BY <2>3 DEF Converted
    <3>3. 0 % n = 0 /\ 1 % n = 1
      BY <3>1, <2>1, SmallRemainder, 0 < ByteValues /\ 1 < ByteValues
    <3>4. v % n \in Nat  BY <2>1, Remainders
    <3> QED  BY <3>2, <3>3, <3>4, <2>2
  <2>4. CASE k.type # "BOOLEAN"
    <3>1. Converted(k, v) = v % n  BY <1>2, <2>4 DEF Converted, Sized
    <3> HIDE DEF n
    <3> QED  BY <3>1, <2>1, <2>2, Remainders
  <2> QED  BY <2>3, <2>4
<1> QED  BY <1>1, <1>2, ClassesAgree

\* Only a StringProperty is created with another size than setValue gives it.
LEMMA SizesAgree ==
    ASSUME NEW k, IsClass(k), NEW v \in Nat
    PROVE  /\ SizeOfNew(k, v) \in Nat /\ SizeOfSet(k, v) \in Nat
           /\ \/ SizeOfNew(k, v) = SizeOfSet(k, v)
              \/ k = StringProperty /\ SizeOfNew(k, v) = LengthOf(v)
<1>1. v \div 2 \in Nat  OBVIOUS
<1>2. LengthOf(v) \in Nat  BY <1>1 DEF LengthOf
<1>3. CASE Text(k)
  BY <1>2, <1>3 DEF Text, SizeOfNew, SizeOfSet, StringProperty
<1>4. CASE Sized(k)  BY <1>4 DEF Sized, SizeOfNew, SizeOfSet
<1> QED  BY <1>3, <1>4, ClassesAgree

----------------------------------------------------------------------------
(***************************************************************************)
(* The items. MetricsInv is inductive. What is known of an item that is    *)
(* clean rests on its last message: if it was not set since, or set to the *)
(* value it had, the message has that value (MessagesOK); a nested         *)
(* property that is clean was never given another value (NestedOK).        *)
(***************************************************************************)

ClassesOK == \A x \in Items : IsClass(class[x])

ItemsOK ==
    /\ data \in [Items -> Nat] /\ size \in [Items -> Nat]
    /\ dirty \in [Items -> BOOLEAN]
    /\ host \in [Items -> Nat \cup {Unknown}]
    /\ setSince \subseteq Items /\ overlooked \subseteq Items

StoredOK == \A x \in Items : HostReads(class[x], data[x]) = data[x]

SizesOK ==
    \A x \in Items :
        size[x] = SizeOfSet(class[x], data[x]) \/ SizeWithoutNul(x)

MessageOK(p) ==
    /\ DOMAIN message[p] \subseteq ItemsOf(p)
    /\ p \notin busy => DOMAIN message[p] = {}
    /\ \A x \in DOMAIN message[p] :
          /\ message[p][x] \in Nat
          /\ x \notin setSince \/ ~dirty[x] => message[p][x] = data[x]

MessagesOK ==
    /\ busy \subseteq Publishables /\ DOMAIN message = Publishables
    /\ \A p \in Publishables : MessageOK(p)

NestedClean(x) ==
    /\ data[x] = 0 /\ host[x] \in {Unknown, 0}
    /\ \A p \in Publishables : x \in DOMAIN message[p] => message[p][x] = 0

NestedOK == \A x \in Nested : ~dirty[x] => NestedClean(x)

MetricsInv ==
    /\ ClassesOK /\ ItemsOK /\ StoredOK /\ SizesOK /\ MessagesOK /\ NestedOK
    /\ CleanIsKnown

\* A message that is dumped with the queue of a client, never encoded.
Dumped(p) ==
    /\ p \notin busy
    /\ overlooked' = overlooked \cup {x \in Cleared(p) : dirty[x]}
    /\ Published(p) /\ UNCHANGED host

\* The items move only in these ways.
MetricsStep ==
    \/ \E x \in Items, v \in Inputs : SetValue(x, v)
    \/ \E p \in Publishables, isBirth \in BOOLEAN : Encode(p, isBirth)
    \/ \E p \in Publishables : Deliver(p) \/ GiveUp(p) \/ Dumped(p)
    \/ UNCHANGED <<itemVars, messageVars, pastVars>>

LEMMA OwnItems ==
    /\ \A p \in Publishables : ItemsOf(p) \subseteq Items
    /\ \A p, q : p # q => ItemsOf(p) \cap ItemsOf(q) = {}
    /\ \A p : Cleared(p) \subseteq ItemsOf(p)
    /\ \A p : \A x \in ItemsOf(p) : x \notin Nested => x \in Cleared(p)
    /\ \A p : Cleared(p) \cap Nested = {}
BY DEF ItemsOf, Cleared

LEMMA MetricsInvInit == ASSUME MetricsInit PROVE MetricsInv
<1>1. PICK c \in Classes :
         class = [x \in Items |-> IF x \in Metrics THEN c[1] ELSE c[2]]
  BY DEF MetricsInit
<1>2. ClassesOK  BY <1>1 DEF ClassesOK, IsClass
<1>3. \A x \in Items : /\ data[x] = 0 /\ ~dirty[x] /\ host[x] = Unknown
                       /\ size[x] = SizeOfNew(class[x], 0)
  BY DEF MetricsInit
<1>4. \A x \in Items : /\ SizeOfNew(class[x], 0) \in Nat
                       /\ HostReads(class[x], 0) = 0
                       /\ \/ SizeOfNew(class[x], 0) = SizeOfSet(class[x], 0)
                          \/ /\ class[x] = StringProperty
                             /\ SizeOfNew(class[x], 0) = LengthOf(0)
  BY <1>2, SizesAgree, StoredIsRead, 0 \in Nat DEF ClassesOK
<1>5. ItemsOK  BY <1>4 DEF ItemsOK, MetricsInit
<1>6. StoredOK  BY <1>3, <1>4 DEF StoredOK
<1>7. SizesOK  BY <1>3, <1>4 DEF SizesOK, SizeWithoutNul
<1>8. \A p \in Publishables : DOMAIN message[p] = {}  BY DEF MetricsInit
<1>9. busy = {} /\ DOMAIN message = Publishables  BY DEF MetricsInit
<1>10. MessagesOK  BY <1>8, <1>9 DEF MessagesOK, MessageOK
<1>11. NestedOK  BY <1>3, <1>8 DEF NestedOK, NestedClean, Items
<1>12. CleanIsKnown  BY <1>3 DEF CleanIsKnown
<1> QED  BY <1>2, <1>5, <1>6, <1>7, <1>10, <1>11, <1>12 DEF MetricsInv

\* Setting a value: the item is dirty unless it has the value already.
LEMMA SetValueKeepsMetricsInv ==
    ASSUME MetricsInv, NEW y \in Items, NEW v \in Inputs, SetValue(y, v)
    PROVE  MetricsInv'
<1> DEFINE w == Converted(class[y], v)
           s == SizeOfSet(class[y], w)
<1>1. IsClass(class[y]) /\ v \in Nat  BY DEF MetricsInv, ClassesOK
<1>2. w \in Nat /\ HostReads(class[y], w) = w  BY <1>1, StoredIsRead
<1>3. s \in Nat  BY <1>1, <1>2, SizesAgree
<1>4. /\ data' = [data EXCEPT ![y] = w] /\ size' = [size EXCEPT ![y] = s]
      /\ dirty' = [dirty EXCEPT ![y] = dirty[y] \/ Differs(y, w)]
      /\ setSince' = setSince \cup {y}
      /\ class' = class /\ message' = message /\ busy' = busy /\ host' = host
      /\ overlooked' = overlooked
  BY DEF SetValue, Assign, messageVars
<1>5. Differs(y, w) <=> size[y] # s \/ data[y] # w
  BY DEF Differs, DiffersMetric, DiffersProperty
<1>6. Differs(y, w) \in BOOLEAN
  BY <1>5 DEF Differs, DiffersMetric, DiffersProperty
<1> HIDE DEF w, s
<1>7. ItemsOK  BY DEF MetricsInv
<1>8. /\ data'[y] = w /\ size'[y] = s
      /\ dirty'[y] <=> dirty[y] \/ size[y] # s \/ data[y] # w
  BY <1>4, <1>5, <1>7 DEF ItemsOK
<1>9. \A x \in Items \ {y} :
         /\ data'[x] = data[x] /\ size'[x] = size[x] /\ dirty'[x] = dirty[x]
  BY <1>4, <1>7 DEF ItemsOK
<1>10. \A x \in Items : ~dirty'[x] => ~dirty[x] /\ data'[x] = data[x]
  BY <1>8, <1>9
<1>11. ClassesOK'  BY <1>4 DEF MetricsInv, ClassesOK
<1>12. ItemsOK'  BY <1>2, <1>3, <1>4, <1>6, <1>7 DEF ItemsOK
<1>13. StoredOK'  BY <1>2, <1>4, <1>8, <1>9 DEF MetricsInv, StoredOK
<1>14. SizesOK'
  <2>1. s = SizeOfSet(class[y], w)  BY DEF s
  <2> QED  BY <1>4, <1>8, <1>9, <2>1 DEF MetricsInv, SizesOK, SizeWithoutNul
<1>15. MessagesOK'
  <2>1. MessagesOK  BY DEF MetricsInv
  <2>2. \A p \in Publishables : MessageOK(p)'
    <3> SUFFICES ASSUME NEW p \in Publishables PROVE MessageOK(p)'  OBVIOUS
    <3>1. MessageOK(p)  BY <2>1 DEF MessagesOK
    <3>2. DOMAIN message[p] \subseteq Items  BY <3>1, OwnItems DEF MessageOK
    <3>3. ASSUME NEW x \in DOMAIN message[p], x \notin setSince' \/ ~dirty'[x]
          PROVE  message[p][x] = data'[x]
      <4>1. x \in Items  BY <3>2
      <4>2. CASE ~dirty'[x]  BY <4>1, <4>2, <1>10, <3>1 DEF MessageOK
      <4>3. CASE x \notin setSince'
        <5>1. x # y /\ x \notin setSince  BY <4>3, <1>4
        <5> QED  BY <4>1, <5>1, <1>9, <3>1 DEF MessageOK
      <4> QED  BY <3>3, <4>2, <4>3
    <3> QED  BY <3>1, <3>3, <1>4 DEF MessageOK, ItemsOf
  <2> QED  BY <2>1, <2>2, <1>4 DEF MessagesOK
<1>16. NestedOK'
  BY <1>4, <1>10 DEF MetricsInv, NestedOK, NestedClean, Items
<1>17. CleanIsKnown'
  BY <1>4, <1>10 DEF MetricsInv, CleanIsKnown
<1> QED
  BY <1>11, <1>12, <1>13, <1>14, <1>15, <1>16, <1>17 DEF MetricsInv

\* A message is encoded: it has the values of its items.
LEMMA EncodeKeepsMetricsInv ==
    ASSUME MetricsInv, NEW p \in Publishables, NEW isBirth \in BOOLEAN,
           Encode(p, isBirth)
    PROVE  MetricsInv'
<1> DEFINE told == UNION {AddToPayload(m, isBirth) :
                              m \in {n \in Metrics : Owner[n] = p}}
<1>1. /\ message' = [message EXCEPT ![p] =
            [x \in told |-> HostReads(class[x], data[x])]]
      /\ busy' = busy \cup {p} /\ setSince' = setSince \ ItemsOf(p)
      /\ class' = class /\ data' = data /\ size' = size /\ dirty' = dirty
      /\ host' = host /\ overlooked' = overlooked
  BY DEF Encode, itemVars
<1>2. told \subseteq ItemsOf(p)
  BY DEF AddToPayload, ItemsOf, MetricOwned, Items
<1> HIDE DEF told
<1>3. told \subseteq Items  BY <1>2, OwnItems
<1>4. StoredOK /\ ItemsOK /\ MessagesOK  BY DEF MetricsInv
<1>5. message' = [message EXCEPT ![p] = [x \in told |-> data[x]]]
  <2>1. [x \in told |-> HostReads(class[x], data[x])] = [x \in told |-> data[x]]
    BY <1>3, <1>4 DEF StoredOK
  <2> QED  BY <1>1, <2>1
<1>6. message'[p] = [x \in told |-> data[x]]  BY <1>4, <1>5 DEF MessagesOK
<1>7. \A q \in Publishables \ {p} : message'[q] = message[q]
  BY <1>4, <1>5 DEF MessagesOK
<1>8. ClassesOK' /\ StoredOK' /\ SizesOK'
  BY <1>1 DEF MetricsInv, ClassesOK, StoredOK, SizesOK, SizeWithoutNul
<1>9. ItemsOK'  BY <1>1, <1>4 DEF ItemsOK
<1>10. MessagesOK'
  <2>1. MessageOK(p)'
    <3>1. \A x \in told : data[x] \in Nat  BY <1>3, <1>4 DEF ItemsOK
    <3> QED  BY <1>1, <1>2, <1>6, <3>1 DEF MessageOK, ItemsOf
  <2>2. ASSUME NEW q \in Publishables \ {p} PROVE MessageOK(q)'
    <3>1. MessageOK(q) /\ message'[q] = message[q]  BY <1>4, <1>7 DEF MessagesOK
    <3>2. ItemsOf(q) \cap ItemsOf(p) = {}  BY OwnItems
    <3> QED  BY <3>1, <3>2, <1>1 DEF MessageOK, ItemsOf
  <2> QED  BY <2>1, <2>2, <1>1, <1>4 DEF MessagesOK
<1>11. NestedOK'
  <2> SUFFICES ASSUME NEW x \in Nested, ~dirty[x] PROVE NestedClean(x)'
    BY <1>1 DEF NestedOK
  <2>1. NestedClean(x)  BY DEF MetricsInv, NestedOK
  <2>2. ASSUME NEW q \in Publishables, x \in DOMAIN message'[q]
        PROVE  message'[q][x] = 0
    BY <2>1, <2>2, <1>6, <1>7 DEF NestedClean
  <2> QED  BY <2>1, <2>2, <1>1 DEF NestedClean
<1>12. CleanIsKnown'  BY <1>1 DEF MetricsInv, CleanIsKnown
<1> QED  BY <1>8, <1>9, <1>10, <1>11, <1>12 DEF MetricsInv

\* What the host hears of a message that gets through, or perhaps does.
LEMMA HostHears ==
    ASSUME MetricsInv, NEW p \in Publishables, host' \in {host, Heard(p)}
    PROVE  /\ host' \in [Items -> Nat \cup {Unknown}]
           /\ \A x \in Items :
                 \/ host'[x] = host[x]
                 \/ x \in DOMAIN message[p] /\ host'[x] = message[p][x]
<1>1. host \in [Items -> Nat \cup {Unknown}]  BY DEF MetricsInv, ItemsOK
<1>2. \A x \in DOMAIN message[p] : message[p][x] \in Nat
  BY DEF MetricsInv, MessagesOK, MessageOK
<1>3. CASE host' = host  BY <1>1, <1>3
<1>4. CASE host' = Heard(p)  BY <1>1, <1>2, <1>4 DEF Heard
<1> QED  BY <1>3, <1>4

\* The node takes a message of p for published: what becomes of the flags and
\* the message, however the host was told.
LEMMA PublishedKeeps ==
    ASSUME MetricsInv, NEW p \in Publishables, Published(p),
           host' \in {host, Heard(p)}, overlooked' \subseteq Items
    PROVE  /\ ClassesOK' /\ ItemsOK' /\ StoredOK' /\ SizesOK' /\ MessagesOK'
           /\ NestedOK'
<1>1. /\ busy' = busy \ {p} /\ message' = [message EXCEPT ![p] = <<>>]
      /\ dirty' = [x \in Items |-> dirty[x] /\ x \notin Cleared(p)]
      /\ class' = class /\ data' = data /\ size' = size /\ setSince' = setSince
  BY DEF Published
<1>2. ItemsOK /\ MessagesOK  BY DEF MetricsInv
<1>3. \A x \in Items : dirty'[x] <=> dirty[x] /\ x \notin Cleared(p)  BY <1>1
<1>4. DOMAIN message'[p] = {}  BY <1>1, <1>2 DEF MessagesOK
<1>5. \A q \in Publishables \ {p} : message'[q] = message[q]
  BY <1>1, <1>2 DEF MessagesOK
<1>6. ClassesOK' /\ StoredOK' /\ SizesOK'
  BY <1>1 DEF MetricsInv, ClassesOK, StoredOK, SizesOK, SizeWithoutNul
<1>7. ItemsOK'
  <2>1. dirty' \in [Items -> BOOLEAN]  BY <1>1
  <2>2. host' \in [Items -> Nat \cup {Unknown}]  BY HostHears
  <2> QED  BY <1>1, <1>2, <2>1, <2>2 DEF ItemsOK
<1>8. MessagesOK'
  <2>1. MessageOK(p)'  BY <1>4 DEF MessageOK
  <2>2. ASSUME NEW q \in Publishables \ {p} PROVE MessageOK(q)'
    <3>1. MessageOK(q) /\ message'[q] = message[q]  BY <1>2, <1>5 DEF MessagesOK
    <3>2. \A x \in ItemsOf(q) : x \in Items /\ x \notin Cleared(p)  BY OwnItems
    <3>3. \A x \in DOMAIN message[q] : dirty'[x] <=> dirty[x]
      BY <3>1, <3>2, <1>3 DEF MessageOK
    <3> QED  BY <3>1, <3>3, <1>1 DEF MessageOK, ItemsOf
  <2> QED  BY <2>1, <2>2, <1>1, <1>2 DEF MessagesOK
<1>9. NestedOK'
  <2> SUFFICES ASSUME NEW x \in Nested, ~dirty'[x] PROVE NestedClean(x)'
    BY DEF NestedOK
  <2>1. x \in Items /\ ~dirty[x]  BY <1>3, OwnItems DEF Items
  <2>2. NestedClean(x)  BY <2>1 DEF MetricsInv, NestedOK
  <2>3. host'[x] \in {Unknown, 0}
    BY <2>1, <2>2, HostHears DEF NestedClean
  <2>4. ASSUME NEW q \in Publishables, x \in DOMAIN message'[q]
        PROVE  message'[q][x] = 0
    BY <2>2, <2>4, <1>4, <1>5 DEF NestedClean
  <2> QED  BY <2>2, <2>3, <2>4, <1>1 DEF NestedClean
<1> QED  BY <1>6, <1>7, <1>8, <1>9

\* A clean item that is in a message of p has the value it has there.
LEMMA CleanIsTold ==
    ASSUME MetricsInv, NEW p \in Publishables, NEW x \in DOMAIN message[p],
           ~dirty[x] \/ x \notin setSince
    PROVE  message[p][x] = data[x]
BY DEF MetricsInv, MessagesOK, MessageOK

LEMMA DeliverKeepsMetricsInv ==
    ASSUME MetricsInv, NEW p \in Publishables, Deliver(p)
    PROVE  MetricsInv'
<1>1. /\ Published(p) /\ host' = Heard(p)
      /\ overlooked' = (overlooked \ DOMAIN message[p]) \cup NotTold(p)
  BY DEF Deliver
<1>2. overlooked' \subseteq Items
  BY <1>1, OwnItems DEF NotTold, MetricsInv, ItemsOK
<1>3. ASSUME NEW x \in Items \ overlooked', ~dirty'[x], host'[x] # Unknown
      PROVE  host'[x] = data'[x]
  <2>1. data' = data /\ (dirty[x] => x \in Cleared(p))  BY <1>1, <1>3 DEF Published
  <2>2. dirty[x] => x \notin setSince /\ x \in DOMAIN message[p]
    BY <2>1, <1>1, <1>3 DEF NotTold
  <2>3. CASE x \in DOMAIN message[p]
    <3>1. message[p][x] = data[x]  BY <2>2, <2>3, CleanIsTold
    <3> QED  BY <3>1, <2>1, <2>3, <1>1 DEF Heard
  <2>4. CASE x \notin DOMAIN message[p]
    <3>1. ~dirty[x] /\ x \notin overlooked  BY <2>2, <2>4, <1>1, <1>3
    <3>2. host'[x] = host[x]  BY <2>4, <1>1 DEF Heard
    <3> QED  BY <3>1, <3>2, <2>1, <1>3 DEF MetricsInv, CleanIsKnown
  <2> QED  BY <2>3, <2>4
<1>4. CleanIsKnown'  BY <1>3 DEF CleanIsKnown
<1> QED  BY <1>1, <1>2, <1>4, PublishedKeeps DEF MetricsInv

\* A message that is given up or dumped.
LEMMA UntoldKeepsMetricsInv ==
    ASSUME MetricsInv, NEW p \in Publishables, GiveUp(p) \/ Dumped(p)
    PROVE  MetricsInv'
<1>1. /\ Published(p) /\ host' \in {host, Heard(p)}
      /\ overlooked' = overlooked \cup {x \in Cleared(p) : dirty[x]}
  BY DEF GiveUp, Dumped
<1>2. overlooked' \subseteq Items
  BY <1>1, OwnItems DEF MetricsInv, ItemsOK
<1>3. ASSUME NEW x \in Items \ overlooked', ~dirty'[x], host'[x] # Unknown
      PROVE  host'[x] = data'[x]
  <2>1. data' = data /\ (dirty[x] => x \in Cleared(p))  BY <1>1, <1>3 DEF Published
  <2>2. ~dirty[x] /\ x \notin overlooked  BY <2>1, <1>1, <1>3
  <2>3. CASE host'[x] = host[x]
    BY <2>1, <2>2, <2>3, <1>3 DEF MetricsInv, CleanIsKnown
  <2>4. CASE x \in DOMAIN message[p] /\ host'[x] = message[p][x]
    BY <2>1, <2>2, <2>4, CleanIsTold
  <2> QED  BY <2>3, <2>4, <1>1, HostHears
<1>4. CleanIsKnown'  BY <1>3 DEF CleanIsKnown
<1> QED  BY <1>1, <1>2, <1>4, PublishedKeeps DEF MetricsInv

LEMMA MetricsInvStep == ASSUME MetricsInv, MetricsStep PROVE MetricsInv'
<1>1. ASSUME NEW x \in Items, NEW v \in Inputs, SetValue(x, v) PROVE MetricsInv'
  BY <1>1, SetValueKeepsMetricsInv
<1>2. ASSUME NEW p \in Publishables, NEW isBirth \in BOOLEAN, Encode(p, isBirth)
      PROVE  MetricsInv'
  BY <1>2, EncodeKeepsMetricsInv
<1>3. ASSUME NEW p \in Publishables, Deliver(p) PROVE MetricsInv'
  BY <1>3, DeliverKeepsMetricsInv
<1>4. ASSUME NEW p \in Publishables, GiveUp(p) \/ Dumped(p) PROVE MetricsInv'
  BY <1>4, UntoldKeepsMetricsInv
<1>5. CASE UNCHANGED <<itemVars, messageVars, pastVars>>
  <2>1. /\ class' = class /\ data' = data /\ size' = size /\ dirty' = dirty
        /\ message' = message /\ busy' = busy /\ host' = host
        /\ setSince' = setSince /\ overlooked' = overlooked
    BY <1>5 DEF itemVars, messageVars, pastVars
  <2>2. /\ ClassesOK' = ClassesOK /\ ItemsOK' = ItemsOK /\ StoredOK' = StoredOK
        /\ SizesOK' = SizesOK /\ NestedOK' = NestedOK
    BY <2>1 DEF ClassesOK, ItemsOK, StoredOK, SizesOK, SizeWithoutNul, NestedOK,
                NestedClean
  <2>3. MessagesOK' = MessagesOK /\ CleanIsKnown' = CleanIsKnown
    BY <2>1 DEF MessagesOK, MessageOK, ItemsOf, CleanIsKnown
  <2> QED  BY <2>2, <2>3 DEF MetricsInv
<1> QED  BY <1>1, <1>2, <1>3, <1>4, <1>5 DEF MetricsStep

\* Nested properties: one that is clean has its first value, and the host knows
\* that value or none.
LEMMA NestedFromMetricsInv == ASSUME MetricsInv PROVE NestedIsNotOverlooked
BY DEF MetricsInv, NestedOK, NestedClean, NestedIsNotOverlooked

----------------------------------------------------------------------------
(***************************************************************************)
(* The node. CommandsInv is inductive: the types, that no device is listed *)
(* twice, and MetricsInv. The rest of the types is in one part for each    *)
(* group of variables, so that an action is asked only about what it moves.*)
(***************************************************************************)

Messages == [client : ClientSet, topic : Topics, commands : Commands]
RequestRecords == [publishable : Publishables, isBirth : BOOLEAN]

NodeOK ==
    /\ enabled \in BOOLEAN /\ configured \subseteq ClientSet
    /\ name \in [Devices -> Names] /\ nodeNcmd \in BOOLEAN
    /\ devices \in Seq(Devices)
    /\ \A i, j \in DOMAIN devices : devices[i] = devices[j] => i = j

ListenersOK ==
    /\ handler \subseteq Metrics /\ callback \subseteq Metrics
    /\ readOnly \subseteq Metrics /\ writable \in [Metrics -> 0..1]
    /\ \A m \in readOnly : writable[m] = 0

InboxOK == inbox \in Seq(Messages)

RanOK == \A i \in DOMAIN ran : ran[i].metric \in Metrics

ClientOK ==
    /\ active \in ClientSet \cup {NoClient}
    /\ queue \in Seq(RequestRecords) /\ publishing \subseteq Publishables
    /\ activations \in 0..MaxActivations

StepsOK == steps \in 0..MaxSteps

CommandsInv ==
    /\ MetricsInv /\ NodeOK /\ ListenersOK /\ InboxOK /\ RanOK /\ ClientOK /\ StepsOK

LEMMA TypesFromCommandsInv == ASSUME CommandsInv PROVE CommandsTypeOK
<1>1. MetricsTypeOK
  <2>1. \A x \in Items : \E c \in Classes : class[x] \in {c[1], c[2]}
    BY DEF CommandsInv, MetricsInv, ClassesOK, IsClass
  <2>2. \A p \in Publishables : DOMAIN message[p] \subseteq Items
    BY OwnItems DEF CommandsInv, MetricsInv, MessagesOK, MessageOK
  <2>3. busy \subseteq Publishables  BY DEF CommandsInv, MetricsInv, MessagesOK
  <2> QED  BY <2>1, <2>2, <2>3 DEF MetricsTypeOK, CommandsInv, MetricsInv, ItemsOK,
                                   StepsOK
<1>2. \A i \in DOMAIN devices : devices[i] \in Devices
  BY ElementOfSeq, LenProperties DEF CommandsInv, NodeOK
<1>3. \A i \in DOMAIN queue : queue[i].publishable \in Publishables
  <2>1. queue \in Seq(RequestRecords)  BY DEF CommandsInv, ClientOK
  <2>2. \A i \in DOMAIN queue : queue[i] \in RequestRecords
    BY <2>1, ElementOfSeq, LenProperties
  <2> QED  BY <2>2 DEF RequestRecords
<1> QED
  BY <1>1, <1>2, <1>3
  DEF CommandsTypeOK, CommandsInv, NodeOK, ListenersOK, RanOK, ClientOK

LEMMA CommandsInvInit ==
    ASSUME Init PROVE CommandsInv
<1>1. MetricsInv  BY MetricsInvInit DEF Init
<1>2. NodeOK  BY EmptySequence DEF Init, CommandsInit, NodeOK
<1>3. ListenersOK
  BY CommandsAssumption DEF Init, CommandsInit, ListenersOK
<1>4. InboxOK /\ RanOK  BY EmptySequence DEF Init, CommandsInit, InboxOK, RanOK
<1>5. ClientOK
  BY EmptySequence, CommandsAssumption DEF Init, CommandsInit, ClientOK
<1>6. StepsOK  BY DEF Init, MetricsInit, StepsOK
<1> QED  BY <1>1, <1>2, <1>3, <1>4, <1>5, <1>6 DEF CommandsInv

\* What an action leaves alone.
LEMMA NodeSame == ASSUME NodeOK, UNCHANGED nodeVars PROVE NodeOK'
BY DEF NodeOK, nodeVars

LEMMA ListenersSame ==
    ASSUME ListenersOK, UNCHANGED <<handler, callback, readOnly, writable>>
    PROVE  ListenersOK'
BY DEF ListenersOK

LEMMA InboxSame == ASSUME InboxOK, UNCHANGED inbox PROVE InboxOK'
BY DEF InboxOK

LEMMA RanSame == ASSUME RanOK, UNCHANGED ran PROVE RanOK'
BY DEF RanOK

LEMMA ClientSame == ASSUME ClientOK, UNCHANGED clientVars PROVE ClientOK'
BY DEF ClientOK, clientVars

LEMMA StepsSame == ASSUME StepsOK, UNCHANGED steps \/ Step PROVE StepsOK'
BY DEF StepsOK, Step

LEMMA MetricsSame ==
    ASSUME MetricsInv, UNCHANGED <<itemVars, messageVars, pastVars>>
    PROVE  MetricsInv'
BY MetricsInvStep DEF MetricsStep

\* The births of the node and its devices, and n times those.
LEMMA BirthsAreRequests ==
    ASSUME NodeOK
    PROVE  /\ Births \in Seq(RequestRecords) /\ Len(Births) \in Nat \ {0}
           /\ DOMAIN Births = 1..Len(Births)
<1> DEFINE theirs == [i \in DOMAIN devices |-> Request(devices[i], TRUE)]
<1>1. devices \in Seq(Devices)  BY DEF NodeOK
<1>2. Len(devices) \in Nat /\ DOMAIN devices = 1..Len(devices)
  BY <1>1, LenProperties
<1>3. \A i \in DOMAIN devices : devices[i] \in Publishables
  BY <1>1, <1>2, ElementOfSeq DEF Devices
<1>4. theirs \in [1..Len(devices) -> RequestRecords]
  BY <1>2, <1>3 DEF Request, RequestRecords
<1> HIDE DEF theirs
<1>5. theirs \in Seq(RequestRecords) /\ Len(theirs) = Len(devices)
  BY <1>2, <1>4, SequenceOf
<1>6. Request(NodeSelf, TRUE) \in RequestRecords
  BY CommandsAssumption DEF Request, RequestRecords
<1>7. Births = <<Request(NodeSelf, TRUE)>> \o theirs  BY DEF Births, theirs
<1>8. Births \in Seq(RequestRecords) /\ Len(Births) = Len(devices) + 1
  <2>1. \A s \in Seq(RequestRecords) : \A x \in RequestRecords :
          <<x>> \o s \in Seq(RequestRecords) /\ Len(<<x>> \o s) = Len(s) + 1
    BY Prepended
  <2> QED  BY <1>5, <1>6, <1>7, <2>1
<1> QED  BY <1>2, <1>8, LenProperties

LEMMA PublishBirthKeepsClientOK ==
    ASSUME NodeOK, ClientOK, NEW n \in Nat, PublishBirth(n)
    PROVE  queue' \in Seq(RequestRecords) /\ publishing' \subseteq Publishables
<1> DEFINE len == Len(Births)
           births == [i \in 1..(n * len) |-> Births[1 + ((i - 1) % len)]]
<1>1. Births \in Seq(RequestRecords) /\ len \in Nat \ {0}  BY BirthsAreRequests
<1>2. queue' = queue \o births  BY DEF PublishBirth
<1> HIDE DEF len
<1>3. n * len \in Nat  BY <1>1
<1>4. \A i \in 1..(n * len) : 1 + ((i - 1) % len) \in 1..len
  <2>1. \A k \in Nat : k % len \in 0..(len - 1)  BY <1>1
  <2> SUFFICES ASSUME NEW i \in 1..(n * len) PROVE 1 + ((i - 1) % len) \in 1..len
    OBVIOUS
  <2>2. i - 1 \in Nat  BY <1>3
  <2>3. (i - 1) % len \in 0..(len - 1)  BY <2>1, <2>2
  <2> HIDE DEF births
  <2> QED  BY <2>3, <1>1
<1>5. \A k \in 1..len : Births[k] \in RequestRecords
  BY <1>1, ElementOfSeq DEF len
<1>6. births \in [1..(n * len) -> RequestRecords]  BY <1>4, <1>5
<1> HIDE DEF births
<1>7. births \in Seq(RequestRecords)  BY <1>3, <1>6, SequenceOf
<1>8. queue \in Seq(RequestRecords)  BY DEF ClientOK
<1>9. queue' \in Seq(RequestRecords)  BY <1>2, <1>7, <1>8, ConcatProperties
<1>10. Reported \subseteq Publishables  BY CommandsAssumption DEF Reported, Devices
<1>11. publishing' \subseteq Publishables
  BY <1>10 DEF PublishBirth, ClientOK
<1> QED  BY <1>9, <1>11

LEMMA EnableKeepsInv == ASSUME CommandsInv, Enable PROVE CommandsInv'
<1>1. PICK n \in 0..Len(Clients) :
         /\ configured' = configured \cup {Clients[i] : i \in 1..n}
         /\ enabled' = (n = Len(Clients) /\ n > 0)
  BY DEF Enable
<1>2. NodeOK'
  <2>1. {Clients[i] : i \in 1..n} \subseteq ClientSet
    BY CommandsAssumption DEF ClientSet
  <2>2. enabled' \in BOOLEAN  BY <1>1
  <2> QED  BY <1>1, <2>1, <2>2 DEF Enable, CommandsInv, NodeOK
<1> QED
  BY <1>2, MetricsSame, ListenersSame, InboxSame, RanSame, ClientSame, StepsSame
  DEF CommandsInv, Enable, metricVars, commandVars, clientVars

\* A device is added in front, once.
LEMMA AddDeviceKeepsInv ==
    ASSUME CommandsInv, NEW d \in Devices, AddDevice(d)
    PROVE  CommandsInv'
<1>1. devices' = <<d>> \o devices /\ ~Listed(d)  BY DEF AddDevice
<1>2. devices \in Seq(Devices)  BY DEF CommandsInv, NodeOK
<1>3. Len(devices) \in Nat /\ DOMAIN devices = 1..Len(devices)
  BY <1>2, LenProperties
<1>4. devices' \in Seq(Devices)  BY <1>1, <1>2, Prepended
<1>5. DOMAIN devices' = 1..(Len(devices) + 1)
  BY <1>1, <1>2, <1>4, Prepended, LenProperties
<1>6. devices'[1] = d  BY <1>1, <1>2, Prepended
<1>7. ASSUME NEW i \in DOMAIN devices', i # 1
      PROVE  i - 1 \in DOMAIN devices /\ devices'[i] = devices[i - 1]
  <2>1. i - 1 \in 1..Len(devices) /\ i = (i - 1) + 1  BY <1>3, <1>5, <1>7
  <2>2. \A k \in 1..Len(devices) : (<<d>> \o devices)[k + 1] = devices[k]
    BY <1>2, Prepended
  <2> QED  BY <2>1, <2>2, <1>1, <1>3
<1>8. ASSUME NEW i \in DOMAIN devices', NEW j \in DOMAIN devices',
             devices'[i] = devices'[j]
      PROVE  i = j
  <2>1. \A k \in DOMAIN devices : devices[k] # d  BY <1>1 DEF Listed
  <2>2. i = 1 <=> j = 1  BY <2>1, <1>6, <1>7, <1>8
  <2>3. CASE i # 1
    <3>1. devices[i - 1] = devices[j - 1]  BY <2>2, <2>3, <1>7, <1>8
    <3>2. i - 1 = j - 1  BY <3>1, <2>2, <2>3, <1>7 DEF CommandsInv, NodeOK
    <3> QED  BY <3>2, <1>3, <1>5
  <2> QED  BY <2>2, <2>3
<1>9. NodeOK'
  BY <1>4, <1>8 DEF AddDevice, CommandsInv, NodeOK
<1> QED
  BY <1>9, MetricsSame, ListenersSame, InboxSame, RanSame, ClientSame, StepsSame
  DEF CommandsInv, AddDevice, metricVars, commandVars, clientVars

\* A metric that gets a handler or a callback is made writable if it is
\* read-only, and then has no "writable" property yet.
LEMMA SetCommandKeepsInv ==
    ASSUME CommandsInv, NEW m \in Metrics,
           SetCommandHandler(m) \/ SetCommandCallback(m)
    PROVE  CommandsInv'
<1>1. /\ MadeWritable(m) /\ Step
      /\ handler' \cup callback' = handler \cup callback \cup {m}
      /\ handler' \subseteq handler \cup {m} /\ callback' \subseteq callback \cup {m}
  BY DEF SetCommandHandler, SetCommandCallback
<1>2. /\ UNCHANGED <<itemVars, messageVars, pastVars, nodeVars, inbox, ran, clientVars>>
  BY DEF SetCommandHandler, SetCommandCallback
<1>3. ListenersOK'
  <2>1. ListenersOK  BY DEF CommandsInv
  <2>2. CASE m \in readOnly
    <3>1. /\ readOnly' = readOnly \ {m}
          /\ writable' = [writable EXCEPT ![m] = writable[m] + 1]
      BY <1>1, <2>2 DEF MadeWritable, AddWritable
    <3>2. writable[m] = 0  BY <2>1, <2>2 DEF ListenersOK
    <3>3. writable' \in [Metrics -> 0..1]  BY <2>1, <3>1, <3>2 DEF ListenersOK
    <3>4. \A n \in readOnly' : writable'[n] = 0
      BY <2>1, <3>1 DEF ListenersOK
    <3> QED  BY <2>1, <1>1, <3>1, <3>3, <3>4 DEF ListenersOK
  <2>3. CASE m \notin readOnly
    BY <2>1, <2>3, <1>1 DEF MadeWritable, ListenersOK
  <2> QED  BY <2>2, <2>3
<1> QED
  BY <1>1, <1>2, <1>3, MetricsSame, NodeSame, InboxSame, RanSame, ClientSame,
     StepsSame
  DEF CommandsInv

LEMMA SetActiveClientKeepsInv ==
    ASSUME CommandsInv, NEW c \in ClientSet, SetActiveClient(c)
    PROVE  CommandsInv'
<1>1. NodeOK /\ ClientOK  BY DEF CommandsInv
<1>2. queue' \in Seq(RequestRecords) /\ publishing' \subseteq Publishables
  BY <1>1, PublishBirthKeepsClientOK DEF SetActiveClient
<1>3. activations' \in 0..MaxActivations
  BY <1>1, CommandsAssumption DEF SetActiveClient, ClientOK
<1>4. ClientOK'  BY <1>2, <1>3 DEF SetActiveClient, ClientOK
<1> QED
  BY <1>4, MetricsSame, NodeSame, ListenersSame, InboxSame, RanSame, StepsSame
  DEF CommandsInv, SetActiveClient, metricVars, commandVars

LEMMA DeactivateClientKeepsInv ==
    ASSUME CommandsInv, DeactivateClient PROVE CommandsInv'
<1>1. ClientOK'  BY DEF DeactivateClient, CommandsInv, ClientOK
<1> QED
  BY <1>1, MetricsSame, NodeSame, ListenersSame, InboxSame, RanSame, StepsSame
  DEF CommandsInv, DeactivateClient, metricVars, commandVars

LEMMA MessageArrivesKeepsInv ==
    ASSUME CommandsInv, NEW c \in ClientSet, NEW topic \in Topics,
           NEW commands \in Commands, MessageArrives(c, topic, commands)
    PROVE  CommandsInv'
<1>1. [client |-> c, topic |-> topic, commands |-> commands] \in Messages
  BY DEF Messages
<1>2. InboxOK'
  BY <1>1, AppendProperties DEF MessageArrives, CommandsInv, InboxOK
<1> QED
  BY <1>2, MetricsSame, NodeSame, ListenersSame, RanSame, ClientSame, StepsSame
  DEF CommandsInv, MessageArrives

\* Those called are metrics, and there are so many that it can be counted how
\* often the node is reborn.
LEMMA CallsAreOfMetrics ==
    ASSUME NEW p, NEW commands \in Commands
    PROVE  /\ \A i \in DOMAIN HandleCommand(p, commands) :
                 HandleCommand(p, commands)[i].metric \in Metrics
           /\ Rebirths(HandleCommand(p, commands)) \in Nat
<1> DEFINE heard == {j \in DOMAIN commands :
                        Found(p, commands[j].name) \cap (handler \cup callback) # {}}
           calls == HandleCommand(p, commands)
           rebirths == {i \in DOMAIN calls :
                            calls[i].metric = Rebirth /\ calls[i].value = 1}
<1>1. /\ DOMAIN calls = heard
      /\ \A i \in heard :
            calls[i].metric = CHOOSE m \in Found(p, commands[i].name) : TRUE
  BY DEF HandleCommand
<1>2. \A i \in heard : calls[i].metric \in Metrics
  <2> SUFFICES ASSUME NEW i \in heard PROVE calls[i].metric \in Metrics  OBVIOUS
  <2>1. Found(p, commands[i].name) # {}  OBVIOUS
  <2>2. calls[i].metric \in Found(p, commands[i].name)  BY <2>1, <1>1
  <2> QED  BY <2>2 DEF Found
<1>3. IsFiniteSet(DOMAIN commands)
  <2>1. Len(commands) \in Int /\ DOMAIN commands = 1..Len(commands)
    BY CommandsAssumption
  <2> QED  BY <2>1, FS_Interval
<1>4. rebirths \in SUBSET DOMAIN commands  BY <1>1
<1> HIDE DEF rebirths, heard, calls
<1>5. Cardinality(rebirths) \in Nat
  BY <1>3, <1>4, FS_Subset, FS_CardinalityType
<1>6. Rebirths(calls) = Cardinality(rebirths)  BY DEF Rebirths, rebirths
<1> QED  BY <1>1, <1>2, <1>5, <1>6 DEF calls

LEMMA ProcessMessageKeepsInv ==
    ASSUME CommandsInv, ProcessMessage PROVE CommandsInv'
<1> DEFINE received == Head(inbox)
           p == CHOOSE q \in Receivers(received) : TRUE
<1>1. NodeOK /\ ClientOK /\ InboxOK  BY DEF CommandsInv
<1>2. received \in Messages /\ Tail(inbox) \in Seq(Messages)
  BY <1>1, HeadTailProperties DEF InboxOK, ProcessMessage
<1>3. InboxOK'  BY <1>2 DEF InboxOK, ProcessMessage
<1>4. received.commands \in Commands  BY <1>2 DEF Messages
<1>5. ran' = <<>> \/ ran' = HandleCommand(p, received.commands)
  BY DEF ProcessMessage
<1> HIDE DEF p, received
<1>6. RanOK' /\ Rebirths(ran') \in Nat
  <2>1. CASE ran' = <<>>
    <3>1. {i \in DOMAIN ran' : ran'[i].metric = Rebirth /\ ran'[i].value = 1} = {}
      BY <2>1
    <3>2. Rebirths(ran') = 0  BY <3>1, FS_EmptySet DEF Rebirths
    <3> QED  BY <2>1, <3>2 DEF RanOK
  <2>2. CASE ran' = HandleCommand(p, received.commands)
    <3>1. /\ \A i \in DOMAIN ran' : ran'[i].metric \in Metrics
          /\ Rebirths(ran') \in Nat
      BY <2>2, <1>4, CallsAreOfMetrics
    <3> QED  BY <3>1 DEF RanOK
  <2> QED  BY <1>5, <2>1, <2>2
<1>7. queue' \in Seq(RequestRecords) /\ publishing' \subseteq Publishables
  <2>1. PublishBirth(Rebirths(ran'))  BY DEF ProcessMessage
  <2> QED  BY <2>1, <1>1, <1>6, PublishBirthKeepsClientOK
<1>8. ClientOK'  BY <1>1, <1>7 DEF ProcessMessage, ClientOK
<1> QED
  BY <1>3, <1>6, <1>8, MetricsSame, NodeSame, ListenersSame, StepsSame
  DEF CommandsInv, ProcessMessage, metricVars

LEMMA PublishDataKeepsInv ==
    ASSUME CommandsInv, NEW p \in Publishables, PublishData(p)
    PROVE  CommandsInv'
<1>1. Request(p, FALSE) \in RequestRecords  BY DEF Request, RequestRecords
<1>2. queue' \in Seq(RequestRecords)
  BY <1>1, AppendProperties DEF PublishData, CommandsInv, ClientOK
<1>3. ClientOK'  BY <1>2 DEF PublishData, CommandsInv, ClientOK
<1> QED
  BY <1>3, MetricsSame, NodeSame, ListenersSame, InboxSame, RanSame, StepsSame
  DEF CommandsInv, PublishData, metricVars, commandVars

\* The request at the front.
LEMMA FrontOfQueue ==
    ASSUME ClientOK, queue # <<>>
    PROVE  /\ Front \in Publishables /\ Head(queue).isBirth \in BOOLEAN
           /\ Tail(queue) \in Seq(RequestRecords)
<1>1. queue \in Seq(RequestRecords)  BY DEF ClientOK
<1>2. Head(queue) \in RequestRecords /\ Tail(queue) \in Seq(RequestRecords)
  BY <1>1, HeadTailProperties
<1> QED  BY <1>2 DEF Front, RequestRecords

LEMMA ReportingKeepsInv ==
    ASSUME CommandsInv, ProcessRequest \/ Delivered \/ Undelivered
    PROVE  CommandsInv'
<1>1. ClientOK /\ queue # <<>>
  BY DEF CommandsInv, ProcessRequest, Delivered, Undelivered
<1>2. /\ Front \in Publishables /\ Head(queue).isBirth \in BOOLEAN
      /\ Tail(queue) \in Seq(RequestRecords)
  BY <1>1, FrontOfQueue
<1>3. \/ Encode(Front, Head(queue).isBirth)
      \/ Deliver(Front) \/ GiveUp(Front) \/ Dumped(Front)
  BY DEF ProcessRequest, Delivered, Undelivered, Dumped
<1>4. MetricsInv'
  <2>1. MetricsStep  BY <1>2, <1>3 DEF MetricsStep
  <2> QED  BY <2>1, MetricsInvStep DEF CommandsInv
<1>5. steps' = steps
  BY <1>3 DEF Encode, Deliver, GiveUp, Dumped, Published
<1>6. /\ UNCHANGED <<nodeVars, commandVars, active, activations>>
      /\ queue' = queue \/ queue' = Tail(queue)
      /\ publishing' = publishing \/ publishing' = publishing \ {Front}
  BY DEF ProcessRequest, Delivered, Undelivered, clientVars
<1>7. ClientOK'  BY <1>1, <1>2, <1>6 DEF ClientOK
<1> QED
  BY <1>4, <1>5, <1>6, <1>7, NodeSame, ListenersSame, InboxSame, RanSame, StepsSame
  DEF CommandsInv, commandVars

LEMMA SetKeepsInv ==
    ASSUME CommandsInv, NEW x \in Settable, NEW v \in Inputs, Set(x, v)
    PROVE  CommandsInv'
<1>1. x \in Items  BY CommandsAssumption
<1>2. SetValue(x, v)  BY DEF Set
<1>3. MetricsInv'  BY <1>1, <1>2, SetValueKeepsMetricsInv DEF CommandsInv
<1>4. Step  BY <1>2 DEF SetValue
<1> QED
  BY <1>3, <1>4, NodeSame, ListenersSame, InboxSame, RanSame, ClientSame, StepsSame
  DEF CommandsInv, Set, commandVars

LEMMA CommandsInvNext == ASSUME CommandsInv, [Next]_vars PROVE CommandsInv'
<1>1. CASE Enable  BY <1>1, EnableKeepsInv
<1>2. ASSUME NEW d \in Devices, AddDevice(d) PROVE CommandsInv'
  BY <1>2, AddDeviceKeepsInv
<1>3. ASSUME NEW m \in Metrics \ {Rebirth},
             SetCommandHandler(m) \/ SetCommandCallback(m)
      PROVE  CommandsInv'
  BY <1>3, SetCommandKeepsInv
<1>4. ASSUME NEW c \in ClientSet, SetActiveClient(c) PROVE CommandsInv'
  BY <1>4, SetActiveClientKeepsInv
<1>5. CASE DeactivateClient  BY <1>5, DeactivateClientKeepsInv
<1>6. ASSUME NEW c \in ClientSet, NEW topic \in Topics, NEW commands \in Commands,
             MessageArrives(c, topic, commands)
      PROVE  CommandsInv'
  BY <1>6, MessageArrivesKeepsInv
<1>7. CASE ProcessMessage  BY <1>7, ProcessMessageKeepsInv
<1>8. ASSUME NEW p \in Publishables, PublishData(p) PROVE CommandsInv'
  BY <1>8, PublishDataKeepsInv
<1>9. CASE ProcessRequest \/ Delivered \/ Undelivered  BY <1>9, ReportingKeepsInv
<1>10. ASSUME NEW x \in Settable, NEW v \in Inputs, Set(x, v) PROVE CommandsInv'
  BY <1>10, SetKeepsInv
<1>11. CASE UNCHANGED vars
  <2>1. UNCHANGED <<metricVars, nodeVars, commandVars, clientVars>>
    BY <1>11 DEF vars
  <2> QED
    BY <2>1, MetricsSame, NodeSame, ListenersSame, InboxSame, RanSame, ClientSame,
       StepsSame
    DEF CommandsInv, metricVars, commandVars
<1> QED
  BY <1>1, <1>2, <1>3, <1>4, <1>5, <1>6, <1>7, <1>8, <1>9, <1>10, <1>11 DEF Next

\* The inductive invariant holds in every state.
THEOREM CommandsInvariance == Spec => []CommandsInv
<1>1. Init => CommandsInv  BY CommandsInvInit
<1>2. CommandsInv /\ [Next]_vars => CommandsInv'  BY CommandsInvNext
<1> QED  BY <1>1, <1>2, PTL DEF Spec

\* The types of the items, the node and the active client.
THEOREM CommandsTypeCorrect == Spec => []CommandsTypeOK
<1>1. CommandsInv => CommandsTypeOK  BY TypesFromCommandsInv
<1> QED  BY <1>1, CommandsInvariance, PTL

\* Metric::published and Property::published: an item whose flag is down is one
\* whose value the host knows, unless its change was overlooked in one of the
\* three ways of CleanIsKnown. In every class, with any setting of values while
\* a message is outstanding, and any fate of the message.
THEOREM WhatIsCleanIsKnown == Spec => []CleanIsKnown
<1>1. CommandsInv => CleanIsKnown  BY DEF CommandsInv, MetricsInv
<1> QED  BY <1>1, CommandsInvariance, PTL

\* PropertySet::published clears no property in the set: one that is clean was
\* never given another value than its first.
THEOREM NestedNeverOverlooked == Spec => []NestedIsNotOverlooked
<1>1. CommandsInv => NestedIsNotOverlooked
  BY NestedFromMetricsInv DEF CommandsInv
<1> QED  BY <1>1, CommandsInvariance, PTL

\* Setting an item to the value it has leaves its size as it is, and its flag,
\* unless it is a StringProperty that was never set.
LEMMA SetToTheSame ==
    ASSUME MetricsInv, NEW y \in Items, NEW v \in Inputs, SetValue(y, v),
           NEW x \in Items, dirty'[x], ~dirty[x]
    PROVE  data'[x] # data[x] \/ SizeWithoutNul(x)
<1> DEFINE w == Converted(class[y], v)
<1>1. /\ data' = [data EXCEPT ![y] = w]
      /\ dirty' = [dirty EXCEPT ![y] = dirty[y] \/ Differs(y, w)]
  BY DEF SetValue, Assign
<1>2. w \in Nat  BY StoredIsRead DEF MetricsInv, ClassesOK
<1> HIDE DEF w
<1>3. data \in [Items -> Nat] /\ dirty \in [Items -> BOOLEAN]
  BY DEF MetricsInv, ItemsOK
<1>4. x = y /\ Differs(x, w) /\ data'[x] = w  BY <1>1, <1>3
<1>5. size[x] # SizeOfSet(class[x], w) \/ data[x] # w
  BY <1>4 DEF Differs, DiffersMetric, DiffersProperty
<1>6. CASE data[x] # w  BY <1>4, <1>6
<1>7. CASE data[x] = w
  BY <1>5, <1>7 DEF MetricsInv, SizesOK
<1> QED  BY <1>6, <1>7

LEMMA OnlySettingMakesDirty ==
    ASSUME CommandsInv, [Next]_vars, NEW x \in Items, dirty'[x], ~dirty[x]
    PROVE  data'[x] # data[x] \/ SizeWithoutNul(x)
<1>1. MetricsInv  BY DEF CommandsInv
<1>2. ASSUME NEW y \in Settable, NEW v \in Inputs, Set(y, v)
      PROVE  data'[x] # data[x] \/ SizeWithoutNul(x)
  <2>1. y \in Items /\ SetValue(y, v)  BY <1>2, CommandsAssumption DEF Set
  <2> QED  BY <2>1, <1>1, SetToTheSame
<1>3. \A p : ~Published(p)
  <2> SUFFICES ASSUME NEW p, Published(p) PROVE FALSE  OBVIOUS
  <2>1. dirty'[x] => dirty[x]  BY DEF Published
  <2> QED  BY <2>1
<1>4. dirty' # dirty  OBVIOUS
<1>5. CASE UNCHANGED vars  BY <1>4, <1>5 DEF vars, metricVars, itemVars
<1>6. CASE Next
  <2>1. ~Delivered /\ ~Undelivered
    BY <1>3 DEF Delivered, Undelivered, Deliver, GiveUp
  <2>2. \E y \in Settable, v \in Inputs : Set(y, v)
    BY <1>6, <1>4, <2>1
    DEF Next, Enable, AddDevice, SetCommandHandler, SetCommandCallback,
        SetActiveClient, DeactivateClient, MessageArrives, ProcessMessage,
        PublishData, ProcessRequest, Encode, metricVars, itemVars
  <2> QED  BY <2>2, <1>2
<1> QED  BY <1>5, <1>6

\* Metric::setValue and Property::setValue: what is set to the value it has is
\* not reported again, in every class and in a PropertySet or not. The size is
\* compared before the value is, and it is that of the value all along: only the
\* constructor of StringProperty gives another.
THEOREM OnlyChangesReported == Spec => OnlyChangesMakeDirty
<1>1. CommandsInv /\ [Next]_vars =>
        [\A x \in Items :
            dirty'[x] /\ ~dirty[x] => data'[x] # data[x] \/ SizeWithoutNul(x)]_itemVars
  BY OnlySettingMakesDirty
<1> QED  BY <1>1, CommandsInvariance, PTL DEF Spec, OnlyChangesMakeDirty

----------------------------------------------------------------------------
(***************************************************************************)
(* Where a command goes. Only ProcessMessage takes a message off the       *)
(* queue; the metrics it calls are those found by name in the one          *)
(* publishable that is addressed.                                          *)
(***************************************************************************)

\* Of the metrics of p with one name, the one that was added last is found.
LEMMA FoundIsOne ==
    ASSUME NEW p, NEW metricName,
           NEW m \in Found(p, metricName), NEW n \in Found(p, metricName)
    PROVE  m = n
<1>1. /\ m \in Metrics /\ n \in Metrics
      /\ Added[m] <= Added[n] /\ Added[n] <= Added[m]
  BY DEF Found
<1>2. Added[m] \in Nat /\ Added[n] \in Nat  BY <1>1, CommandsAssumption
<1>3. Added[m] = Added[n]  BY <1>1, <1>2
<1> QED  BY <1>1, <1>3, CommandsAssumption

LEMMA UnshadowedIsFound ==
    ASSUME NEW m \in Metrics, m \notin Shadowed
    PROVE  m \in Found(Owner[m], MetricName[m])
<1>1. \A n \in Metrics :
         Owner[n] = Owner[m] /\ MetricName[n] = MetricName[m] => n = m
  BY DEF Shadowed
<1>2. Added[m] \in Nat  BY CommandsAssumption
<1>3. Added[m] <= Added[m]  BY <1>2
<1> QED  BY <1>1, <1>3 DEF Found

\* What handleCommand of p calls.
LEMMA HandleCommandCallsNamed ==
    ASSUME ListenersOK, NEW p, NEW commands
    PROVE  LET calls == HandleCommand(p, commands)
               called == {calls[i].metric : i \in DOMAIN calls}
           IN  /\ called \subseteq Named(p, commands)
               /\ Named(p, commands) \ Shadowed \subseteq called
<1> DEFINE listeners == handler \cup callback
           heard == {j \in DOMAIN commands :
                        Found(p, commands[j].name) \cap listeners # {}}
           calls == HandleCommand(p, commands)
           called == {calls[i].metric : i \in DOMAIN calls}
<1>1. /\ DOMAIN calls = heard
      /\ \A i \in heard :
            calls[i].metric = CHOOSE m \in Found(p, commands[i].name) : TRUE
  BY DEF HandleCommand
<1> HIDE DEF calls
<1>2. \A i \in heard : calls[i].metric \in Found(p, commands[i].name)
  <2> SUFFICES ASSUME NEW i \in heard
               PROVE  calls[i].metric \in Found(p, commands[i].name)
    OBVIOUS
  <2>1. Found(p, commands[i].name) # {}  OBVIOUS
  <2> QED  BY <2>1, <1>1
<1>3. ASSUME NEW i \in heard PROVE calls[i].metric \in Named(p, commands)
  <2>1. PICK m \in listeners : m \in Found(p, commands[i].name)  OBVIOUS
  <2>2. calls[i].metric = m  BY <2>1, <1>2, FoundIsOne
  <2>3. Owner[m] = p /\ MetricName[m] = commands[i].name  BY <2>1 DEF Found
  <2> QED  BY <2>1, <2>2, <2>3 DEF Named
<1>4. ASSUME NEW m \in Named(p, commands) \ Shadowed
      PROVE  m \in called
  <2>1. m \in listeners /\ m \in Metrics /\ Owner[m] = p
    BY DEF Named, ListenersOK
  <2>2. PICK i \in DOMAIN commands : commands[i].name = MetricName[m]
    BY DEF Named
  <2>3. m \in Found(p, commands[i].name)  BY <2>1, <2>2, UnshadowedIsFound
  <2>4. i \in heard  BY <2>1, <2>3
  <2>5. calls[i].metric = m  BY <2>3, <2>4, <1>2, FoundIsOne
  <2> QED  BY <2>4, <2>5, <1>1
<1>5. called \subseteq Named(p, commands)  BY <1>1, <1>3
<1> QED  BY <1>4, <1>5 DEF calls

\* The topic of a command for a device that can be told apart leads to it.
LEMMA DeviceIsAddressed ==
    ASSUME NodeOK, NEW d \in Devices, Listed(d), Distinct(d),
           NEW received, received.client = active,
           received.topic.kind = "DCMD", received.topic.device = name[d]
    PROVE  Receivers(received) = {d}
<1>1. ~ContainsNcmd(received.topic)  BY DEF ContainsNcmd, Distinct
<1>2. PICK i \in DOMAIN devices : devices[i] = d  BY DEF Listed
<1>3. devices \in Seq(Devices)  BY DEF NodeOK
<1>4. Len(devices) \in Nat /\ DOMAIN devices = 1..Len(devices)
  BY <1>3, LenProperties
<1>5. \A j \in DOMAIN devices : devices[j] \in Devices
  BY <1>3, <1>4, ElementOfSeq
<1>6. ASSUME NEW j \in 1..(i - 1) PROVE name[devices[j]] # received.topic.device
  <2>1. j \in DOMAIN devices /\ j # i  BY <1>2, <1>4
  <2>2. devices[j] # d  BY <2>1, <1>2 DEF NodeOK
  <2>3. Listed(devices[j])  BY <2>1 DEF Listed
  <2> QED  BY <2>1, <2>2, <2>3, <1>5 DEF Distinct
<1>7. d \in Addressee(received.topic)  BY <1>2, <1>6 DEF Addressee
<1>8. ASSUME NEW p \in Addressee(received.topic) PROVE p = d
  <2>1. p \in Devices /\ Listed(p) /\ name[p] = name[d]  BY DEF Addressee, Listed
  <2> QED  BY <2>1 DEF Distinct
<1>9. Addressee(received.topic) = {d}  BY <1>7, <1>8
<1> QED  BY <1>1, <1>9 DEF Receivers

\* What a step that takes a message off the queue does.
LEMMA ProcessMessageReaches ==
    ASSUME CommandsInv, ProcessMessage PROVE ReachesOwner(Head(inbox))
<1> DEFINE received == Head(inbox)
<1> SUFFICES ASSUME received.client = active PROVE ReachesOwner(received)
  BY DEF ReachesOwner
<1>1. ASSUME NEW p, Receivers(received) = {p}
      PROVE  CallsOnly(p, received.commands)
  <2>1. (CHOOSE q \in Receivers(received) : TRUE) = p  BY <1>1
  <2>2. ran' = HandleCommand(p, received.commands)
    BY <1>1, <2>1 DEF ProcessMessage
  <2>3. ListenersOK  BY DEF CommandsInv
  <2> QED  BY <2>2, <2>3, HandleCommandCallsNamed DEF CallsOnly
<1>2. received.topic.kind = "NCMD" => CallsOnly(NodeSelf, received.commands)
  <2>1. received.topic.kind = "NCMD" => Receivers(received) = {NodeSelf}
    BY DEF Receivers, ContainsNcmd
  <2> HIDE DEF received
  <2> QED  BY <2>1, <1>1
<1>3. ASSUME NEW d \in Devices, received.topic.kind = "DCMD", Listed(d),
             Distinct(d), received.topic.device = name[d]
      PROVE  CallsOnly(d, received.commands)
  <2>1. NodeOK  BY DEF CommandsInv
  <2>2. Receivers(received) = {d}  BY <2>1, <1>3, DeviceIsAddressed
  <2> HIDE DEF received
  <2> QED  BY <2>2, <1>1
<1> QED  BY <1>2, <1>3 DEF ReachesOwner

LEMMA OnlyProcessMessageTakes ==
    ASSUME CommandsInv, [Next]_vars, Len(inbox') < Len(inbox)
    PROVE  ProcessMessage
<1>1. inbox \in Seq(Messages)  BY DEF CommandsInv, InboxOK
<1>2. Len(inbox) \in Nat  BY <1>1, LenProperties
<1>3. inbox' # inbox  BY <1>2
<1>4. \A c \in ClientSet, topic \in Topics, commands \in Commands :
         ~MessageArrives(c, topic, commands)
  <2> SUFFICES ASSUME NEW c \in ClientSet, NEW topic \in Topics,
                      NEW commands \in Commands, MessageArrives(c, topic, commands)
               PROVE  FALSE
    OBVIOUS
  <2>1. [client |-> c, topic |-> topic, commands |-> commands] \in Messages
    BY DEF Messages
  <2>2. Len(inbox') = Len(inbox) + 1
    BY <1>1, <2>1, AppendProperties DEF MessageArrives
  <2> QED  BY <2>2, <1>2
<1>5. CASE UNCHANGED vars  BY <1>3, <1>5 DEF vars, commandVars
<1>6. CASE Next
  <2>1. \/ ProcessMessage \/ inbox' = inbox
        \/ \E c \in ClientSet, topic \in Topics, commands \in Commands :
              MessageArrives(c, topic, commands)
    BY <1>6
    DEF Next, Enable, AddDevice, SetCommandHandler, SetCommandCallback,
        SetActiveClient, DeactivateClient, PublishData, ProcessRequest, Delivered,
        Undelivered, Set, commandVars
  <2> QED  BY <2>1, <1>3, <1>4
<1> QED  BY <1>5, <1>6

\* Node::onMessage and Publishable::handleCommand: a command of the active
\* client calls the metrics it names, of the node or of the device in its topic,
\* and no others; for any names, any message and any order of adding devices.
THEOREM CommandsReachTheirOwner == Spec => CommandReachesOwner
<1>1. CommandsInv /\ [Next]_vars =>
        (Len(inbox') < Len(inbox) => ReachesOwner(Head(inbox)))
  BY OnlyProcessMessageTakes, ProcessMessageReaches
<1> QED  BY <1>1, CommandsInvariance, PTL DEF Spec, CommandReachesOwner

=============================================================================
