----------------------------- MODULE DataTypes -----------------------------
(***************************************************************************)
(* The typed metrics and properties (src/src/metrics/simple,               *)
(* src/src/properties/simple). A class stores the bytes of its C++ type    *)
(* and hands them to tahu with a Sparkplug data type, by which the host    *)
(* reads them. A byte has ByteValues values, 256 in the code.              *)
(***************************************************************************)
EXTENDS Integers

CONSTANT ByteValues

ASSUME DataTypesAssumption == ByteValues \in Nat \ {0, 1}

\* The strings are numbers too: 0 and 1 have the same length, 2 is longer.
LengthOf(string) == 1 + string \div 2

Class(type, bytes) == [type |-> type, bytes |-> bytes, terminator |-> 0]

\* The classes: the data type each passes on, and sizeof its T.
BooleanMetric == Class("BOOLEAN", 1)
DateTimeMetric == Class("DATETIME", 8)
DoubleMetric == Class("DOUBLE", 8)
FloatMetric == Class("FLOAT", 4)
Int8Metric == Class("INT8", 1)
Int16Metric == Class("INT16", 2)
Int32Metric == Class("INT32", 4)
Int64Metric == Class("INT64", 8)
UInt8Metric == Class("UINT8", 1)
UInt16Metric == Class("UINT16", 2)
UInt32Metric == Class("UINT32", 4)
\* Mutant of UInt64Metric: the data type of another class is passed on.
UInt64MetricAsUInt8 == Class("UINT8", 8)

UInt64Metric == Class("UINT64", 8)

\* The bytes of a string depend on it; those of its metric end in a NUL.
StringMetric == [type |-> "STRING", bytes |-> 0, terminator |-> 1]

BooleanProperty == Class("BOOLEAN", 1)
DateTimeProperty == Class("DATETIME", 8)
DoubleProperty == Class("DOUBLE", 8)
FloatProperty == Class("FLOAT", 4)
Int8Property == Class("INT8", 1)
Int16Property == Class("INT16", 2)
Int32Property == Class("INT32", 4)
Int64Property == Class("INT64", 8)
UInt8Property == Class("UINT8", 1)
UInt16Property == Class("UINT16", 2)
UInt32Property == Class("UINT32", 4)
UInt64Property == Class("UINT64", 8)

\* A StringProperty is created without the NUL that setValue later counts.
StringProperty == [type |-> "STRING", bytes |-> 0, terminator |-> 0]

\* The class of a metric and that of a property of the same type.
Classes ==
    {<<BooleanMetric, BooleanProperty>>, <<DateTimeMetric, DateTimeProperty>>,
     <<DoubleMetric, DoubleProperty>>, <<FloatMetric, FloatProperty>>,
     <<Int8Metric, Int8Property>>, <<Int16Metric, Int16Property>>,
     <<Int32Metric, Int32Property>>, <<Int64Metric, Int64Property>>,
     <<UInt8Metric, UInt8Property>>, <<UInt16Metric, UInt16Property>>,
     <<UInt32Metric, UInt32Property>>, <<UInt64Metric, UInt64Property>>,
     <<StringMetric, StringProperty>>}

\* What Sparkplug says of the data types: the bytes a host reads.
SparkplugBytes ==
    [BOOLEAN |-> 1, INT8 |-> 1, UINT8 |-> 1, INT16 |-> 2, UINT16 |-> 2,
     INT32 |-> 4, UINT32 |-> 4, FLOAT |-> 4, INT64 |-> 8, UINT64 |-> 8,
     DATETIME |-> 8, DOUBLE |-> 8, STRING |-> 0]

\* How many values there are in so many bytes. (Products: the provers know
\* nothing of exponents.)
ValuesIn(bytes) ==
    LET two == ByteValues * ByteValues
        four == two * two
    IN  CASE bytes = 1 -> ByteValues
          [] bytes = 2 -> two
          [] bytes = 4 -> four
          [] bytes = 8 -> four * four

\* An argument of setValue(T) or of create(), converted to T.
Converted(class, v) ==
    IF class.type = "STRING" THEN v
    ELSE IF class.type = "BOOLEAN" THEN IF v = 0 THEN 0 ELSE 1
    ELSE v % ValuesIn(class.bytes)

\* The stored bytes as the host reads them.
HostReads(class, v) ==
    IF class.type = "STRING" THEN v
    ELSE v % ValuesIn(SparkplugBytes[class.type])

\* Metric::size and Property::size of a new item, and after setValue.
SizeOfNew(class, v) ==
    IF class.type = "STRING" THEN LengthOf(v) + class.terminator
    ELSE class.bytes

SizeOfSet(class, v) ==
    IF class.type = "STRING" THEN LengthOf(v) + 1 ELSE class.bytes

=============================================================================
