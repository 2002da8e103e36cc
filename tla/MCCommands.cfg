SPECIFICATION MCSpec
CONSTANTS
    node = node
    d1 = d1
    d2 = d2
    c1 = c1
    c2 = c2
    none = none
    rebirth = rebirth
    m1 = m1
    m2 = m2
    p1 = p1
    n1 = n1
    unknown = unknown
    NodeSelf = node
    Publishables = {node, d1, d2}
    Rebirth = rebirth
    Metrics = {rebirth, m1, m2}
    Properties = {p1}
    Nested = {n1}
    Owner <- MCOwner
    MetricOf <- MCMetricOf
    Added <- MCAdded
    MetricName <- MCMetricName
    Names = {"a", "NCMD"}
    NcmdNames = {"NCMD"}
    Clients <- MCClients
    NoClient = none
    Commands <- MCCommandMessages
    ByteValues = 2
    Inputs = {1, 2}
    Unknown = unknown
    Settable = {m1, p1, n1}
    MaxSteps = 2
    MaxActivations = 1
INVARIANTS CommandsTypeOK CleanIsKnown NestedIsNotOverlooked
PROPERTIES CommandReachesOwner OnlyChangesMakeDirty
\* The calls of the application and the commands are bounded.
CHECK_DEADLOCK FALSE
