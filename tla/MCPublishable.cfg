SPECIFICATION FairSpec
CONSTANTS
    Metrics = {m1, m2}
    Values = {v1, v2}
    InitialValue = v1
    Clients = {c1, c2}
    publishPeriod = 2
    Elapsed <- MCElapsed
    MaxOutstanding = 2
INVARIANTS TypeOK WaitedLongEnough PublishingIsOutstanding
PROPERTIES PublishSpacing 
