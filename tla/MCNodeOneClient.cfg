SPECIFICATION FairSpec
CONSTANTS
    c1 = c1
    c2 = c2
    node = node
    device = device
    NoClient = NoClient
    NoPublisher = NoPublisher
    NodeSelf = node
    Clients = {c1}
    ClientOrder <- MCOneClient
    Publishables = {node, device}
    PublishOrder <- MCNodeAndDevice
    Modes <- MCBothModes
    PUBLISH_RETRIES = 1
    MaxDisruptions = 2
INVARIANTS NodeTypeOK PublishingIsOutstanding BirthFirst
PROPERTY LostActiveIsReplaced
