SPECIFICATION Spec
CONSTANTS
    c1 = c1
    c2 = c2
    node = node
    device = device
    NoClient = NoClient
    NoPublisher = NoPublisher
    NodeSelf = node
    Clients = {c1}
    ClientOrder <- MCOneClient
    Publishables = {node}
    PublishOrder <- MCNodeOnly
    Modes <- MCBothModes
    PUBLISH_RETRIES = 0
    MaxDisruptions = 1
PROPERTY ActivatedHasSubscribed
