SPECIFICATION Spec
CONSTANTS
    c1 = c1
    c2 = c2
    node = node
    device = device
    NoClient = NoClient
    NoPublisher = NoPublisher
    NodeSelf = node
    Clients = {c1, c2}
    ClientOrder <- MCTwoClients
    Publishables = {node}
    PublishOrder <- MCNodeOnly
    Modes <- MCPrimaryHost
    PUBLISH_RETRIES = 0
    MaxDisruptions = 2
INVARIANT ActiveMatchesHost
