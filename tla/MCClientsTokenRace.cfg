SPECIFICATION Spec
CONSTANTS
    node = node
    device = device
    NodeSelf = node
    Publishables = {node, device}
    Libraries = {"PahoAsync"}
    PUBLISH_RETRIES = 1
    SequenceModulus = 2
    MaxRequests = 1
    MaxDisruptions = 0
INVARIANT FrontIsPublished
