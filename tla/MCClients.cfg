SPECIFICATION FairSpec
CONSTANTS
    node = node
    device = device
    NodeSelf = node
    Publishables = {node, device}
    Libraries = {"PahoAsync", "PahoSync", "CppMqtt"}
    PUBLISH_RETRIES = 1
    SequenceModulus = 2
    MaxRequests = 2
    MaxDisruptions = 2
INVARIANTS ClientsTypeOK OnlyFrontIsSent OneAtATime DeliveredWasSent RetriesAreBounded NodeIsTold WillMatchesBirth SingleThreadedUsesLive
PROPERTIES ImplementsRequestQueue SequenceInOrder SyncResolves KeepsConnecting
