SPECIFICATION Spec
CONSTANTS
    Thread = {}
    Key = {}
    Node = {}
    Server = {}
    Client = {}
    None = None
    IpLimit = 2
    IdLimit = 1
    MaxWindows = 2
    Envs <- Environments
    TTL = 2
    Grace = 2
    Pause = 1
    MaxTime = 10
    MaxLost = 2
    Model = {"m1"}
    Tiers = {8, 64}
    Capabilities <- Announced
    MaxQueue = 2
    MaxRegistered = 3
    MaxLoad = 1
    MaxChosen = 3
    MaxItems = 2
    MaxChunks = 3
    Chunks = 3
    MaxRetries = 2
    MaxNoise = 1
INVARIANTS
    UnknownIsUnknown
CHECK_DEADLOCK FALSE
