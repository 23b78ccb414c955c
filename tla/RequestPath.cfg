SPECIFICATION Spec
CONSTANTS
    Thread = {t1, t2, t3}
    Key = {k1}
    Node = {n1, n2, n3}
    Server = {s1, s2}
    Client = {c1}
    None = None
    IpLimit = 2
    IdLimit = 1
    MaxWindows = 2
    Envs <- Environments
    TTL = 2
    Grace = 2
    Pause = 1
    MaxTime = 10
    MaxLost = 2
    Model = {"m1"}
    Tiers = {8, 64}
    Capabilities <- Announced
    MaxQueue = 2
    MaxRegistered = 3
    MaxLoad = 1
    MaxChosen = 3
    MaxItems = 2
    MaxChunks = 3
    Chunks = 3
    MaxRetries = 2
    MaxNoise = 1
INVARIANTS
    BudgetExact
    AdmissionRestartsClock
    NoAbandonedRequest
    EqualsRotate
    SessionsReachable
    StreamSound
PROPERTIES
    TurnSurvivesRemoval
CHECK_DEADLOCK FALSE
