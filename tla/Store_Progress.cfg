SPECIFICATION FairSpec
CONSTANTS
    Node = {1, 2}
    Cred = {c1}
    Client = {k1}
    RequestId = {r1, r2}
    Consumer = {w1}
    Model = {m1}
    Tier = {8}
    Caps <- OneModelOneTier
    SchedulerState = {}
    CancelToken = {x1}
    Reply = {a1}
    Deadline = {1}
    None = None
    config <- RoomyTeardownConfig
    MaxNow = 1
    MaxActivity = 2
    MaxGeneration = 1
    MaxOrder = 2
PROPERTIES
    RequestDecided
    TeardownCompletes
