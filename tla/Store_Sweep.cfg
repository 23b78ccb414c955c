SPECIFICATION Spec
CONSTANTS
    Node = {1, 2}
    Cred = {c1, c2}
    Client = {k1}
    RequestId = {r1, r2}
    Consumer = {w1}
    Model = {m1}
    Tier = {8}
    Caps <- OneModelOneTier
    SchedulerState = {}
    CancelToken = {x1}
    Reply = {a1}
    Deadline = {3}
    None = None
    config <- TeardownConfig
    MaxNow = 3
    MaxActivity = 2
    MaxGeneration = 1
    MaxOrder = 2
SYMMETRY Symmetry
INVARIANTS
    IndexExact
    TeardownSafe
    LoopsFresh
