SPECIFICATION Spec
CONSTANTS
    Node = {1, 2}
    Cred = {c1}
    Client = {k1}
    RequestId = {r1, r2, r3}
    Consumer = {w1}
    Model = {m1}
    Tier = {8, 64}
    Caps <- TwoTiers
    SchedulerState <- Busy
    CancelToken = {}
    Reply = {a1}
    Deadline = {1}
    None = None
    config <- SchedulerConfig
    MaxNow = 1
    MaxActivity = 3
    MaxGeneration = 0
    MaxOrder = 2
SYMMETRY Symmetry
INVARIANTS
    SchedulerSound
