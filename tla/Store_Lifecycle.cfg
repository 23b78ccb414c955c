SPECIFICATION Spec
CONSTANTS
    Node = {1}
    Cred = {c1}
    Client = {k1}
    RequestId = {r1, r2}
    Consumer = {w1}
    Model = {m1}
    Tier = {8}
    Caps <- OneModelOneTier
    SchedulerState <- Draining
    CancelToken = {x1}
    Reply = {a1}
    Deadline = {2, 4}
    None = None
    config <- LifecycleConfig
    MaxNow = 4
    MaxActivity = 3
    MaxGeneration = 2
    MaxOrder = 1
SYMMETRY Symmetry
INVARIANTS
    TypeOK
    LifecycleExclusive
    RetainedSound
PROPERTIES
    OutcomeKept
    WorkerFenced
