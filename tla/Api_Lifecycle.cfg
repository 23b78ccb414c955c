SPECIFICATION FairSpec
CONSTANTS
    Node = {n1}
    Request = {r1}
    Thread = {t1, t2}
    None = None
    DeadlineSeconds = 2
    LeaseSeconds = 1
    InFlightSeconds = 1
    PollWaitSeconds = 1
    TerminalSeconds = 1
    TombstoneSeconds = 1
    UnregisterSeconds = 2
    MaxTime = 3
    MaxCredential = 2
INVARIANTS
    NoStrandedRequest
    RecordsAgree
PROPERTIES
    OwnerIsTold
    ImplementsLifecycle
    RequestAnswered
