SPECIFICATION NodeSpec
CONSTANTS
    p1 = p1
    p2 = p2
    c1 = c1
    s1 = s1
    Import = Import
    InitCmd = InitCmd
    None = None
    Procs = {p1, p2}
    MaxClock = 2
    MaxCalls = 2
    MaxVariants = 3
    Callers = {c1, s1}
    Streams = {s1}
    MaxFrames = 2
    MaxUnclaimed = 1
    Optional = {"temperature"}
    Defaults = {"temperature", "top_k"}
    Window = 2
    DefaultMax = 2
    MaxBytes = 1
    MaxMessages = 2
    MaxPieces = 3
    RuntimeIds = {1}
    MaxRequests = 2
    MaxRuntimes = 2
    Publisher = {p1, p2}
    MaxUpdates = 2
INVARIANTS
    ReceiptSound
    CallHonoursRequest
    NoReasoningReleased
    StoppedStaysQuiet
PROPERTIES
    LadderStops
    ReadinessEnds
    DeadWorkerAnswersAll
