SPECIFICATION MCSpec
CONSTANTS
    q1 = q1
    q2 = q2
    w1 = w1
    k1 = k1
    p1 = p1
    Requests = {q1, q2, w1}
    Warm = {w1}
    Cancellers = {k1}
    Readiness = {p1}
    MaxWorkers = 2
    None = None
INVARIANTS
    SingleWorker
PROPERTIES
    CancelledRequestEnds
