SPECIFICATION Spec
CONSTANTS
    r1 = r1
    r2 = r2
    Relays = {r1, r2}
    RelayUrls <- TwoUrls
    MaxPollFailures = 0
    FatalWired = TRUE
INVARIANTS
    NoGhostRegistration
    TerminalNeverSent
    NoAbandonedInference
