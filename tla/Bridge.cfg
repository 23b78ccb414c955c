SPECIFICATION FairSpec
CONSTANTS
    r1 = r1
    r2 = r2
    Relays <- MCRelays
    Attempts = 1
    Flaky = {r1}
    WarmLoad = TRUE
    None = None
INVARIANTS NeverListedCold HonestOutcome
PROPERTIES StopEndsRun
