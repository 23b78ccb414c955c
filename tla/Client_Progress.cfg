SPECIFICATION FairSpec
CONSTANTS
    r1 = r1
    r2 = r2
    Relays = {r1}
    RelayUrls <- OneUrl
    MaxPollFailures = 2
    FatalWired = FALSE
PROPERTIES
    StopCompletes
    RequestEnds
