\* Leaderless join party, two peers, lossy transport, timeouts fire.
CONSTANTS
    Nodes = {n1, n2}
    NoResult = NoResult
    NONE = NONE
    NoStream = NoStream
    NoResponse = NoResponse
    Patient = FALSE
    Lossy = TRUE
SPECIFICATION FairSpec
INVARIANT NewFoundNeverFull
PROPERTY ImplementsAbstract
