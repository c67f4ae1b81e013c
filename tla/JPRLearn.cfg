\* Leaderless join party, two peers that all call, no loss, and a
\* timeout that never fires: does every node hear from every other one?
CONSTANTS
    Nodes = {n1, n2}
    NoResult = NoResult
    NONE = NONE
    NoStream = NoStream
    NoResponse = NoResponse
    Patient = TRUE
    Lossy = FALSE
SPECIFICATION AllCallSpec
PROPERTY PeersLearnEachOther
