\* A message delivered towards a session's channel after that session has
\* stopped reading: its goroutine blocks and keeps its MaxPayload reservation.
CONSTANTS
    n1 = n1
    k1 = k1
    k2 = k2
    i1 = i1
    i2 = i2
    o1 = o1
    o2 = o2
    t1 = t1
    t2 = t2
    UNKNOWN = UNKNOWN
    NoSession = NoSession
    Me <- n1
    Nodes <- MCNodes
    SessionKeys <- MCSessionKeys
    Ends <- MCEnds
    InEnds <- MCInEnds
    OutEnds <- MCOutEnds
    LeaderEnds <- MCLeaderEnds
    Unknown <- UNKNOWN
    Topics <- MCTopics
    ChanCap = 1
    LengthHeader = 4
    MaxPayload = 2
    PayloadBytes = {0, 255}
SPECIFICATION CommSpec
INVARIANT ReservationsReturned
