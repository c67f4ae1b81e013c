CONSTANTS
    L = L
    m1 = m1
    m2 = m2
    m3 = m3
    MSG = MSG
    UNKNOWN = UNKNOWN
    NONE_ = NONE_
    NOSTREAM = NOSTREAM
    NORESPONSE = NORESPONSE
    Leader <- L
    Members <- MCMembers2
    Nodes <- MCNodes2
    Threshold = 1
    Msg <- MSG
    SessionKeys <- MCKeys
    Unknown <- UNKNOWN
    NONE <- NONE_
    NoStream <- NOSTREAM
    NoResponse <- NORESPONSE
    MaxAttempts = 2
    MaxFaults = 0
    ResetPhases = {"req", "listen"}
    Ends <- MCEnds2
    LeaderEnds <- MCEnds2
SPECIFICATION Spec
INVARIANT NoOverRelease
