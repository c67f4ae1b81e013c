CONSTANTS
    L = L
    m1 = m1
    m2 = m2
    m3 = m3
    MSG = MSG
    UNKNOWN = UNKNOWN
    NONE_ = NONE_
    NOSTREAM = NOSTREAM
    NORESPONSE = NORESPONSE
    Leader <- L
    Members <- MCMembers3
    Nodes <- MCNodes3
    Threshold = 2
    Msg <- MSG
    SessionKeys <- MCKeys
    Unknown <- UNKNOWN
    NONE <- NONE_
    NoStream <- NOSTREAM
    NoResponse <- NORESPONSE
    MaxAttempts = 1
    MaxFaults = 1
    ResetPhases = {"req", "listen"}
    Ends <- MCEnds3
    LeaderEnds <- MCEnds3
SPECIFICATION Spec
INVARIANT SuccessIsQuorum
SYMMETRY MemberSymmetry
