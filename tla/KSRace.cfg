SPECIFICATION FairSpec
PROPERTY KeySignReturns
