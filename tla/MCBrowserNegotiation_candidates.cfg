CONSTANTS
    MaxNegotiations = 3
    MaxLocalCandidates = 3
    MaxVoxCandidates = 3
SPECIFICATION FairSpec
INVARIANTS
    OutgoingCandidates
    IncomingCandidates
PROPERTIES
    NegotiationEnds
CHECK_DEADLOCK FALSE
