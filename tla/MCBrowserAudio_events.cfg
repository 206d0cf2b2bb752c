CONSTANTS
    Volumes = {0, 2, 3}
    DuckVolume = 1
    CandidateIds = {k1, k2}
    Null = Null
SPECIFICATION FairSpec
INVARIANTS
    VolumeIsUsersOrDucked
    MuteIsUsersOrSuspension
PROPERTIES
    DuckIsReleased
