CONSTANTS
    MaxAttempts = 2
    MaxReplacements = 2
SPECIFICATION FairSpec
INVARIANTS
    ResourcesReleased
    AttemptsSeparate
PROPERTIES
    StaleConnectIsHarmless
    ConnectSettlesUnlessCutOff
