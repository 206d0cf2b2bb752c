CONSTANTS
    Conns = {c1, c2}
    Talkers = {}
    Mortals = {c1}
    OfferIds = {}
    NoOffer = NoOffer
    HookClosers = {c2}
SPECIFICATION FairSpec
INVARIANTS
    CleanupOnce
    NothingSurvivesDisconnect
    HooksNeverOverlap
PROPERTIES
    NeverReadyTooLate
    ContractSpec
    ShutdownCompletes
    SocketsEnd
CHECK_DEADLOCK FALSE
