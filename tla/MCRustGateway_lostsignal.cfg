CONSTANTS
    Conns = {c1}
    Talkers = {}
    Closers = {k1}
    OfferIds = {}
    NoOffer = NoOffer
SPECIFICATION FairSpec
PROPERTIES
    ShutdownCompletes
CHECK_DEADLOCK FALSE
