CONSTANTS
    Conns = {c1}
    Talkers = {c1}
    Closers = {k1}
    OfferIds = {o1, o2}
    NoOffer = NoOffer
SPECIFICATION FairSpec
INVARIANTS
    OfferSlotMatchesVox
    RepliesMatchOffers
    CommandsToVox
PROPERTIES
    ShutdownProgresses
CHECK_DEADLOCK FALSE
