CONSTANTS
    Conns = {c1, c2}
    Talkers = {}
    Closers = {k1, k2}
    OfferIds = {}
    NoOffer = NoOffer
SPECIFICATION Spec
SYMMETRY DrainSymmetry
INVARIANTS
    NoLostWakeup
    CleanedUpOnce
    SignalNotMissed
PROPERTIES
    DrainsAsPromised
CHECK_DEADLOCK FALSE
