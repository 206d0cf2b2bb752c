CONSTANTS
    Conns = {c1}
    Talkers = {c1}
    Mortals = {}
    OfferIds = {o1, o2, o3}
    NoOffer = NoOffer
    HookClosers = {}
SPECIFICATION Spec
SYMMETRY OfferSymmetry
INVARIANTS
    OfferSlotMatchesVox
    RepliesMatchOffers
    CommandsToVox
CHECK_DEADLOCK FALSE
