SPECIFICATION FairSpec
CONSTANTS
    c1 = c1  c2 = c2  l1 = l1  g1 = g1
    Callers = {c1, c2}
    Listeners = {l1}
    Explicit = {g1}
    None = None
    Capacity = 1
    PondCapacity = 1
    MaxCalls = 2
    MaxEvents = 2
INVARIANTS
    JoinIsTruthful AckIsForThisStart AnswerNotMissed TextResponseIsWhole
PROPERTIES
    EveryMessageIsHandled
CHECK_DEADLOCK FALSE
