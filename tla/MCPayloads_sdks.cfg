SPECIFICATION Spec
CONSTANT MaxTracks = 3
INVARIANTS
    EventsAgree ContextMeaningful ContextsAgree GatewaysAgree
CHECK_DEADLOCK FALSE
