CONSTANTS
    MaxAttempts = 1
    MaxReplacements = 1
SPECIFICATION Spec
INVARIANTS
    EveryMicrophoneReleased
