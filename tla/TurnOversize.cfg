SPECIFICATION Spec
CONSTANTS
    MaxTurns = 2
    MaxLines = 2
    PayloadCap = 1
    HasTimeout = FALSE
    None = None
INVARIANTS OversizeContained
