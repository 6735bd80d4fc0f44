SPECIFICATION Spec
CONSTANTS
    MaxTurns = 2
    MaxLines = 1
    PayloadCap = 1
    HasTimeout = FALSE
    None = None
INVARIANTS PromptsSeparate
