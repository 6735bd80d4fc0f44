SPECIFICATION FairSpec
CONSTANTS
    MaxTurns = 2
    MaxLines = 2
    PayloadCap = 1
    HasTimeout = TRUE
    None = None
INVARIANTS TypeOK StreamFaithful CompletedByOwnRecord GivenUpIsInterrupted NilReaderUnused
PROPERTIES TurnEnds ImplementsConversation
