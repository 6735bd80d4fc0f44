SPECIFICATION ServerSpec
CONSTANTS
    Callers = {srv}
    Sessions = {s1}
    Turns = {t1, t2}
    Transports = {x1, x2}
    Models = {m1, m2}
    Default = m1
    Outcomes <- OneOutcome
    MaxEvents = 1
    None = None
    Dispatcher = srv
    MaxLines = 3
SYMMETRY TurnSymmetry
INVARIANTS ServerTypeOK AnsweredOnce SlotFreeOnAnswer UpdatesPrecedeResponse EndOfInputAnswersPrompts ReturnLeavesNothing
