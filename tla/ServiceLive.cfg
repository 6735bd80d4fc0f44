SPECIFICATION FairSpec
CONSTANTS
    Callers = {c1}
    Sessions = {s1}
    Turns = {t1, t2}
    Transports = {x1}
    Models = {m1}
    Default = m1
    Outcomes <- NoText
    MaxEvents = 0
    None = None
INVARIANTS TypeOK SlotConsistent NoPhantomCancelFailure ReleasedTurnsCancelled
PROPERTIES CancelledTurnReturns ShutdownEndsTurns
