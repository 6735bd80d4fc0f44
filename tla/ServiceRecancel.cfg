SPECIFICATION Spec
CONSTANTS
    Callers = {c1}
    Sessions = {s1}
    Turns = {t1}
    Transports = {x1}
    Models = {m1}
    Default = m1
    Outcomes <- TwoOutcomes
    MaxEvents = 0
    None = None
PROPERTIES RepeatedCancelKeepsState
