SPECIFICATION Spec
CONSTANTS
    Callers = {c1, c2}
    Sessions = {s1}
    Turns = {t1}
    Transports = {x1, x2}
    Models = {m1, m2}
    Default = m1
    Outcomes <- TwoOutcomes
    MaxEvents = 1
    None = None
SYMMETRY Sym
INVARIANTS CancelHasOwner
PROPERTIES ConfigFrozen
