SPECIFICATION Spec
CONSTANTS
    Procs = {p1, p2}
    Sessions = {s1, s2}
    ProbesFail = FALSE
    None = None
SYMMETRY Sym
CHECK_DEADLOCK FALSE
INVARIANTS TypeOK EvidenceKept ExitAccounts
