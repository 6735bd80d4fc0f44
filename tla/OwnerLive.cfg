SPECIFICATION FairSpec
CONSTANTS
    Procs = {p1, p2}
    Sessions = {s1}
    ProbesFail = TRUE
    None = None
CHECK_DEADLOCK FALSE
PROPERTIES SignalEnds
