SPECIFICATION FairServerSpec
CONSTANTS
    Callers = {srv}
    Sessions = {s1}
    Turns = {t1}
    Transports = {x1}
    Models = {m1}
    Default = m1
    Outcomes <- OneOutcome
    MaxEvents = 0
    None = None
    Dispatcher = srv
    MaxLines = 3
PROPERTIES ServeReturns CancelledPromptAnswered
