SPECIFICATION Spec
CONSTANTS
    Executions = {e1, e2}
    Threads = {t1, t2}
    NoExecution = NoExecution
    MaxEvents = 5
    MaxTears = 0
    MaxCrashes = 0
    LateFailures = TRUE
INVARIANT TerminalIsFinal
