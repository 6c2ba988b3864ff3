SPECIFICATION Spec
CONSTANTS
    Traces = {x1, x2}
    Threads = {t1, t2}
    NoTrace = NoTrace
    MaxRequests = 2
    MaxFailures = 0
    MaxCrashes = 0
CHECK_DEADLOCK FALSE
INVARIANT SingleUse
