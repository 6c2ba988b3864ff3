SPECIFICATION Spec
CONSTANTS
    Calls = {c1, c2}
    Services = {s1}
    NoService = NoService
    MaxFailures = 0
    MaxCrashes = 0
    LateFailures = TRUE
    JournalMayBlock = FALSE
CHECK_DEADLOCK FALSE
INVARIANT UnreachableMeansNotExecuted
SYMMETRY Symmetry
