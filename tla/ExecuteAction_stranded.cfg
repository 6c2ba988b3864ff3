SPECIFICATION Spec
CONSTANTS
    Calls = {c1, c2}
    Services = {s1}
    NoService = NoService
    MaxFailures = 1
    MaxCrashes = 0
    LateFailures = FALSE
    JournalMayBlock = FALSE
CHECK_DEADLOCK FALSE
INVARIANT NoStrandedContracts
SYMMETRY Symmetry
