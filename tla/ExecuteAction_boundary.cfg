SPECIFICATION FairSpec
CONSTANTS
    Calls = {c1, c2}
    Services = {s1}
    NoService = NoService
    MaxFailures = 2
    MaxCrashes = 1
    LateFailures = TRUE
    JournalMayBlock = TRUE
CHECK_DEADLOCK FALSE
INVARIANTS
    RecordedExecutionsHappened
    AnswerAgreesWithLineage
    OneActionPerCooldown
PROPERTY EveryCallReturns
