SPECIFICATION Spec
CONSTANTS
    Links = {l1, l2}
    Threads = {t1, t2}
    NoThread = NoThread
    NoLink = NoLink
    MaxEvents = 2
    MaxRecords = 3
    MaxCrashes = 1
    NewlineCanBeLost = TRUE
INVARIANT CommittedRecordsSurvive
