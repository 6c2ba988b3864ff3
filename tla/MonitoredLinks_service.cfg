SPECIFICATION FairSpec
CONSTANTS
    Links = {l1, l2}
    Threads = {t1, t2}
    NoThread = NoThread
    NoLink = NoLink
    MaxEvents = 2
    MaxRecords = 4
    MaxCrashes = 1
    NewlineCanBeLost = FALSE
INVARIANTS
    CommittedRecordsSurvive
    JournalIsOneChain
PROPERTIES
    EveryRecordMatters
    ImplementsDurableLinkSet
    InFlightEnds
