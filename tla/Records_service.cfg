SPECIFICATION RecordsSpec
CONSTANTS
    Executions = {e1, e2}
    Threads = {t1, t2}
    NoExecution = NoExecution
    MaxEvents = 5
    MaxTears = 1
    MaxCrashes = 1
    LateFailures = FALSE
    Keys = {"k1", "k2"}
    ClockSkew = 1
    LastTime = 2
    LongestLineage = 5
    MaxSetbacks = 2
    Logged = {"x1", "x2"}
    SignedOnes = {"x1"}
    MaxLogged = 3
    MaxTroubles = 2
    MaxDerived = 1
    MaxPosts = 4
    MaxRequestTears = 1
    CapabilityIds = {"governed", "observation"}
    VanaIds = {"observation"}
    Specifications <- SpecsRegistered
    Verified <- MappingsVerified
    Asked = {"restart", "noop"}
    EvidenceLengths = {0, 1, 2}
    MaxKilled = 1
    MetricFiles <- TwoFiles
    RowsOf <- RowsMeasured
    MaxRows = 2
    MaxKills = 1
    Callbacks = {"c1", "c2"}
    Patterned <- PatternsSubscribed
    Matched <- PatternsMatched
    Published = {"issue", "deploy"}
    MaxListeners = 2
    SovMessages = {"m1", "m2", "m3"}
    SovSubscribers = {s1, s2}
    SovChannels <- ChannelsUsed
    Off = Off
CHECK_DEADLOCK FALSE
SYMMETRY Symmetry
INVARIANTS
    OnlyStaleIndexBreaksLineage
    AcknowledgedEventsSurvive
    DamagedJournalStaysClosed
    HonestLineagesReplay
    OnlyBlindAppendsHideLosses
    HonestDamageIsNotForgery
    OnlyOverlapSpoilsFiles
    OnlyCausesDisturbTheBuses
PROPERTY ImplementsExecutionLifecycle
