SPECIFICATION RequestsSpec
CONSTANTS
    Traces = {x1, x2}
    Threads = {t1, t2}
    NoTrace = NoTrace
    MaxRequests = 4
    MaxFailures = 2
    MaxCrashes = 2
    Ttl = 2
    Age = 1
    Drift = 1
    MaxTime = 3
    MaxServiceTroubles = 1
    Bundles = {"b1", "b2", "b3"}
    ByRegistry = {"r1"}
    MaxStoreTroubles = 2
    Events = {"e1", "e2"}
    Decisions = {"d1", "d2"}
    Recoveries = {"e1", "d2"}
    Crashes = {"d1", "d2"}
    Apps = {"a1"}
    MaxApiFailures = 2
    MaxPosts = 3
    MaxPanel = 1
    Regions = {"zone3"}
    Custom = {"c1"}
    MaxPipelines = 4
    Agents = {"a1"}
    Jobs = {"j1", "j2", "j3"}
    Kinds = {"deploy", "restart", "drop_database"}
    MaxStarts = 2
    Calls = {"i1", "i2"}
    ServiceOf <- ServicesReported
    Env = "DEV"
    Loads <- LoadsAsked
    Keep = 1
    MaxTraceFailures = 1
    MaxDecisions = 1
    Links = {"l1", "l2", "l3"}
    NameOf <- DomainNames
    Reported = {}
    ResponseOf <- ResponseTimes
    MaxIngests = 3
    Off = Off
CHECK_DEADLOCK FALSE
INVARIANTS
    OnlyOverlapReusesTraces
    OnlyOverlapTearsStore
    OnlyStaleCopiesAcceptTwice
    OnlyOverlapLosesEvidence
    EventsRunOnlyRecorded
    OnlyOverlapMixesObservations
    OnlyOverlapSpoilsAnswers
PROPERTY OnlyPoisonedPoolsStarve
