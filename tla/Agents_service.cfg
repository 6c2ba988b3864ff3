SPECIFICATION AgentsSpec
CONSTANTS
    Requests = {r1, r2}
    Loop = Loop
    Traces = {x1}
    NoTrace = NoTrace
    Elsewhere = {"w2"}
    Deployments <- SmallDeployments
    MaxTroubles = 1
    Capacity = 2
    MaxBlocks = 5
    MaxLives = 3
    EventSinks = {"redis", "csv"}
    MaxLines = 3
    MaxBadStarts = 2
    MaxEnds = 1
    Services = {"s1", "s2"}
    Statuses = {"healthy", "unreachable"}
    PoolSize = 2
    MaxEvents = 2
    MaxPolls = 2
    MaxPushed = 1
    Letters = {"l1", "l2"}
    Notes = {"n1", "n2"}
    MaxMailTroubles = 2
    Parties <- SmallParties
    Off = Off
CHECK_DEADLOCK FALSE
INVARIANTS
    IdleBetweenCycles
    OnlyUnconsumedTracesRepeat
    OnlySilentCyclesAnswerStale
    OnlyDisorderForgets
    StatusesMatchEvents
    OnlyCausesMishandleMail
PROPERTY EveryEventAnswered
