SPECIFICATION DecisionsSpec
CONSTANTS
    Evaluations = {e1, e2}
    Kinds = {"api", "contract", "direct", "agent"}
    Actions = {"restart", "noop"}
    Exempt = {"noop"}
    Cooldown = 1
    Limit = 2
    Window = 3
    HistoryLength = 2
    MaxTime = 3
    MaxGranted = 4
    MaxTroubles = 1
    Versions = {"v1", "v2"}
    Supported = {"v1"}
    Ids = {"p1"}
    Keys = {"k1", "k2"}
    Approvers = {"sarathi", "other"}
    Trusted = {"sarathi"}
    PolicyActions = {"noop", "restart"}
    PolicyEnvs = {"dev", "prod"}
    Definitions <- SmallDefinitions
    Conditions = {"MISSING_DB_INDEX"}
    DownFlags = {{}, {"sig"}}
    MaxDeploys = 1
    MaxIssues = 1
    MaxEdits = 1
    SafeRequests = {"r1"}
    OtherEvaluators = {"o1"}
    FreezableApps = {a1, a2}
    Envs = {"dev"}
    Wanted = {"scale_up"}
    MaxReplicas = 2
    MaxSafeTime = 2
    Budgets <- SmallBudgets
    AppNames = {"x", "y"}
    MaxOperations = 3
    MaxCrashes = 1
    Patience = 2
    BrainCooldown = 2
    Gates = {"decisions", "learning"}
    MaxBrainTime = 4
    MaxCalls = 4
    Threshold = 2
    Recovery = 1
    Attempts = 2
    FailureWindow = 2
    Escalation = 2
    MaxRecent = 2
    MaxBreakerTime = 3
    MaxBreakerCalls = 7
    Off = Off
CHECK_DEADLOCK FALSE
SYMMETRY DecisionsSymmetry
INVARIANTS
    OnlyOverlapOrLossBreaksCooldown
    OnlyCausesBreakRepetition
    OnlySilentRedefinitionWidens
    OnlyDelayOrLossRunsGovernedActions
    FrozenAppsAreLeftAlone
    OnlyOverlapForgetsApps
    OnlyOverlapDefeatsGuards
