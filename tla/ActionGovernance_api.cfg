SPECIFICATION Spec
CONSTANTS
    Evaluations = {e1}
    Kinds = {"api"}
    Actions = {"restart"}
    Exempt = {}
    Cooldown = 1
    Limit = 2
    Window = 3
    HistoryLength = 2
    MaxTime = 3
    MaxGranted = 4
    MaxTroubles = 0
CHECK_DEADLOCK FALSE
INVARIANT CooldownRespected
