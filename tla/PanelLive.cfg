CONSTANTS
    None = None
    Ids = {i1, i2}
    i1 = i1
    i2 = i2
    MaxFlows = 2
    MaxChanges = 1
    s1 = s1
    s2 = s2
    Services = {s1, s2}
    MaxRequests = 2
    MaxPushes = 1
    w1 = w1
    w2 = w2
    HookIds = {w1, w2}
    Targets <- TheTargets
    MaxHookChanges = 2
    MaxCooldown = 2
    MaxTries = 3
    MaxReads = 2
    MaxSeen = 2
SPECIFICATION PanelSpec
INVARIANTS TypeOK PagesAreSound
PROPERTIES WaitsEnd NothingIsTakenBack
CHECK_DEADLOCK FALSE
