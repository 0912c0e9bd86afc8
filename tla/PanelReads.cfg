CONSTANTS
    None = None
    MaxTurns = 1
    MaxSaves = 2
    MaxOut = 2
    Stores = {"npm", "zoraxy"}
    Zoraxies = {"zoraxy"}
    Dates <- TheDates
    CRITICAL_DAYS = 0
    WARN_DAYS = 1
    Filters = {"expiring"}
    MaxDay = 1
    Watched = {"web", "git"}
    Tunnelled = {"git"}
    UPTIME_WINDOW = 1
    UPTIME_BUCKETS = 2
    MaxTime = 2
    MaxPoints = 2
    MaxChecks = 2
    Hosts = {"a", "b"}
    ZoneOfHost <- TheZones
    Apexes = {}
    MaxSyncCalls = 3
    Endpoints = {1, 2}
    Containers = {"web"}
    Domains <- TheDomains
    MaxDockerCalls = 2
    PerPage = 2
    LIVE_CAP = 2
    LevelOfEntry <- TheLevels
    MaxSwitches = 1
    MaxReads = 2
    Rated = {1, 2}
    Tunnels = {1}
    MaxFlips = 1
    Inspected = {1, 2}
    ShowsHosts = {1, 2}
    ShowsRecords = {1}
    Terms = {"nothing"}
    MaxOpenings = 2
    Answers <- TheAnswers
    TODAY_LOGS_SAMPLE = 2
    MaxAgain = 1
    MaxRefusals = 1
SPECIFICATION PanelSpec
INVARIANTS TypeOK PagesCatchUp FiguresAgree ItemsToldOnce AsAsked
PROPERTIES ChecksAreKept
CHECK_DEADLOCK FALSE
