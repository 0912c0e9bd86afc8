CONSTANTS
    npm = npm
    zoraxy = zoraxy
    tunnel = tunnel
    adguard = adguard
    cloudflare = cloudflare
    None = None
    Hosts = {h1}
    Ips = {i1}
    Proxies = {npm}
    Dns = {adguard}
    Suspending = {npm}
    HostKeyed = {}
    Upsert = {}
    NumIds = {1, 2, 3, 4}
    Faults = 0
    Services = {1}
    Sessions = {s1, s2}
    Bodies <- RaceBodies
    Requests = 3
    Allowed <- RoutineEdit
    Kinds = {"add", "put", "delete", "push", "bulk"}
    Overlapping = TRUE
    Impatient = FALSE
SPECIFICATION FairSpec
CHECK_DEADLOCK FALSE
PROPERTIES
    EveryRequestEnds
