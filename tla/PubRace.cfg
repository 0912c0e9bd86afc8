CONSTANTS
    npm = npm
    zoraxy = zoraxy
    tunnel = tunnel
    adguard = adguard
    cloudflare = cloudflare
    None = None
    Hosts = {h1, h2}
    Ips = {i1}
    Proxies = {npm}
    Dns = {adguard}
    Suspending = {npm}
    HostKeyed = {}
    Upsert = {}
    NumIds = {1, 2, 3, 4}
    Faults = 1
    Services = {1, 2}
    Sessions = {s1, s2}
    Bodies <- LockBodies
    Requests = 3
    Allowed <- RoutineEdit
    Kinds = {"add", "put", "delete", "push", "bulk"}
    Overlapping = TRUE
    Impatient = TRUE
SPECIFICATION Spec
SYMMETRY Symmetry
CHECK_DEADLOCK FALSE
INVARIANTS
    TypeOK
    UniqueHosts
PROPERTIES
    WithdrawalPublishesNothing
