CONSTANTS
    npm = npm
    zoraxy = zoraxy
    tunnel = tunnel
    adguard = adguard
    cloudflare = cloudflare
    None = None
    Hosts = {h1, h2}
    Ips = {i1}
    Proxies = {npm, zoraxy, tunnel}
    Dns = {}
    Suspending = {npm, zoraxy}
    HostKeyed = {zoraxy, tunnel}
    Upsert = {tunnel}
    NumIds = {1, 2, 3}
    Faults = 1
    Services = {1}
    Sessions = {s1}
    Bodies <- ProxyBodies
    Requests = 4
    Allowed <- RoutineEdit
    Kinds = {"add", "put", "delete", "push", "bulk"}
    Overlapping = TRUE
    Impatient = FALSE
SPECIFICATION Spec
SYMMETRY Symmetry
CHECK_DEADLOCK FALSE
INVARIANTS
    NoSilentOrphan
    DisabledIsDark
    CleanAnswerConverges
PROPERTIES
    SuspensionKeepsTheHost
