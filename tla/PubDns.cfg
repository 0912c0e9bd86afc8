CONSTANTS
    npm = npm
    zoraxy = zoraxy
    tunnel = tunnel
    adguard = adguard
    cloudflare = cloudflare
    None = None
    Hosts = {h1, h2}
    Ips = {i1, i2}
    Proxies = {}
    Dns = {adguard, cloudflare}
    Suspending = {}
    HostKeyed = {}
    Upsert = {cloudflare}
    NumIds = {}
    Faults = 1
    Services = {1}
    Sessions = {s1}
    Bodies <- DnsBodies
    Requests = 3
    Allowed <- RoutineEdit
    Kinds = {"add", "put", "delete", "push", "bulk"}
    Overlapping = TRUE
    Impatient = FALSE
SPECIFICATION Spec
SYMMETRY Symmetry
CHECK_DEADLOCK FALSE
INVARIANTS
    NoSilentOrphan
    DisabledIsDark
    CleanAnswerConverges
