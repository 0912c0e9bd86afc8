CONSTANTS
    npm = npm
    zoraxy = zoraxy
    tunnel = tunnel
    adguard = adguard
    cloudflare = cloudflare
    None = None
    Hosts = {h1, h2}
    Ips = {i1}
    Proxies = {npm, zoraxy}
    Dns = {}
    Suspending = {npm, zoraxy}
    HostKeyed = {zoraxy}
    Upsert = {}
    NumIds = {1, 2, 3}
    Faults = 0
    Services = {1}
    Sessions = {s1}
    Bodies <- ProxyBodies
    Requests = 4
    Allowed <- WhileOffEdit
    Kinds = {"add", "put", "delete", "push", "bulk"}
    Overlapping = TRUE
    Impatient = FALSE
SPECIFICATION Spec
CHECK_DEADLOCK FALSE
INVARIANTS
    DisabledIsDark
