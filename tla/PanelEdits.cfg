CONSTANTS
    None = None
    Types = {"npm", "traefik"}
    MaxPosts = 2
    Proxies = {px, py}
    Tunnels = {tn}
    Locals = {lo}
    Publics = {pu}
    AutoDns = {pu}
    MaxEdits = 4
    px = px
    py = py
    tn = tn
    lo = lo
    pu = pu
    t1 = t1
    t2 = t2
    t3 = t3
    TemplateIds = {t1, t2, t3}
    NameMax = 4
    MaxPatches = 1
    MaxPosted = 1
    Nobody = Nobody
    a1 = a1
    a2 = a2
    Askers = {a1, a2}
    MaxOpens = 3
    Days = 3
    Zones <- TheZones
    MaxDraftEdits = 2
    MaxSaves = 2
    l1 = l1
    l2 = l2
    LabelIds = {l1, l2}
    DomainOf <- TheDomains
    LabelNames = {"prod", "test"}
    MaxWrites = 1
    Hooks = {w1}
    Rules = {"at once", "late"}
    DEFAULT_DRAFT = "at once"
    MaxRuleSaves = 1
    OptionLists <- TheLists
    Letters = {"a", "b"}
    MaxTyped = 2
    Entries <- TheEntries
    Actions <- TheActions
    EndpointLists <- TheEndpoints
    HostLists <- TheHosts
    Texts = {"none", "w"}
    Rank <- TheRank
    LIMIT <- TheLimit
    Scopes = {"read"}
    KeyTerms = {"admin"}
    SEARCH_THRESHOLD = 1
    MaxKeys = 2
    MaxKeyCalls = 4
    Phrases = {"weak", "strong"}
    Strong = {"strong"}
    OldFiles <- TheFiles
    MaxDataCalls = 3
    Pages = {"services", "settings"}
    MaxChords = 4
    Languages = {"en", "fr", "de"}
    English = "en"
    MaxChoices = 3
SPECIFICATION PanelSpec
INVARIANTS TypeOK PagesCatchUp ScreensAreSound RowsAreReached
PROPERTIES StepsKeepTheirWord KeepsThePromise
CHECK_DEADLOCK FALSE
