CONSTANTS
    None = None
    Services = {x1}
    Hooks = {w1}
    Slots = {q1}
    Rules <- OneOfEach
    Policies <- Mixed
    Backoff <- TwoTiers
    MaxAge = 1
    Flips = 2
    Edits = 1
    Crashes = 1
    Checks = 0
    Locks = 0
SPECIFICATION FairSpec
PROPERTIES
    EveryDeliverySettles
    OutageIsAnnounced
