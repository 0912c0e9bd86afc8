CONSTANTS
    None = None
    Names = {n1}
    Importable = {n1}
    MaxProviders = 1
    MaxCalls = 1
    MaxScans = 2
    MaxUpsets = 1
SPECIFICATION Spec
INVARIANTS TypeOK ScreenIsTrue
PROPERTIES SetupIsKept GateSettles
CHECK_DEADLOCK FALSE
