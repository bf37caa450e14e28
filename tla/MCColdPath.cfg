SPECIFICATION MCSpec
CONSTANTS
    N = 3
    NumUsers = 1
    Amounts = {2}
    Destinations = {}
    Caps = {0, 1}
    Endowment = 0
    MaxTransfers = 1
    MaxRebalances = 2
    MaxBridges = 0
    MaxGovernance = 1
    COLD_PATH_MIN_BPS = 8000
    COLD_PATH_TARGET_BPS = 0
    COLD_PATH_MAX_WEI = 2
    MAX_RETRIES = 2
    Activations = {{1, 2, 3}}
    Decommissionable = {3}
    MaxOps = 4
    PlanDepth = 5
    Disturbances = {"rpc", "timeout", "restart", "db", "cap", "route"}
    MaxDisturbances = 1
    Depths = {0, 2, 4}
    Liquidity = 4
CHECK_DEADLOCK FALSE
INVARIANTS
    ColdPathTypeOK
    PlansAreExact
    SubmittedMeansBurned
    BurnsAreAccountedFor
    OneOpInFlight
PROPERTY
    DeficitsAreServed
