SPECIFICATION MCSpec
CONSTANTS
    N = 2
    NumUsers = 1
    Amounts = {1, 2}
    Destinations = {}
    Caps = {9}
    Endowment = 0
    MaxTransfers = 0
    MaxRebalances = 0
    MaxBridges = 3
    MaxGovernance = 0
    RESERVE_PATH_MIN_BPS = 8000
    RESERVE_PATH_MAX_WEI = 1
    MAX_RETRIES = 2
    Decommissionable = {2}
    MaxOps = 2
    Disturbances = {"rpc", "timeout", "restart", "db", "user", "route"}
    MaxDisturbances = 1
    Depths = {0, 2}
    Liquidity = 2
CHECK_DEADLOCK FALSE
INVARIANTS
    ReservePathTypeOK
    SuccessMeansCredited
    BurnsMatchRows
PROPERTIES
    OnlyRelayerReopens
    RowsSettle
    BurnsArrive
