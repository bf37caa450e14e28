SPECIFICATION MCInUseSpec
CONSTANTS
    N = 2
    NumUsers = 1
    Amounts = {1}
    Destinations = {0, 2}
    Caps = {1}
    Endowment = 0
    MaxTransfers = 2
    MaxRebalances = 0
    MaxBridges = 0
    MaxGovernance = 0
    MAX_RELAY_RETRIES = 2
    Slots = 1
    Finalizable = {}
    Batching = TRUE
    Faults = {"rpc", "restart"}
    MaxFaults = 1
CHECK_DEADLOCK FALSE
INVARIANTS
    HotPathTypeOK
    CompletedMeansReleased
    ReleasesAreRecorded
PROPERTIES
    WatchedTransactionsSettle
