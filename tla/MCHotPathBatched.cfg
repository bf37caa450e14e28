SPECIFICATION MCInUseSpec
CONSTANTS
    N = 2
    NumUsers = 1
    Amounts = {1}
    Destinations = {2}
    Caps = {1}
    Endowment = 0
    MaxTransfers = 2
    MaxRebalances = 0
    MaxBridges = 0
    MaxGovernance = 0
    MAX_RELAY_RETRIES = 2
    Slots = 1
    Finalizable = {}
    Batching = TRUE
    Faults = {}
    MaxFaults = 0
CHECK_DEADLOCK FALSE
PROPERTIES
    WatchedTransfersSettle
