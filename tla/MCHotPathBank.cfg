SPECIFICATION MCSpec
CONSTANTS
    N = 2
    NumUsers = 1
    Amounts = {1}
    Destinations = {0, 2, 4}
    Caps = {1}
    Endowment = 1
    MaxTransfers = 1
    MaxRebalances = 0
    MaxBridges = 0
    MaxGovernance = 0
    MAX_RELAY_RETRIES = 2
    Slots = 2
    Finalizable = {2}
    Batching = FALSE
    Faults = {"rpc", "db", "restart"}
    MaxFaults = 2
CHECK_DEADLOCK FALSE
INVARIANTS
    CompletedMeansReleased
PROPERTIES
    ImplementsBank
