SPECIFICATION MCSpec
CONSTANTS
    N = 3
    NumUsers = 2
    Amounts = {1}
    Destinations = {}
    Caps = {9}
    Endowment = 0
    MaxTransfers = 0
    MaxRebalances = 9
    MaxBridges = 9
    MaxGovernance = 0
    Requests <- MCRequests
    Registered = {1, 2}
    Finalizable = {1}
    Disturbances = {}
    MaxDisturbances = 0
    Pools = {0, 1, 3}
    MaxBalance = 2
CHECK_DEADLOCK FALSE
INVARIANT
    CompleteMeansDrained
