SPECIFICATION MCSpec
CONSTANTS
    N = 2
    p1 = p1
    Passkeys = {p1, p2}
    Events <- MCEvents
    Usernames <- MCUsernames
    Targets = {2}
    MAX_BLOCK_RANGE = 1
    MaxRequests = 3
    Disturbances = {"rpc", "lag", "db", "unreachable", "restart", "crash"}
    MaxDisturbances = 1
CHECK_DEADLOCK FALSE
INVARIANTS
    AccountsTypeOK
    AccountsAreReachable
    IndexIsFaithful
PROPERTIES
    HomeChangesAreExplained
    FirstDepositSetsHome
