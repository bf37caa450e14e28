SPECIFICATION WatcherSpec
CONSTANTS
    N = 2
    Sources = {1}
    Contents = {1, 2}
    Locked = {1}
    MAX_PAUSE_RETRIES = 1
    MaxInitiated = 1
    MaxReleases = 2
    MaxUnpauses = 1
    WatcherSlots = 1
    WatcherFaults = {"rpc", "db", "restart"}
    MaxWatcherFaults = 1
CHECK_DEADLOCK FALSE
INVARIANTS
    WatcherTypeOK
    VerdictsAreGenuine
