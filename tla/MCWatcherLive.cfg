SPECIFICATION FairWatcherSpec
CONSTANTS
    N = 2
    Sources = {1}
    Contents = {1, 2}
    Locked = {1}
    MAX_PAUSE_RETRIES = 2
    MaxInitiated = 1
    MaxReleases = 2
    MaxUnpauses = 0
    WatcherSlots = 1
    WatcherFaults = {}
    MaxWatcherFaults = 0
CHECK_DEADLOCK FALSE
PROPERTIES
    AnomaliesAreAlerted
