SPECIFICATION Spec
CONSTANTS
    MaxServers = 3
    MaxFaults = 1
INVARIANT SyncedUnlessHead
CHECK_DEADLOCK FALSE
