SPECIFICATION Spec
CONSTANTS
    MaxServers = 3
    MaxFaults = 0
INVARIANT ViewIsCurrentAlways
CHECK_DEADLOCK FALSE
