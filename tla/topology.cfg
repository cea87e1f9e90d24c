SPECIFICATION FairSpec
CONSTANTS
    MaxServers = 2
    MaxFaults = 2
INVARIANTS ViewIsCurrent ForwardsDown
PROPERTIES StartupEnds Settles
CHECK_DEADLOCK FALSE
