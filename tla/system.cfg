\* Two servers that serve, one that joins, two writes, one fault.
SPECIFICATION FairSpec
CONSTANTS
    MaxServers = 3
    Serving = 2
    MaxWrites = 2
    MaxFaults = 1
INVARIANTS
    TypeOK
    SuccessorsBehind
    OkMeansReached
PROPERTIES
    WritesEnd
\* Once the writes are over and the chain is settled nothing is left to do.
CHECK_DEADLOCK FALSE
