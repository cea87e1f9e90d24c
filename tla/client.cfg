\* A client, a server that is in the chain and one that joins, one fault.
SPECIFICATION FairSpec
CONSTANTS
    Server = {1, 2}
    Started = {1}
    MaxFaults = 1
INVARIANTS
    TypeOK
    NothingLost
    FollowsChain
PROPERTIES
    QuitEnds
    CommandsReturn
\* The client ends, or waits for ever.
CHECK_DEADLOCK FALSE
