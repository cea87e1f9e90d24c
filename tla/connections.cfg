\* The connections of a server: two peers, one place, one failure.
SPECIFICATION FairSpec
CONSTANTS
    Conn = {c1, c2}
    MAX_CLIENTS = 1
    MaxFaults = 1
    NoConn = NoConn
INVARIANTS
    TypeOK
    CounterIsRight
    LimitKept
    OneMoreRequest
    DroppedForAReason
PROPERTIES
    SlotsComeBack
    Answered
    StopEnds
\* The process ends.
CHECK_DEADLOCK FALSE
