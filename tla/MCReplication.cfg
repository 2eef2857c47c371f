SPECIFICATION FairSpec
CONSTANTS
    k1 = k1
    k2 = k2
    Key <- TwoKeys
    String = {"small", "big"}
    BigString = {"big"}
    Requests <- EveryWrite
    Absent = Absent
    Unwritten = Unwritten
    Byte <- AnyByte
    Size = 3
    MaxOffset = 3
    MaxFailures = 2
    MaxPings = 1
INVARIANTS TypeOK BacklogHoldsStream FullSyncComplete NothingTwice
PROPERTIES CatchesUp
CHECK_DEADLOCK FALSE
