SPECIFICATION Spec
CONSTANTS
    k1 = k1
    k2 = k2
    Key <- TwoKeys
    DB <- TwoDatabases
    Client = {c1}
    Nobody = Nobody
    Absent = Absent
    Requests <- EveryRequest
    DefaultDB = 0
    MaxMemory = 1
    Policy = "volatile"
    Samples = 1
    MaxTime = 1
    MaxQueue = 1
    MaxVersion = 2
INVARIANTS ContentsIgnoreExpired
PROPERTIES MemoryBounded CommitUnmodified VersionsAdvance
