SPECIFICATION Spec
CONSTANTS
    k1 = k1
    k2 = k2
    Key <- TwoKeys
    DB <- OneDatabase
    Client = {c1, c2}
    Nobody = Nobody
    Absent = Absent
    Requests <- LockingRequests
    DefaultDB = 0
    MaxMemory = 0
    Policy = "noeviction"
    Samples = 1
    MaxTime = 1
    MaxQueue = 2
    MaxVersion = 2
SYMMETRY SymmetricClients
INVARIANTS TypeOK WatchSound
PROPERTIES CommitUnmodified OptimisticLockingImplemented
