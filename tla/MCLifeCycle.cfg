SPECIFICATION Spec
CONSTANTS
    a = a
    b = b
    f = f
    g = g
    x = x
    y = y
    Key <- TwoKeys
    Field <- TwoFields
    Content <- TwoContents
    Given <- OneValue
    Dumps <- TwoRecords
    NoContent = NoContent
    Nowhere = Nowhere
    Absent = Absent
    Hole = Hole
    Never = Never
    BatchSize = 1
    MaxSlots = 3
    MaxTime = 2
    MaxItems = 3
    TTL <- TimesToLive
    Budgets <- FewSteps
CHECK_DEADLOCK FALSE
INVARIANTS TypeOK TTLsAreRegistered DumpIsWhole  MemoryOnDisk
PROPERTIES PurgeOnlyExpired EventuallyPurged
