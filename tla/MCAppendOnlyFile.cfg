SPECIFICATION Spec
CONSTANTS
    DB <- TwoDatabases
    Write = {w1, w2}
    Garbage = Garbage
    Modes <- AllModes
    BufferLimit = 2
    ChunkRecords = 2
    MaxRecords = 5
SYMMETRY SymmetricWrites
INVARIANTS LogMatchesMemory
PROPERTIES RecoversPrefix NothingAnsweredLost
