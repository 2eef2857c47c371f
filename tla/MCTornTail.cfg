SPECIFICATION Spec
CONSTANTS
    DB <- OneDatabase
    Write = {w1, w2}
    Garbage = Garbage
    Modes <- AllModes
    BufferLimit = 2
    ChunkRecords = 2
    MaxRecords = 4
SYMMETRY SymmetricWrites
PROPERTIES IntactRecovered
