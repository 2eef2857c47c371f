SPECIFICATION Spec
CONSTANTS
    DB <- OneDatabase
    Write = {w1, w2}
    Garbage = Garbage
    Modes <- OneMode
    BufferLimit = 2
    ChunkRecords = 2
    MaxRecords = 4
SYMMETRY SymmetricWrites
INVARIANTS AtMostOneSecond
