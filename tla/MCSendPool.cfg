SPECIFICATION Spec
CONSTANTS
    Threads = {t1, t2}
    N = 5
    ChunkSize = 2
    Width = 7
    Sizes = {1, 2, 5}
    None = None
    RefBound = 2
INVARIANTS FirstFit IndInv
PROPERTIES ImplementsBlocks
CHECK_DEADLOCK FALSE
