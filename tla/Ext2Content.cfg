\* One task writes two blocks of the single-indirect tree and reads the
\* first back.
CONSTANTS
    Tasks = {t1}
    Direct = 1
    Ptrs = 2
    BlocksPg = 8
    TotBlocks = 8
    Reserved = {0, 1}
    Vals = {v1, v2}
    MaxIdx = 2
    MaxOps = 5
SPECIFICATION Spec
CHECK_DEADLOCK FALSE
INVARIANT ReadReturnsWritten
