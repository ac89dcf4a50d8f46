\* Two tasks: one writes a block while the other truncates the file with
\* file_open(O_TRUNC) and writes past the first direct block.
CONSTANTS
    Tasks = {t1, t2}
    Direct = 1
    Ptrs = 2
    BlocksPg = 8
    TotBlocks = 8
    Reserved = {0, 1}
    Vals = {v1, v2}
    MaxIdx = 2
    MaxOps = 5
SYMMETRY Symmetry
SPECIFICATION Spec
CHECK_DEADLOCK FALSE
INVARIANT NoBlockShared
