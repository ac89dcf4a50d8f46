\* One task writes, reads and truncates a file through the single- and
\* double-indirect trees, up to the second entry of the double-indirect
\* root, until the group runs out of blocks.  The kernel stops at abort(),
\* hence no deadlock check.
CONSTANTS
    Tasks = {t1}
    Direct = 1
    Ptrs = 2
    BlocksPg = 11
    TotBlocks = 11
    Reserved = {0}
    Vals = {v1, v2}
    MaxIdx = 6
    MaxOps = 9
SYMMETRY Symmetry
SPECIFICATION Spec
CHECK_DEADLOCK FALSE
INVARIANTS TypeOK NoBlockShared
