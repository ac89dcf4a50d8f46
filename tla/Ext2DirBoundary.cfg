\* Not a run: a link whose name ends the block exactly leaves the size off
\* a block boundary, and the next link writes over other records.
CONSTANTS
    B = 1024
    Lens = {1, 4, 212, 255}
    MaxLinks = 7
    Dirs <- MCDirs
SPECIFICATION Spec
\* A directory call that hangs, or reads through NULL, ends the behaviour.
CHECK_DEADLOCK FALSE
INVARIANT Disjoint
