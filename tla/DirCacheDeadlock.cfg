\* dir_lock against dir_unlock: one task locks /a after a hit while another
\* parses /a for /a/f.  Every task is scheduled fairly (FairSpec).  No
\* symmetry: it is unsound for liveness.
CONSTANTS
    Tasks = {t1, t2}
    r = r  d = d  f = f  g = g  x = x  y = y
    Paths = {r, d, f, g, x, y}
    Root = r
    Parent <- MCParent
    Records <- MCRecords
    Targets = {d, f}
    Addrs = {a1, a2, a3, a4, a5}
    NULL = NULL
    NoTask = NoTask
    MaxSize = 3
    MaxLoad = 50
    MaxSets = 4
    NoKey = NoKey
    NoVal = NoVal
    Hang = Hang
    Homes <- MCHomes
SPECIFICATION FairSpec
CHECK_DEADLOCK FALSE
PROPERTY DirLockReturns
