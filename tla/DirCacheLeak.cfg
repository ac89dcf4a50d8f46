\* The pass configuration, checking that every inode reference dir_set
\* takes belongs to a dentry.  The kernel stops at abort().
CONSTANTS
    Tasks = {t1, t2}
    r = r  d = d  f = f  g = g  x = x  y = y
    Paths = {r, d, f, g, x, y}
    Root = r
    Parent <- MCParent
    Records <- MCRecords
    Targets = {d, f, x, y}
    Addrs = {a1, a2, a3, a4, a5, a6, a7}
    NULL = NULL
    NoTask = NoTask
    MaxSize = 3
    MaxLoad = 50
    MaxSets = 6
    NoKey = NoKey
    NoVal = NoVal
    Hang = Hang
    Homes <- MCHomes
SYMMETRY Symmetry
SPECIFICATION Spec
CHECK_DEADLOCK FALSE
INVARIANT InodeRefPerDentry
