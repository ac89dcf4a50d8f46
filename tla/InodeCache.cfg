\* Two tasks on three inode numbers, two of them in use at mount, through
\* a cache whose index holds two inodes (ht_create(1, 50): capacity 3), so
\* misses evict.  The kernel stops at abort() and dir_create's second
\* inode_lock never returns, hence no deadlock check.
CONSTANTS
    Tasks = {t1, t2}
    Inos = {n1, n2, n3}
    Addrs = {a1, a2, a3}
    NULL = NULL
    MaxSize = 1
    MaxLoad = 50
    InitUsed = {n1, n2}
    MaxLinks = 2
    NoKey = NoKey
    NoVal = NoVal
    Hang = Hang
    Homes <- MCHomes
    InoOrder <- MCInoOrder
SYMMETRY Symmetry
SPECIFICATION Spec
CHECK_DEADLOCK FALSE
INVARIANTS TypeOK RefCountExact InodeMutualExclusion LinksWrittenThrough
