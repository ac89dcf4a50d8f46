\* Two tasks reading three blocks through a cache whose index holds two
\* buffers (ht_create(1, 50): capacity 3), so misses evict.  The kernel
\* stops at abort(), hence no deadlock check.
CONSTANTS
    Tasks = {t1, t2}
    Blocks = {k1, k2, k3}
    Bufs = {x1, x2, x3}
    NULL = NULL
    MaxSize = 1
    MaxLoad = 50
    NoKey = NoKey
    NoVal = NoVal
    Hang = Hang
    MaxIo = 2
    Homes <- MCHomes
SYMMETRY Symmetry
SPECIFICATION Spec
CHECK_DEADLOCK FALSE
INVARIANTS TypeOK IndexConsistent RefCountExact
