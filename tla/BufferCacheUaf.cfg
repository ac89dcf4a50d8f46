\* bio_release unlocks the buffer (bio.c:161) after dropping the cache mutex:
\* a miss of another task may evict and free it in between.
\* Same bounds as BufferCache.cfg.
CONSTANTS
    Tasks = {t1, t2}
    Blocks = {k1, k2, k3}
    Bufs = {x1, x2, x3}
    NULL = NULL
    MaxSize = 1
    MaxLoad = 50
    NoKey = NoKey
    NoVal = NoVal
    Hang = Hang
    MaxIo = 2
    Homes <- MCHomes
SYMMETRY Symmetry
SPECIFICATION Spec
CHECK_DEADLOCK FALSE
INVARIANTS NoUseAfterFree
