\* Two tasks look up /a, /a/f, /a/x and /y on the tree / -> /a -> {/a/f,
\* /a/g} through an index of capacity 7 (ht_create(3, 50)) that refuses a
\* fifth path: a re-parse of /a evicts.  Seven addresses: every dir_set the
\* bound allows finds one.  The kernel stops at abort(), and a dir_lock that
\* sleeps never returns, hence no deadlock check.
CONSTANTS
    Tasks = {t1, t2}
    r = r  d = d  f = f  g = g  x = x  y = y
    Paths = {r, d, f, g, x, y}
    Root = r
    Parent <- MCParent
    Records <- MCRecords
    Targets = {d, f, x, y}
    Addrs = {a1, a2, a3, a4, a5, a6, a7}
    NULL = NULL
    NoTask = NoTask
    MaxSize = 3
    MaxLoad = 50
    MaxSets = 6
    NoKey = NoKey
    NoVal = NoVal
    Hang = Hang
    Homes <- MCHomes
SYMMETRY Symmetry
SPECIFICATION Spec
CHECK_DEADLOCK FALSE
INVARIANTS TypeOK IndexSound
