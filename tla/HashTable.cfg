\* Cache calling discipline (ht_set only after ht_get missed).
\* Four keys against a five-slot table that takes four: refusals happen.
\* One value suffices, since this discipline never overwrites a key.
CONSTANTS
    Keys = {k1, k2, k3, k4}
    Vals = {v1}
    MaxSize = 3
    MaxLoad = 75
    CallerChecks = TRUE
    NoKey = NoKey
    NoVal = NoVal
    Hang = Hang
    Homes <- MCHomes
SPECIFICATION Spec
INVARIANTS
    TypeOK
    SizeCountsUsed
    ProbesTerminate
PROPERTIES
    ImplementsMap
