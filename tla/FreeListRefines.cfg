\* The pointer-level free list with an arena of three buffers, two of them
\* cacheable at once.
CONSTANTS
    Bufs = {b1, b2, b3}
    NULL = NULL
    MaxCached = 2
    MaxRef = 2
SPECIFICATION Spec
CHECK_DEADLOCK FALSE
PROPERTIES ImplementsLru
