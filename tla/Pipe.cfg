\* The stdout pipe: PIPE_TYPE_BUF_CHAR, read by stdout_handler, written by
\* two tasks; a buffer of two bytes (PIPE_SIZE and pipe->size scaled down
\* alike), up to five bytes written, one of the two bytes '\0'.
CONSTANTS
    w1 = w1  w2 = w2  h = h  a = a  z = z
    Writers = {w1, w2}
    Readers = {h}
    Type = "bufchar"
    HandlerLoop = TRUE
    Cap = 2
    PipeSz = 2
    Vals = {a, z}
    Nul = z
    MaxLen = 2
    MaxBytes = 5
SYMMETRY Symmetry
SPECIFICATION Spec
CHECK_DEADLOCK FALSE
INVARIANTS TypeOK FifoDelivery
