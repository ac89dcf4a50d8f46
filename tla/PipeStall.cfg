\* The stdout pipe: PIPE_TYPE_BUF_CHAR, read by stdout_handler, written by
\* one task; a buffer of two bytes, up to four bytes written.
CONSTANTS
    w1 = w1  w2 = w2  h = h  a = a  z = z
    Writers = {w1}
    Readers = {h}
    Type = "bufchar"
    HandlerLoop = TRUE
    Cap = 2
    PipeSz = 2
    Vals = {a, z}
    Nul = z
    MaxLen = 2
    MaxBytes = 4
SPECIFICATION Spec
CHECK_DEADLOCK FALSE
INVARIANT WriterHasDrainer
