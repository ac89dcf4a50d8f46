\* The pipe of syscall_pipe and of stdin, unbuffered, read by tasks calling
\* pipe_read: two writers, two readers, a buffer of two bytes (PIPE_SIZE
\* and pipe->size scaled down alike), up to five bytes written.
CONSTANTS
    w1 = w1  w2 = w2  r1 = r1  r2 = r2  a = a  z = z
    Writers = {w1, w2}
    Readers = {r1, r2}
    Type = "unbuf"
    HandlerLoop = FALSE
    Cap = 2
    PipeSz = 2
    Vals = {a, z}
    Nul = z
    MaxLen = 2
    MaxBytes = 5
SYMMETRY Symmetry
SPECIFICATION Spec
CHECK_DEADLOCK FALSE
INVARIANTS TypeOK FifoDelivery ReaderWaitsOnEmpty WriterHasDrainer
