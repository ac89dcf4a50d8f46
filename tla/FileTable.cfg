\* The shell's open-file table: pipes made and their ends closed, against
\* the write end of a pipe being marked closed once nothing holds it.
CONSTANTS
    NFd = 4
    MaxFiles = 8
    MaxPipes = 3
    PathKind <- MCPathKind
    Flags <- MCFlags
    Null = Null  Wild = Wild  Cwd = Cwd
SPECIFICATION Spec
\* A call that crashes or hangs the kernel ends the behaviour.
CHECK_DEADLOCK FALSE
INVARIANT ClosedEndSignalled
