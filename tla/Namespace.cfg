\* The directory calls of the user task on / -> {a -> {g}, f}: three calls
\* of link, unlink, chdir, mkdir and readdir over nine paths, absolute and
\* relative.  A call that aborts, hangs or reads through NULL stops the
\* model, hence no deadlock check.
CONSTANTS
    RootIno = 2
    NewIno = 15
    Rec0 <- MCRec0
    Mode0 <- MCMode0
    Links0 <- MCLinks0
    Args <- MCArgs
    MaxCalls = 3
SPECIFICATION Spec
CHECK_DEADLOCK FALSE
INVARIANT FreedNotListed
