\* Namespace.cfg with LinksMatchNames: link "f" as "" from /, then unlink
\* "/f", which swallows the new record; after chdir("/a"), unlink("/f")
\* lowers the link count of a file / still names.  CHECK_DEADLOCK FALSE as
\* in Namespace.cfg.
CONSTANTS
    RootIno = 2
    NewIno = 15
    Rec0 <- MCRec0
    Mode0 <- MCMode0
    Links0 <- MCLinks0
    Args <- MCArgs
    MaxCalls = 3
SPECIFICATION Spec
CHECK_DEADLOCK FALSE
INVARIANT LinksMatchNames
