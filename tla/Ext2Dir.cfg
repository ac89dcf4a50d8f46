\* ext2_link and ext2_unlink on the root directory and on a new one: up to
\* five links, with name lengths that fill a block in four links (1 + 212
\* + 252 + 255 ...), against the tiling of blocks by record lengths.
CONSTANTS
    B = 1024
    Lens = {1, 212, 252, 255}
    MaxLinks = 5
    Dirs <- MCDirs
SPECIFICATION Spec
\* A directory call that hangs, or reads through NULL, ends the behaviour.
CHECK_DEADLOCK FALSE
INVARIANT Tiled
