----------------------------- MODULE MCNamespace -----------------------------
(* The tree mke2fs and the test image give: / holds the directory a and    *)
(* the file f, a holds the file g.  Inode 15 is the free one               *)
(* ext2_inode_alloc hands out.                                             *)
EXTENDS Namespace

R(n, i) == [name |-> n, ino |-> i]

MCRec0 == (2 :> << R(".", 2), R("..", 2), R("a", 12), R("f", 13) >>)
       @@ (12 :> << R(".", 12), R("..", 2), R("g", 14) >>)

MCMode0 == (2 :> "dir") @@ (12 :> "dir") @@ (13 :> "file") @@ (14 :> "file")
        @@ (15 :> "free")

MCLinks0 == (2 :> 3) @@ (12 :> 2) @@ (13 :> 1) @@ (14 :> 1) @@ (15 :> 0)

A(s) == [abs |-> TRUE, seq |-> s]
L(s) == [abs |-> FALSE, seq |-> s]

\* /a, /f, /a/g, /a/h, /h and a, f, g, h
MCArgs == {A(<<"a">>), A(<<"f">>), A(<<"a", "g">>), A(<<"a", "h">>), A(<<"h">>),
           L(<<"a">>), L(<<"f">>), L(<<"g">>), L(<<"h">>)}
====
