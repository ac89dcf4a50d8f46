----------------------------- MODULE MCDirCache ------------------------------
(***************************************************************************)
(* DirCache instantiated for TLC on the tree  / -> /a -> {/a/f, /a/g} :    *)
(* the root directory holds a directory, which holds two files.  /y and    *)
(* /a/x name no record: looking up /a/f or /a/x parses /a, looking up /y   *)
(* finds no component to parse.  Two hash assignments: every path at its   *)
(* own slot (/a/g before /a/f, so that removing /a/f empties its slot),    *)
(* and every path at slot 0.  Tasks and dentry addresses are               *)
(* interchangeable.                                                        *)
(***************************************************************************)
EXTENDS DirCache, TLC

CONSTANTS r, d, f, g, x, y

MCParent == [p \in {d, f, g, x, y} |-> IF p \in {d, y} THEN r ELSE d]

MCRecords == [p \in {r, d, f, g, x, y} |-> CASE p = r -> <<d>>
                                       [] p = d -> <<f, g>>
                                       [] OTHER -> <<>>]

MCHomes ==
    { [p \in Paths |-> CASE p = r -> 0 [] p = d -> 1 [] p = f -> 3
                          [] p = g -> 2 [] p = x -> 4 [] OTHER -> 5],
      [p \in Paths |-> 0] }

Symmetry == Permutations(Tasks) \cup Permutations(Addrs)
=============================================================================
