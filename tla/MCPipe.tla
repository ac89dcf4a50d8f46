-------------------------------- MODULE MCPipe -------------------------------
(***************************************************************************)
(* Pipe for TLC: bytes are model values, one of them '\0'.                 *)
(***************************************************************************)
EXTENDS Pipe, TLC

Symmetry == Permutations(Writers) \cup Permutations(Readers)
=============================================================================
