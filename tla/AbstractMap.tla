---------------------------- MODULE AbstractMap ----------------------------
(***************************************************************************)
(* What a hash index promises its callers (spec sections 4.1 and 8): a     *)
(* finite map from keys to values.  A put is seen by every later get until *)
(* the key is overwritten or removed; a removed key is absent; a refused   *)
(* put (table at its load limit) changes nothing.  "call" names the        *)
(* operation the caller just made, so each step is tied to its request.   *)
(***************************************************************************)
EXTENDS Integers

CONSTANTS Keys, Vals, NoVal

VARIABLES map, call

Init ==
    /\ map = [k \in Keys |-> NoVal]
    /\ call = [op |-> "none"]

Put(k, v) ==
    /\ call' = [op |-> "set", key |-> k, val |-> v, ret |-> 0]
    /\ map' = [map EXCEPT ![k] = v]

Refuse(k, v) ==
    /\ call' = [op |-> "set", key |-> k, val |-> v, ret |-> -1]
    /\ UNCHANGED map

Delete(k) ==
    /\ call'.op = "remove" /\ call'.key = k
    /\ map' = [map EXCEPT ![k] = NoVal]

Next ==
    \E k \in Keys :
        \/ Delete(k)
        \/ \E v \in Vals : Put(k, v) \/ Refuse(k, v)

Spec == Init /\ [][Next]_<<map, call>>
=============================================================================
