----------------------------- MODULE HashTable -----------------------------
(***************************************************************************)
(* One hash_table_t (src/src/utils/hashtable.c) driven by an arbitrary     *)
(* sequence of ht_set and ht_remove calls.  The hash of each key is fixed  *)
(* but unknown, so Init ranges over every assignment of keys to home       *)
(* slots, which covers every collision and wrap-around pattern.            *)
(*                                                                         *)
(* CallerChecks selects the calling discipline: TRUE is the block and      *)
(* inode caches, which call ht_set only after ht_get missed (bio.c:104,    *)
(* inode.c:101); FALSE is any caller, such as dir_set (dir.c:350), which   *)
(* inserts the path of every record each time ext2_parse_dir re-reads a    *)
(* directory, whether or not the path is already indexed.                  *)
(***************************************************************************)
EXTENDS Integers, FiniteSets

CONSTANTS
    Keys, Vals,        \* keys and values used by the callers
    MaxSize, MaxLoad,  \* the arguments of ht_create
    CallerChecks,      \* ht_set only on keys that ht_get does not find
    Homes,             \* the hash assignments (key -> home slot) explored
    NoKey, NoVal, Hang

ASSUME MaxLoad \in 1..100 /\ MaxSize \in Nat \ {0}
ASSUME CallerChecks \in BOOLEAN

INSTANCE HashIndex

VARIABLES
    table,  \* the hash_table_t
    home,   \* ht_key(key) % capacity for every key
    call    \* the last call made and what it returned: 0, -1, or Hang

vars == <<table, home, call>>

Cap == HtCreate(MaxSize, MaxLoad).capacity
Slots == 0..Cap-1

Init ==
    /\ table = HtCreate(MaxSize, MaxLoad)
    /\ home \in Homes
    /\ call = [op |-> "none"]

\* ht_set(table, k, v).
Set(k, v) ==
    /\ CallerChecks => HtGet(table, home[k], k) = NoVal
    /\ IF HtSetRefused(table)
         THEN /\ call' = [op |-> "set", key |-> k, val |-> v, ret |-> -1]
              /\ UNCHANGED table
         ELSE /\ table' = HtSet(table, home[k], k, v)
              /\ call' = [op |-> "set", key |-> k, val |-> v, ret |-> 0]
    /\ UNCHANGED home

\* ht_remove(table, k): 0 when found, -1 after printing "removing invalid
\* key" when the probe meets HT_EMPTY first, no return at all when it
\* never meets HT_EMPTY.
Remove(k) ==
    /\ IF HtRemoveFinds(table, home[k], k)
         THEN /\ table' = HtRemove(table, home[k], k)
              /\ call' = [op |-> "remove", key |-> k, ret |-> 0]
         ELSE /\ call' = [op |-> "remove", key |-> k,
                           ret |-> IF FirstStop(table, home[k], ChainEnd(table, k)) = -1
                                     THEN Hang ELSE -1]
              /\ UNCHANGED table
    /\ UNCHANGED home

Next ==
    /\ call.op # "none" => call.ret # Hang
    /\ \E k \in Keys : Remove(k) \/ \E v \in Vals : Set(k, v)

Spec == Init /\ [][Next]_vars

-----------------------------------------------------------------------------
Entry == [st : {HT_EMPTY, HT_VALID, HT_TOMBSTONE},
          key : Keys \cup {NoKey}, val : Vals \cup {NoVal}]

TypeOK ==
    /\ table.slot \in [Slots -> Entry]
    /\ table.size \in 0..Cap
    /\ home \in Homes
    /\ call \in {[op |-> "none"]}
                \cup [op : {"set"}, key : Keys, val : Vals, ret : {0, -1}]
                \cup [op : {"remove"}, key : Keys, ret : {0, -1, Hang}]

\* size, which the load check of ht_set reads, counts exactly the slots that
\* are not HT_EMPTY: it goes up only when ht_set claims an HT_EMPTY slot
\* and down only when ht_remove turns a slot HT_EMPTY, so tombstones stay
\* counted.  A wrong count either refuses writes too early or lets the
\* table fill.
SizeCountsUsed == table.size = Cardinality(UsedSlots(table))

\* Every probe loop of ht_get, ht_set and ht_remove ends: some slot is
\* always HT_EMPTY, because the load check of ht_set keeps the used slots
\* below the capacity.  Without it ht_get of an absent key spins forever.
ProbesTerminate == \E i \in Slots : table.slot[i].st = HT_EMPTY

\* The table implements a map: under the refinement mapping "the value
\* ht_get returns for each key", every ht_set of k to v makes get(k) = v or
\* is refused and changes nothing, and every ht_remove of k makes get(k)
\* absent, whatever the tombstones along the probe chain (spec section 8: get after set returns the
\* value until a remove, and get after remove is absent, tombstones or not).
Lookup == [k \in Keys |-> HtGet(table, home[k], k)]

AM == INSTANCE AbstractMap WITH map <- Lookup, call <- call

ImplementsMap == AM!Spec
=============================================================================
