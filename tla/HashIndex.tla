----------------------------- MODULE HashIndex -----------------------------
(***************************************************************************)
(* The open-addressing hash table of src/src/utils/hashtable.c, as pure    *)
(* operators over a value that mirrors hash_table_t:                       *)
(*                                                                         *)
(*   [slot |-> [0..capacity-1 -> Entry], size, capacity, maxLoad]          *)
(*                                                                         *)
(* The 64-bit FNV hash of a key is abstracted to the slot it selects,      *)
(* "home" = ht_key(key) % capacity, which every operator takes as an       *)
(* argument; the caller owns the choice of hash.  Keys are compared by     *)
(* value (key64) or by string content (strcmp for HT_PTRKEY), which a      *)
(* model value's equality stands for.  Tables that grow (HT_RESIZE) are    *)
(* used only for a directory's child index and are not modelled here.      *)
(***************************************************************************)
EXTENDS Integers

CONSTANTS
    NoKey,   \* the cleared key written by ht_assign(.., (hash_key_t){0})
    NoVal,   \* the NULL that ht_get returns on a miss
    Hang     \* the result of a probe loop that never meets an HT_EMPTY slot

HT_EMPTY     == "EMPTY"
HT_VALID     == "VALID"
HT_TOMBSTONE == "TOMBSTONE"

EmptyEntry == [st |-> HT_EMPTY, key |-> NoKey, val |-> NoVal]

\* prime_numbers[] of hashtable.c.
Primes == << 2, 3, 5, 7, 11, 13, 17, 19, 23, 29, 31, 37, 41, 43,
             47, 53, 59, 61, 67, 71, 73, 79, 83, 89, 97, 101, 103,
             107, 109, 113, 127, 131, 137, 139, 149, 151, 157, 163,
             167, 173, 179, 181, 191, 193, 197, 199, 211, 223, 227,
             229, 233, 239, 241, 251, 257, 263, 269, 271, 277, 281,
             283, 293, 307, 311 >>

\* ht_find_prime: the first listed prime strictly greater than n (the code
\* aborts when there is none; callers of the model only pass small n).
FindPrime(n) ==
    LET above == {i \in DOMAIN Primes : n < Primes[i]}
    IN  Primes[CHOOSE i \in above : \A j \in above : i =< j]

\* ht_create: capacity is the prime above max_size * 100 / max_load (integer
\* division), every entry HT_EMPTY, size 0.
HtCreate(maxSize, maxLoad) ==
    LET cap == FindPrime((maxSize * 100) \div maxLoad)
    IN  [slot     |-> [i \in 0..cap-1 |-> EmptyEntry],
         size     |-> 0,
         capacity |-> cap,
         maxLoad  |-> maxLoad]

\* The slot visited after d steps of linear probing from home.
Probe(t, home, d) == (home + d) % t.capacity

\* The number of probe steps from home after which a loop that stops at the
\* slots Stop leaves, or -1 when it visits every slot without stopping (the
\* C loops then spin forever).
FirstStop(t, home, Stop) ==
    LET D == {d \in 0..t.capacity-1 : Probe(t, home, d) \in Stop}
    IN  IF D = {} THEN -1 ELSE CHOOSE d \in D : \A e \in D : d =< e

\* Exit test shared by ht_get and ht_remove: an HT_EMPTY slot ends the
\* chain, an HT_VALID slot holding key k is the match; tombstones are passed.
EndOrMatch(k, e) == e.st = HT_EMPTY \/ (e.st = HT_VALID /\ e.key = k)

\* The slots at which ht_get and ht_remove stop looking for k.
ChainEnd(t, k) == {i \in DOMAIN t.slot : EndOrMatch(k, t.slot[i])}

\* The slots at which ht_set stops: any slot not HT_VALID, or k's own.
SetStop(t, k) ==
    {i \in DOMAIN t.slot : t.slot[i].st # HT_VALID \/ t.slot[i].key = k}

\* ht_get.
HtGet(t, home, k) ==
    LET d == FirstStop(t, home, ChainEnd(t, k))
    IN  CASE d = -1                                   -> Hang
          [] t.slot[Probe(t, home, d)].st = HT_EMPTY -> NoVal
          [] OTHER                                    -> t.slot[Probe(t, home, d)].val

\* The load check at the top of ht_set: a table without HT_RESIZE refuses
\* the write (returns -1) when size * 100 > capacity * max_load.
HtSetRefused(t) == t.size * 100 > t.capacity * t.maxLoad

\* Mutant: ht_set counts every claimed slot in size, tombstones included.
HtSetCountAll(t, home, k, v) ==
    LET i == Probe(t, home, FirstStop(t, home, SetStop(t, k)))
    IN  [t EXCEPT !.slot[i] = [st |-> HT_VALID, key |-> k, val |-> v],
                  !.size    = IF t.slot[i].st = HT_VALID THEN @ ELSE @ + 1]

\* The body of ht_set once the load check passed: probe over HT_VALID slots
\* of other keys; overwrite a match, otherwise claim the first HT_EMPTY or
\* HT_TOMBSTONE slot, counting it in size only if it was HT_EMPTY.
HtSet(t, home, k, v) ==
    LET i == Probe(t, home, FirstStop(t, home, SetStop(t, k)))
    IN  [t EXCEPT !.slot[i] = [st |-> HT_VALID, key |-> k, val |-> v],
                  !.size    = IF t.slot[i].st = HT_EMPTY THEN @ + 1 ELSE @]

\* ht_remove finds key k (returns 0) ...
HtRemoveFinds(t, home, k) ==
    LET d == FirstStop(t, home, ChainEnd(t, k))
    IN  d # -1 /\ t.slot[Probe(t, home, d)].st = HT_VALID

\* Mutant: the two branches of ht_remove swapped.
HtRemoveSwapped(t, home, k) ==
    LET i    == Probe(t, home, FirstStop(t, home, ChainEnd(t, k)))
        last == t.slot[(i + 1) % t.capacity].st = HT_EMPTY
    IN  [t EXCEPT !.slot[i] = [st  |-> IF last THEN HT_TOMBSTONE ELSE HT_EMPTY,
                               key |-> NoKey,
                               val |-> @.val],
                  !.size    = IF last THEN @ - 1 ELSE @]

\* Mutant: ht_remove empties the slot without leaving a tombstone.
HtRemoveNoTombstone(t, home, k) ==
    LET i == Probe(t, home, FirstStop(t, home, ChainEnd(t, k)))
    IN  [t EXCEPT !.slot[i] = [st |-> HT_EMPTY, key |-> NoKey, val |-> @.val],
                  !.size    = @ - 1]

\* Mutant: ht_remove decrements size whether or not the slot is emptied.
HtRemoveAlwaysShrinks(t, home, k) ==
    LET i    == Probe(t, home, FirstStop(t, home, ChainEnd(t, k)))
        last == t.slot[(i + 1) % t.capacity].st = HT_EMPTY
    IN  [t EXCEPT !.slot[i] = [st  |-> IF last THEN HT_EMPTY ELSE HT_TOMBSTONE,
                               key |-> NoKey,
                               val |-> @.val],
                  !.size    = @ - 1]

\* ... and then clears the key and, if the next slot is HT_EMPTY, empties the
\* slot and decrements size; otherwise it leaves an HT_TOMBSTONE.
HtRemove(t, home, k) ==
    LET i    == Probe(t, home, FirstStop(t, home, ChainEnd(t, k)))
        last == t.slot[(i + 1) % t.capacity].st = HT_EMPTY
    IN  [t EXCEPT !.slot[i] = [st  |-> IF last THEN HT_EMPTY ELSE HT_TOMBSTONE,
                               key |-> NoKey,
                               val |-> @.val],
                  !.size    = IF last THEN @ - 1 ELSE @]

\* Entries that are not HT_EMPTY: what the code's size actually counts.
UsedSlots(t) == {i \in DOMAIN t.slot : t.slot[i].st # HT_EMPTY}
=============================================================================
