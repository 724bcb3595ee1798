------------------------------- MODULE HashMap -------------------------------
(***************************************************************************)
(* The open-addressing hash table of hashmap.c, which holds macros,        *)
(* scopes, include guards and every other name table of the compiler.      *)
(*                                                                         *)
(* A key is a model value: match() compares contents, so equal keys are    *)
(* one key whatever storage they are in.  Hash stands for fnv_hash; the    *)
(* capacity is a power of two, so that "& mask" is a remainder.            *)
(***************************************************************************)
EXTENDS Integers, FiniteSets

CONSTANTS
  Keys,      \* what callers put in the table
  Values,    \* what they associate with a key
  Hash,      \* fnv_hash
  InitSize,  \* INIT_SIZE (16 in the code)
  Null,      \* an empty bucket's key
  Tombstone  \* a deleted bucket's key

(* A Hash for keys that are numbers. *)
KeyIsHash == [k \in Keys |-> k]

HighWatermark == 70
LowWatermark == 50

ASSUME HashIsNat == Hash \in [Keys -> Nat]
(* In a smaller table the high mark would not leave a bucket free. *)
ASSUME InitSizeLeavesRoom == InitSize \in Nat /\ InitSize >= 4
ASSUME MarkersAreNotKeys == /\ Null \notin Keys
                            /\ Tombstone \notin Keys
                            /\ Null # Tombstone

VARIABLES
  table,    \* [cap, buckets, used]; cap = 0 until the first insertion
  aborted,  \* an assert() of rehash has failed
  contents  \* history: key -> the value last put and not deleted, or Null

vars == <<table, aborted, contents>>

Bucket == [key : Keys \cup {Null, Tombstone}, val : Values \cup {Null}]
EmptyBucket == [key |-> Null, val |-> Null]

NewTable(cap) == [cap |-> cap, buckets |-> [i \in 0 .. cap - 1 |-> EmptyBucket], used |-> 0]

Live(t, i) == t.buckets[i].key \in Keys

-----------------------------------------------------------------------------
(* Probing. *)

(* The bucket looked at after n others. *)
Probe(t, k, n) == (Hash[k] + n) % t.cap

(* The number of probes after which a search ends: at the first bucket      *)
(* whose key is one of stops.  Without any, the code is "unreachable".      *)
Ends(t, k, stops) == {n \in 0 .. t.cap - 1 : t.buckets[Probe(t, k, n)].key \in stops}
FirstEnd(t, k, stops) == LET ends == Ends(t, k, stops) IN CHOOSE n \in ends : \A p \in ends : n <= p

(* get_entry: the bucket that holds k, as a set of none or one. *)
Entry(t, k) ==
  IF t.cap = 0 THEN {}
  ELSE {i \in {Probe(t, k, FirstEnd(t, k, {k, Null}))} : t.buckets[i].key = k}

(* hashmap_get2 *)
Get(t, k) == IF Entry(t, k) = {} THEN Null ELSE (CHOOSE b \in {t.buckets[i] : i \in Entry(t, k)} : TRUE).val

(* Mutant: reusing a tombstone counts as a new bucket. *)
InsertCounting(t, k, v) ==
  LET i == Probe(t, k, FirstEnd(t, k, {k, Tombstone, Null})) IN
  [t EXCEPT !.buckets[i] = [key |-> k, val |-> v],
            !.used = IF t.buckets[i].key \in {Null, Tombstone} THEN @ + 1 ELSE @]

(* get_or_insert_entry and the store of hashmap_put2, on a table with room. *)
Insert(t, k, v) ==
  LET i == Probe(t, k, FirstEnd(t, k, {k, Tombstone, Null})) IN
  [t EXCEPT !.buckets[i] = [key |-> k, val |-> v],
            !.used = IF t.buckets[i].key = Null THEN @ + 1 ELSE @]

-----------------------------------------------------------------------------
(* Growing. *)

NumKeys(t) == Cardinality({i \in 0 .. t.cap - 1 : Live(t, i)})

Smallest(caps, n) == LET fits == {c \in caps : (n * 100) \div c < LowWatermark} IN
                     CHOOSE c \in fits : \A d \in fits : c <= d

(* The smallest doubling of cap that n keys fill to less than the low mark; *)
(* n is at most cap.                                                        *)
NewCap(cap, n) == Smallest({cap, 2 * cap, 4 * cap}, n)

(* Every live entry, in bucket order, put in a table of the new size: the   *)
(* new table after n buckets.  It never reaches the high mark, so that no   *)
(* put nests a rehash.                                                      *)
Moves(t) ==
  LET Moved[n \in 0 .. t.cap] ==
        IF n = 0 THEN NewTable(NewCap(t.cap, NumKeys(t)))
        ELSE IF Live(t, n - 1) THEN Insert(Moved[n - 1], t.buckets[n - 1].key, t.buckets[n - 1].val)
        ELSE Moved[n - 1]
  IN Moved

Rehash(t) == Moves(t)[t.cap]

(* Mutant: the table grows only when it is full. *)
NeedsRehashWhenFull(t) == t.cap # 0 /\ t.used > t.cap

NeedsRehash(t) == t.cap # 0 /\ (t.used * 100) \div t.cap >= HighWatermark

-----------------------------------------------------------------------------
(* The operations. *)

Init ==
  /\ table = NewTable(0)
  /\ aborted = FALSE
  /\ contents = [k \in Keys |-> Null]

(* hashmap_put2, when no rehash is due. *)
Put(k, v) ==
  /\ ~NeedsRehash(table)
  /\ table' = Insert(IF table.cap = 0 THEN NewTable(InitSize) ELSE table, k, v)
  /\ contents' = [contents EXCEPT ![k] = v]
  /\ UNCHANGED aborted

(* hashmap_put2 with a rehash first; its assert(map2.used == nkeys) stops   *)
(* the compiler when it fails.                                              *)
PutRehashing(k, v) ==
  /\ NeedsRehash(table)
  /\ LET t2 == Rehash(table) IN
       \/ /\ t2.used = NumKeys(table)
          /\ table' = Insert(t2, k, v)
          /\ contents' = [contents EXCEPT ![k] = v]
          /\ UNCHANGED aborted
       \/ /\ t2.used # NumKeys(table)
          /\ aborted' = TRUE
          /\ UNCHANGED <<table, contents>>

(* Mutant: a deleted bucket is emptied. *)
DeleteEmptying(k) ==
  /\ Entry(table, k) # {}
  /\ \E i \in Entry(table, k) : table' = [table EXCEPT !.buckets[i].key = Null]
  /\ contents' = [contents EXCEPT ![k] = Null]
  /\ UNCHANGED aborted

(* hashmap_delete2; the key stays counted in used. *)
Delete(k) ==
  /\ Entry(table, k) # {}
  /\ \E i \in Entry(table, k) : table' = [table EXCEPT !.buckets[i].key = Tombstone]
  /\ contents' = [contents EXCEPT ![k] = Null]
  /\ UNCHANGED aborted

Aborted == aborted /\ UNCHANGED vars

Next ==
  \/ ~aborted /\ \E k \in Keys, v \in Values : Put(k, v)
  \/ ~aborted /\ \E k \in Keys, v \in Values : PutRehashing(k, v)
  \/ ~aborted /\ \E k \in Keys : Delete(k)
  \/ Aborted

Spec == Init /\ [][Next]_vars

-----------------------------------------------------------------------------
(* Properties. *)

(* n is InitSize doubled some number of times: it is in every set that has  *)
(* InitSize and the double of each of its members.                          *)
IsDoublingOfInitSize(n) ==
  \A S \in SUBSET Nat : InitSize \in S /\ (\A c \in S : 2 * c \in S) => n \in S

(* The capacity is InitSize times a power of two (a power of two itself for *)
(* the code's INIT_SIZE of 16, so that "& mask" takes every hash to the     *)
(* bucket its remainder names), and every index below it has a bucket with  *)
(* a key, a marker or nothing.                                              *)
TypeOK ==
  /\ table.cap = 0 \/ IsDoublingOfInitSize(table.cap)
  /\ table.buckets \in [0 .. table.cap - 1 -> Bucket]
  /\ table.used \in 0 .. table.cap
  /\ aborted \in BOOLEAN
  /\ contents \in [Keys -> Values \cup {Null}]

(* used counts the buckets that end no search, live or deleted, and the     *)
(* high watermark leaves one that does: the unreachable() at the end of the *)
(* probe loops is never reached, although deleting never lowers used and    *)
(* reusing a tombstone never raises it.                                     *)
SearchesEnd ==
  /\ table.used = Cardinality({i \in 0 .. table.cap - 1 : table.buckets[i].key # Null})
  /\ table.cap # 0 => table.used < table.cap

(* A name that was put and not deleted since is found with the value last   *)
(* put for it (#define, a scope's declarations), through collisions, wrap-   *)
(* around, tombstones and rehashes.                                          *)
PresentKeysFound ==
  \A k \in Keys : contents[k] # Null => Get(table, k) = contents[k]
=============================================================================
