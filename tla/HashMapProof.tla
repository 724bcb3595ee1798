----------------------------- MODULE HashMapProof -----------------------------
(* Machine-checked proofs about HashMap: its searches end and find the names *)
(* that were put, for every hash function, every set of keys and every       *)
(* sequence of puts, deletions and rehashes.                                 *)
(*                                                                           *)
(* rehash is a loop, and HashMap models it as a recursive function.  What it *)
(* does is proved by least counterexample: a set of naturals has a least     *)
(* element, so that the first bucket after which the new table were wrong    *)
(* would follow one after which it is right.                                 *)
EXTENDS HashMap, FiniteSetTheorems, WellFoundedInduction, TLAPS

-----------------------------------------------------------------------------
(* Numbers. *)

(* Every set of naturals has a least element: the first bucket that ends a  *)
(* search, the first step of a loop at which something fails.               *)
LEMMA LeastElement ==
  ASSUME NEW S \in SUBSET Nat, S # {}
  PROVE  \E n \in S : \A p \in S : n <= p
<1> DEFINE R == OpToRel(<, Nat)
<1>1. \A x, y \in Nat : <<y, x>> \in R <=> y < x
  BY DEF OpToRel
<1>2. IsWellFoundedOn(R, Nat)
  BY NatLessThanWellFounded
<1> HIDE DEF R
<1>3. PICK n \in S : \A p \in S : ~(<<p, n>> \in R)
  BY <1>2, WFMin
<1>4. ASSUME NEW p \in S
      PROVE  n <= p
  <2>1. ~(p < n)
    BY <1>1, <1>3
  <2>2. QED
    BY <2>1
<1>5. QED
  BY <1>4

(* Quotient and remainder. *)
LEMMA DivMod ==
  ASSUME NEW n \in Int, NEW a \in Nat \ {0}
  PROVE  /\ n \div a \in Int /\ n % a \in 0 .. a - 1
         /\ n = (n \div a) * a + (n % a)
OBVIOUS

(* They are the only ones. *)
LEMMA Remainder ==
  ASSUME NEW q \in Int, NEW a \in Nat \ {0}, NEW i \in 0 .. a - 1
  PROVE  (q * a + i) % a = i
<1> DEFINE d == (q * a + i) \div a
           r == (q * a + i) % a
<1>1. q * a + i \in Int
  OBVIOUS
<1>2. d \in Int /\ r \in 0 .. a - 1 /\ q * a + i = d * a + r
  BY <1>1, DivMod
<1> HIDE DEF d, r
<1>3. (q - d) * a = r - i
  BY <1>2
<1>4. CASE q - d >= 1
  <2>1. (q - d) * a >= a
    BY <1>2, <1>4
  <2>2. QED
    BY <1>2, <1>3, <2>1
<1>5. CASE q - d <= -1
  <2>1. (q - d) * a <= -a
    BY <1>2, <1>5
  <2>2. QED
    BY <1>2, <1>3, <2>1
<1>6. CASE q = d
  BY <1>2, <1>6 DEF r
<1>7. QED
  BY <1>2, <1>4, <1>5, <1>6

(* Doublings of the initial size are numbers, and double to doublings.       *)
LEMMA Doublings ==
  /\ IsDoublingOfInitSize(InitSize)
  /\ \A n : IsDoublingOfInitSize(n) => /\ n \in Nat
                                       /\ IsDoublingOfInitSize(2 * n)
                                       /\ IsDoublingOfInitSize(4 * n)
<1>1. IsDoublingOfInitSize(InitSize)
  BY DEF IsDoublingOfInitSize
<1>2. ASSUME NEW n, IsDoublingOfInitSize(n)
      PROVE  n \in Nat
  <2>1. InitSize \in Nat /\ \A c \in Nat : 2 * c \in Nat
    BY InitSizeLeavesRoom
  <2>2. Nat \in SUBSET Nat
    OBVIOUS
  <2>3. QED
    BY <1>2, <2>1, <2>2 DEF IsDoublingOfInitSize
<1>3. ASSUME NEW n, IsDoublingOfInitSize(n)
      PROVE  IsDoublingOfInitSize(2 * n)
  BY <1>3 DEF IsDoublingOfInitSize
<1>4. ASSUME NEW n, IsDoublingOfInitSize(n)
      PROVE  IsDoublingOfInitSize(4 * n)
  <2>1. n \in Nat /\ IsDoublingOfInitSize(2 * (2 * n))
    BY <1>2, <1>3, <1>4
  <2>2. 4 * n = 2 * (2 * n)
    BY <2>1
  <2>3. QED
    BY <2>1, <2>2
<1>5. QED
  BY <1>1, <1>2, <1>3, <1>4

-----------------------------------------------------------------------------
(* Tables. *)

(* The buckets that no search ends at. *)
Taken(t) == {i \in 0 .. t.cap - 1 : t.buckets[i].key # Null}

IsTable(t) ==
  /\ t.cap \in Nat
  /\ t \in [cap : Nat, buckets : [0 .. t.cap - 1 -> Bucket], used : Nat]
  /\ t.used = Cardinality(Taken(t))

(* A table that has a bucket, and an empty one. *)
HasRoom(t) == IsTable(t) /\ t.cap # 0 /\ t.used < t.cap

(* A search for k ends at a bucket with k and v. *)
Found(t, k, v) ==
  \E n \in 0 .. t.cap - 1 :
    /\ t.buckets[Probe(t, k, n)].key = k
    /\ t.buckets[Probe(t, k, n)].val = v
    /\ \A m \in 0 .. n - 1 : t.buckets[Probe(t, k, m)].key \notin {k, Null}

(* A table of c buckets has c indices. *)
LEMMA IndicesCount ==
  ASSUME NEW c \in Nat
  PROVE  IsFiniteSet(0 .. c - 1) /\ Cardinality(0 .. c - 1) = c
<1>1. 0 \in Int /\ c - 1 \in Int
  OBVIOUS
<1>2. /\ IsFiniteSet(0 .. c - 1)
      /\ Cardinality(0 .. c - 1) = IF 0 > c - 1 THEN 0 ELSE c - 1 - 0 + 1
  BY <1>1, FS_Interval, Zenon
<1>3. QED
  BY <1>2

(* At most every bucket is taken. *)
LEMMA TakenIsFinite ==
  ASSUME NEW t, t.cap \in Nat
  PROVE  IsFiniteSet(Taken(t)) /\ Cardinality(Taken(t)) \in 0 .. t.cap
<1>1. IsFiniteSet(0 .. t.cap - 1) /\ Cardinality(0 .. t.cap - 1) = t.cap
  BY IndicesCount
<1>2. Taken(t) \in SUBSET (0 .. t.cap - 1)
  BY DEF Taken
<1>3. QED
  BY <1>1, <1>2, FS_Subset, FS_CardinalityType

(* Probing stays in the table. *)
LEMMA ProbeInTable ==
  ASSUME NEW t, t.cap \in Nat \ {0}, NEW k \in Keys, NEW n \in Nat
  PROVE  Probe(t, k, n) \in 0 .. t.cap - 1
<1>1. Hash[k] + n \in Int
  BY HashIsNat
<1>2. QED
  BY <1>1, DivMod DEF Probe

(* As many probes as there are buckets look at each of them. *)
LEMMA ProbeReaches ==
  ASSUME NEW t, t.cap \in Nat \ {0}, NEW k \in Keys, NEW i \in 0 .. t.cap - 1
  PROVE  \E n \in 0 .. t.cap - 1 : Probe(t, k, n) = i
<1> DEFINE h == Hash[k]
           c == t.cap
           q == h \div c
           r == h % c
<1>1. h \in Nat /\ c \in Nat \ {0}
  BY HashIsNat
<1> HIDE DEF h, c
<1>2. q \in Int /\ r \in 0 .. c - 1 /\ h = q * c + r
  BY <1>1, DivMod
<1> HIDE DEF q, r
<1>3. CASE i >= r
  <2>1. i - r \in 0 .. c - 1 /\ h + (i - r) = q * c + i
    BY <1>1, <1>2, <1>3 DEF c
  <2>2. (h + (i - r)) % c = i
    BY <1>1, <1>2, <2>1, Remainder DEF c
  <2>3. QED
    BY <2>1, <2>2 DEF Probe, h, c
<1>4. CASE i < r
  <2>1. (i - r) + c \in 0 .. c - 1 /\ h + ((i - r) + c) = (q + 1) * c + i /\ q + 1 \in Int
    <3>1. q * c \in Int /\ (q + 1) * c = q * c + c
      BY <1>1, <1>2
    <3>2. i \in 0 .. c - 1
      BY DEF c
    <3>3. QED
      BY <1>1, <1>2, <1>4, <3>1, <3>2
  <2>2. (h + ((i - r) + c)) % c = i
    BY <1>1, <2>1, Remainder DEF c
  <2>3. QED
    BY <2>1, <2>2 DEF Probe, h, c
<1>5. QED
  BY <1>1, <1>2, <1>3, <1>4 DEF c

(* A table with room has an empty bucket. *)
LEMMA EmptyBucketLeft ==
  ASSUME NEW t, HasRoom(t)
  PROVE  \E i \in 0 .. t.cap - 1 : t.buckets[i].key = Null
<1> SUFFICES ASSUME \A i \in 0 .. t.cap - 1 : t.buckets[i].key # Null
             PROVE  FALSE
  OBVIOUS
<1>1. Taken(t) = 0 .. t.cap - 1
  BY DEF Taken
<1>2. t.cap \in Nat
  BY DEF HasRoom, IsTable
<1>3. Cardinality(0 .. t.cap - 1) = t.cap
  BY <1>2, IndicesCount
<1>4. QED
  BY <1>1, <1>2, <1>3 DEF HasRoom, IsTable

(* A search that stops at empty buckets ends, at the first bucket it may. *)
LEMMA SearchEnds ==
  ASSUME NEW t, HasRoom(t), NEW k \in Keys, NEW stops, Null \in stops
  PROVE  /\ FirstEnd(t, k, stops) \in 0 .. t.cap - 1
         /\ t.buckets[Probe(t, k, FirstEnd(t, k, stops))].key \in stops
         /\ \A m \in 0 .. FirstEnd(t, k, stops) - 1 : t.buckets[Probe(t, k, m)].key \notin stops
<1> DEFINE ends == Ends(t, k, stops)
           n == FirstEnd(t, k, stops)
<1>1. t.cap \in Nat \ {0}
  BY DEF HasRoom, IsTable
<1>2. PICK i \in 0 .. t.cap - 1 : t.buckets[i].key = Null
  BY EmptyBucketLeft
<1>3. PICK e \in 0 .. t.cap - 1 : Probe(t, k, e) = i
  BY <1>1, ProbeReaches
<1>4. e \in ends
  BY <1>2, <1>3 DEF Ends
<1>5. ends \in SUBSET Nat /\ ends # {}
  BY <1>1, <1>4 DEF Ends
<1>6. n \in ends /\ \A p \in ends : n <= p
  <2>1. \E x \in ends : \A p \in ends : x <= p
    BY <1>5, LeastElement
  <2>2. n = CHOOSE x \in ends : \A p \in ends : x <= p
    BY DEF FirstEnd
  <2> HIDE DEF ends, n
  <2>3. QED
    BY <2>1, <2>2
<1>7. n \in 0 .. t.cap - 1 /\ t.buckets[Probe(t, k, n)].key \in stops
  BY <1>6 DEF Ends
<1>8. ASSUME NEW m \in 0 .. n - 1
      PROVE  t.buckets[Probe(t, k, m)].key \notin stops
  <2>1. m \in 0 .. t.cap - 1 /\ ~(n <= m)
    BY <1>1, <1>7
  <2>2. m \notin ends
    BY <1>6, <2>1
  <2>3. QED
    BY <2>1, <2>2 DEF Ends
<1>9. QED
  BY <1>7, <1>8

-----------------------------------------------------------------------------
(* Inserting and looking up. *)

(* The table with k and v in bucket i. *)
Written(t, i, k, v) ==
  [t EXCEPT !.buckets[i] = [key |-> k, val |-> v],
            !.used = IF t.buckets[i].key = Null THEN @ + 1 ELSE @]

(* One bucket replaced, and counted when it was empty. *)
Replaces(u, t, i, k, v) ==
  /\ u.cap = t.cap
  /\ u.buckets = [t.buckets EXCEPT ![i] = [key |-> k, val |-> v]]
  /\ u.used = IF t.buckets[i].key = Null THEN t.used + 1 ELSE t.used

(* Writing a bucket keeps the count. *)
LEMMA BucketReplaced ==
  ASSUME NEW t, IsTable(t), NEW i \in 0 .. t.cap - 1, NEW k \in Keys, NEW v \in Values \cup {Null},
         NEW u, u = Written(t, i, k, v)
  PROVE  Replaces(u, t, i, k, v) /\ IsTable(u)
<1>1. t \in [cap : Nat, buckets : [0 .. t.cap - 1 -> Bucket], used : Nat]
  BY DEF IsTable
<1>2. /\ u.cap = t.cap
      /\ u.buckets = [t.buckets EXCEPT ![i] = [key |-> k, val |-> v]]
      /\ u.used = IF t.buckets[i].key = Null THEN t.used + 1 ELSE t.used
  BY <1>1 DEF Written
<1>3. u.buckets \in [0 .. t.cap - 1 -> Bucket] /\ u.used \in Nat /\ u.cap \in Nat
  <2>1. [key |-> k, val |-> v] \in Bucket
    BY DEF Bucket
  <2>2. QED
    BY <1>1, <1>2, <2>1
<1>4. u \in [cap : Nat, buckets : [0 .. u.cap - 1 -> Bucket], used : Nat]
  <2>1. u = [cap |-> u.cap, buckets |-> u.buckets, used |-> u.used]
    BY <1>1 DEF Written
  <2>2. QED
    BY <1>2, <1>3, <2>1
<1>5. u.used = Cardinality(Taken(u))
  <2>1. Taken(u) = Taken(t) \cup {i}
    BY <1>1, <1>2, MarkersAreNotKeys DEF Taken
  <2>2. IsFiniteSet(Taken(t)) /\ i \in Taken(t) <=> t.buckets[i].key # Null
    BY <1>1, TakenIsFinite DEF Taken
  <2>3. Cardinality(Taken(u)) = IF i \in Taken(t) THEN Cardinality(Taken(t)) ELSE Cardinality(Taken(t)) + 1
    BY <1>1, <2>1, TakenIsFinite, FS_AddElement
  <2>4. QED
    BY <1>1, <1>2, <2>3 DEF IsTable, Taken
<1>6. QED
  BY <1>2, <1>3, <1>4, <1>5 DEF IsTable, Replaces

(* What is stored is found, what else was found still is, and used counts   *)
(* an empty bucket that was taken.                                          *)
LEMMA InsertFinds ==
  ASSUME NEW t, HasRoom(t), NEW k \in Keys, NEW v \in Values \cup {Null}
  PROVE  /\ IsTable(Insert(t, k, v))
         /\ Insert(t, k, v).cap = t.cap
         /\ Insert(t, k, v).used \in {t.used, t.used + 1}
         /\ Found(Insert(t, k, v), k, v)
         /\ \A j \in Keys \ {k} : \A w : Found(t, j, w) => Found(Insert(t, k, v), j, w)
         /\ \A i \in 0 .. t.cap - 1 :
              t.buckets[i].key # Tombstone => Insert(t, k, v).buckets[i].key # Tombstone
<1> DEFINE stops == {k, Tombstone, Null}
<1>1. IsTable(t) /\ t.cap \in Nat \ {0}
  BY DEF HasRoom, IsTable
<1>2. PICK n \in 0 .. t.cap - 1 :
        /\ t.buckets[Probe(t, k, n)].key \in stops
        /\ \A m \in 0 .. n - 1 : t.buckets[Probe(t, k, m)].key \notin stops
        /\ Insert(t, k, v) = Written(t, Probe(t, k, n), k, v)
  BY SearchEnds DEF Insert, Written
<1>3. PICK i : i = Probe(t, k, n)
  OBVIOUS
<1>4. i \in 0 .. t.cap - 1
  BY <1>1, <1>2, <1>3, ProbeInTable
<1>5. PICK u : u = Insert(t, k, v)
  OBVIOUS
<1>6. /\ u.cap = t.cap
      /\ u.buckets = [t.buckets EXCEPT ![i] = [key |-> k, val |-> v]]
      /\ u.used = IF t.buckets[i].key = Null THEN t.used + 1 ELSE t.used
      /\ IsTable(u)
  <2>1. u = Written(t, i, k, v)
    BY <1>2, <1>3, <1>5
  <2>2. QED
    <3>1. IsTable(t) /\ k \in Keys /\ v \in Values \cup {Null}
      BY <1>1
    <3>2. Replaces(u, t, i, k, v) /\ IsTable(u)
      BY <3>1, <1>4, <2>1, BucketReplaced, Zenon
    <3>3. QED
      BY <3>2 DEF Replaces
<1>7. \A j \in Keys : \A m : Probe(u, j, m) = Probe(t, j, m)
  BY <1>6 DEF Probe
<1>8. \A j \in 0 .. t.cap - 1 :
        u.buckets[j] = IF j = i THEN [key |-> k, val |-> v] ELSE t.buckets[j]
  BY <1>1, <1>4, <1>6 DEF IsTable
<1>9. Found(u, k, v)
  <2>1. ASSUME NEW m \in 0 .. n - 1
        PROVE  u.buckets[Probe(u, k, m)].key \notin {k, Null}
    <3>1. m \in Nat /\ Probe(t, k, m) \in 0 .. t.cap - 1
      BY <1>1, <1>2, ProbeInTable
    <3>2. t.buckets[Probe(t, k, m)].key \notin stops
      BY <1>2
    <3>3. Probe(t, k, m) # i
      BY <1>2, <1>3, <3>2
    <3>4. QED
      BY <1>7, <1>8, <3>1, <3>2, <3>3
  <2>2. u.buckets[Probe(u, k, n)].key = k /\ u.buckets[Probe(u, k, n)].val = v
    BY <1>3, <1>4, <1>7, <1>8
  <2>3. QED
    BY <1>2, <1>6, <2>1, <2>2 DEF Found
<1>10. ASSUME NEW j \in Keys \ {k}, NEW w, Found(t, j, w)
      PROVE  Found(u, j, w)
  <2>1. PICK e \in 0 .. t.cap - 1 :
          /\ t.buckets[Probe(t, j, e)].key = j
          /\ t.buckets[Probe(t, j, e)].val = w
          /\ \A m \in 0 .. e - 1 : t.buckets[Probe(t, j, m)].key \notin {j, Null}
    BY <1>10 DEF Found
  <2>2. Probe(t, j, e) \in 0 .. t.cap - 1 /\ Probe(t, j, e) # i
    <3>1. Probe(t, j, e) \in 0 .. t.cap - 1
      BY <1>1, <2>1, ProbeInTable
    <3>2. j \notin stops
      BY MarkersAreNotKeys
    <3>3. QED
      BY <1>2, <1>3, <2>1, <3>1, <3>2
  <2>3. ASSUME NEW m \in 0 .. e - 1
        PROVE  u.buckets[Probe(u, j, m)].key \notin {j, Null}
    <3>1. m \in Nat /\ Probe(t, j, m) \in 0 .. t.cap - 1
      BY <1>1, <2>1, ProbeInTable
    <3>2. t.buckets[Probe(t, j, m)].key \notin {j, Null}
      BY <2>1
    <3>3. QED
      BY <1>7, <1>8, <3>1, <3>2, MarkersAreNotKeys
  <2>4. u.buckets[Probe(u, j, e)].key = j /\ u.buckets[Probe(u, j, e)].val = w
    BY <1>7, <1>8, <2>1, <2>2
  <2>5. QED
    BY <1>6, <2>1, <2>3, <2>4 DEF Found
<1>11. \A j \in 0 .. t.cap - 1 : t.buckets[j].key # Tombstone => u.buckets[j].key # Tombstone
  BY <1>8, MarkersAreNotKeys
<1>12. QED
  BY <1>5, <1>6, <1>9, <1>10, <1>11

(* Where nothing was deleted, storing a value for a key that is there takes *)
(* no new bucket.                                                           *)
NoTombstones(t) == \A i \in 0 .. t.cap - 1 : t.buckets[i].key # Tombstone

LEMMA InsertAgain ==
  ASSUME NEW t, HasRoom(t), NoTombstones(t), NEW k \in Keys, NEW v \in Values \cup {Null},
         NEW w, Found(t, k, w)
  PROVE  Insert(t, k, v).used = t.used
<1> DEFINE stops == {k, Tombstone, Null}
<1>1. IsTable(t) /\ t.cap \in Nat \ {0}
  BY DEF HasRoom, IsTable
<1>2. PICK n \in 0 .. t.cap - 1 :
        /\ t.buckets[Probe(t, k, n)].key \in stops
        /\ \A m \in 0 .. n - 1 : t.buckets[Probe(t, k, m)].key \notin stops
        /\ Insert(t, k, v) = Written(t, Probe(t, k, n), k, v)
  BY SearchEnds DEF Insert, Written
<1>3. PICK e \in 0 .. t.cap - 1 :
        /\ t.buckets[Probe(t, k, e)].key = k
        /\ \A m \in 0 .. e - 1 : t.buckets[Probe(t, k, m)].key \notin {k, Null}
  BY DEF Found
<1>4. e \notin 0 .. n - 1
  BY <1>2, <1>3
<1>5. n \notin 0 .. e - 1
  <2> SUFFICES ASSUME n \in 0 .. e - 1 PROVE FALSE
    OBVIOUS
  <2>1. t.buckets[Probe(t, k, n)].key = Tombstone
    BY <1>2, <1>3
  <2>2. Probe(t, k, n) \in 0 .. t.cap - 1
    BY <1>1, <1>2, ProbeInTable
  <2>3. QED
    BY <2>1, <2>2 DEF NoTombstones
<1>6. n = e
  BY <1>1, <1>4, <1>5
<1>7. t.buckets[Probe(t, k, n)].key # Null /\ Probe(t, k, n) \in 0 .. t.cap - 1
  BY <1>1, <1>3, <1>6, ProbeInTable, MarkersAreNotKeys
<1>8. Replaces(Insert(t, k, v), t, Probe(t, k, n), k, v)
  BY <1>1, <1>2, <1>7, BucketReplaced
<1>9. QED
  BY <1>7, <1>8 DEF Replaces

(* A search that finds a value finds that one. *)
LEMMA FoundIsGot ==
  ASSUME NEW t, IsTable(t), t.cap # 0, NEW k \in Keys, NEW v, Found(t, k, v)
  PROVE  Get(t, k) = v
<1> DEFINE stops == {k, Null}
<1>1. PICK n \in 0 .. t.cap - 1 :
        /\ t.buckets[Probe(t, k, n)].key = k
        /\ t.buckets[Probe(t, k, n)].val = v
        /\ \A m \in 0 .. n - 1 : t.buckets[Probe(t, k, m)].key \notin stops
  BY DEF Found
<1>2. FirstEnd(t, k, stops) = n
  <2> DEFINE ends == Ends(t, k, stops)
  <2>1. n \in ends
    BY <1>1 DEF Ends
  <2>2. \A p \in ends : p \in 0 .. t.cap - 1 /\ n <= p
    <3> SUFFICES ASSUME NEW p \in ends PROVE p \in 0 .. t.cap - 1 /\ n <= p
      OBVIOUS
    <3>1. p \in 0 .. t.cap - 1 /\ t.buckets[Probe(t, k, p)].key \in stops
      BY DEF Ends
    <3>2. p \notin 0 .. n - 1
      BY <1>1, <3>1
    <3>3. QED
      BY <1>1, <3>1, <3>2 DEF IsTable
  <2>3. FirstEnd(t, k, stops) = CHOOSE x \in ends : \A p \in ends : x <= p
    BY DEF FirstEnd
  <2> HIDE DEF ends
  <2>4. \A x \in ends : (\A p \in ends : x <= p) => x = n
    BY <2>1, <2>2
  <2>5. (CHOOSE x \in ends : \A p \in ends : x <= p) = n
    BY <2>1, <2>2, <2>4
  <2>6. QED
    BY <2>3, <2>5
<1>3. Entry(t, k) = {Probe(t, k, n)}
  BY <1>1, <1>2 DEF Entry
<1>4. {t.buckets[i] : i \in Entry(t, k)} = {t.buckets[Probe(t, k, n)]}
  BY <1>3
<1>5. (CHOOSE b \in {t.buckets[i] : i \in Entry(t, k)} : TRUE) = t.buckets[Probe(t, k, n)]
  BY <1>4
<1>6. QED
  BY <1>1, <1>3, <1>5 DEF Get

-----------------------------------------------------------------------------
(* Growing. *)

(* The two watermarks, as what they say of the number of keys. *)
LEMMA Percentage ==
  ASSUME NEW n \in Nat, NEW c \in Nat \ {0}, NEW p \in Nat
  PROVE  (n * 100) \div c < p <=> n * 100 < p * c
<1> DEFINE d == (n * 100) \div c
           r == (n * 100) % c
<1>1. d \in Int /\ r \in 0 .. c - 1 /\ n * 100 = d * c + r
  <2>1. \A m \in Int : m \div c \in Int /\ m % c \in 0 .. c - 1 /\ m = (m \div c) * c + (m % c)
    BY DivMod
  <2>2. n * 100 \in Int
    OBVIOUS
  <2>3. QED
    BY <2>1, <2>2
<1> HIDE DEF r
<1> SUFFICES d < p <=> n * 100 < p * c
  OBVIOUS
<1> HIDE DEF d
<1>2. ASSUME d < p
      PROVE  n * 100 < p * c
  <2>1. p - d >= 1 /\ p - d \in Int
    BY <1>1, <1>2
  <2>2. (p - d) * c >= c
    BY <2>1
  <2>3. p * c = d * c + (p - d) * c
    BY <1>1
  <2>4. p * c \in Int /\ d * c \in Int /\ (p - d) * c \in Int
    BY <1>1
  <2>5. QED
    BY <1>1, <2>2, <2>3, <2>4
<1>3. ASSUME p <= d
      PROVE  p * c <= n * 100
  <2>1. d - p >= 0 /\ d - p \in Int
    BY <1>1, <1>3
  <2>2. (d - p) * c >= 0
    BY <2>1
  <2>3. d * c = p * c + (d - p) * c
    BY <1>1
  <2>4. p * c \in Int /\ d * c \in Int /\ (d - p) * c \in Int
    BY <1>1
  <2>5. QED
    BY <1>1, <2>2, <2>3, <2>4
<1>4. p * c \in Int
  OBVIOUS
<1>5. QED
  BY <1>1, <1>2, <1>3, <1>4

(* The new capacity leaves more than half of the buckets empty. *)
LEMMA NewCapSuffices ==
  ASSUME NEW cap \in Nat \ {0}, NEW n \in 0 .. cap
  PROVE  /\ NewCap(cap, n) \in {cap, 2 * cap, 4 * cap}
         /\ 2 * n < NewCap(cap, n)
<1> DEFINE caps == {cap, 2 * cap, 4 * cap}
           fits == {c \in caps : (n * 100) \div c < LowWatermark}
<1>1. \A c \in caps : (n * 100) \div c < LowWatermark <=> n * 100 < 50 * c
  BY Percentage DEF LowWatermark
<1>2. 4 * cap \in fits /\ fits \in SUBSET Nat
  BY <1>1
<1>3. \E c \in fits : \A d \in fits : c <= d
  BY <1>2, LeastElement
<1>4. NewCap(cap, n) = CHOOSE c \in fits : \A d \in fits : c <= d
  BY DEF NewCap, Smallest
<1> HIDE DEF fits
<1>5. NewCap(cap, n) \in fits
  BY <1>3, <1>4
<1>6. NewCap(cap, n) \in caps /\ n * 100 < 50 * NewCap(cap, n)
  BY <1>1, <1>5 DEF fits
<1>7. QED
  BY <1>6

(* The live entries among the first n buckets. *)
LiveUpTo(t, n) == {i \in 0 .. n - 1 : Live(t, i)}

(* One live entry more is counted for each bucket that has one. *)
LEMMA LiveCount ==
  ASSUME NEW t, t.cap \in Nat
  PROVE  /\ \A n \in 0 .. t.cap : /\ IsFiniteSet(LiveUpTo(t, n))
                                  /\ Cardinality(LiveUpTo(t, n)) \in 0 .. NumKeys(t)
         /\ NumKeys(t) = Cardinality(LiveUpTo(t, t.cap))
         /\ NumKeys(t) \in 0 .. t.cap
         /\ \A n \in 0 .. t.cap - 1 :
              Cardinality(LiveUpTo(t, n + 1)) =
                IF Live(t, n) THEN Cardinality(LiveUpTo(t, n)) + 1 ELSE Cardinality(LiveUpTo(t, n))
         /\ LiveUpTo(t, 0) = {}
<1>1. NumKeys(t) = Cardinality(LiveUpTo(t, t.cap))
  BY DEF NumKeys, LiveUpTo
<1>2. IsFiniteSet(0 .. t.cap - 1) /\ Cardinality(0 .. t.cap - 1) = t.cap
  BY IndicesCount
<1>3. LiveUpTo(t, t.cap) \in SUBSET (0 .. t.cap - 1)
  BY DEF LiveUpTo
<1>4. IsFiniteSet(LiveUpTo(t, t.cap)) /\ NumKeys(t) \in 0 .. t.cap
  BY <1>1, <1>2, <1>3, FS_Subset, FS_CardinalityType
<1>5. ASSUME NEW n \in 0 .. t.cap
      PROVE  /\ IsFiniteSet(LiveUpTo(t, n))
             /\ Cardinality(LiveUpTo(t, n)) \in 0 .. NumKeys(t)
  <2>1. LiveUpTo(t, n) \in SUBSET LiveUpTo(t, t.cap)
    BY DEF LiveUpTo
  <2>2. IsFiniteSet(LiveUpTo(t, n)) /\ Cardinality(LiveUpTo(t, n)) <= Cardinality(LiveUpTo(t, t.cap))
    BY <1>4, <2>1, FS_Subset
  <2>3. QED
    BY <1>1, <1>4, <2>2, FS_CardinalityType
<1>6. ASSUME NEW n \in 0 .. t.cap - 1
      PROVE  Cardinality(LiveUpTo(t, n + 1)) =
               IF Live(t, n) THEN Cardinality(LiveUpTo(t, n)) + 1 ELSE Cardinality(LiveUpTo(t, n))
  <2>1. CASE Live(t, n)
    <3>1. LiveUpTo(t, n + 1) = LiveUpTo(t, n) \cup {n} /\ n \notin LiveUpTo(t, n)
      BY <2>1 DEF LiveUpTo
    <3>2. IsFiniteSet(LiveUpTo(t, n))
      BY <1>5
    <3>3. QED
      BY <2>1, <3>1, <3>2, FS_AddElement
  <2>2. CASE ~Live(t, n)
    <3>1. LiveUpTo(t, n + 1) = LiveUpTo(t, n)
      BY <2>2 DEF LiveUpTo
    <3>2. QED
      BY <2>2, <3>1
  <2>3. QED
    BY <2>1, <2>2
<1>7. LiveUpTo(t, 0) = {}
  BY DEF LiveUpTo
<1>8. QED
  BY <1>1, <1>4, <1>5, <1>6, <1>7

(* One step of the loop of rehash. *)
MoveStep(t, moved, n) ==
  IF n = 0 THEN NewTable(NewCap(t.cap, NumKeys(t)))
  ELSE IF Live(t, n - 1) THEN Insert(moved[n - 1], t.buckets[n - 1].key, t.buckets[n - 1].val)
  ELSE moved[n - 1]

(* A step depends on the step before it only. *)
LEMMA MoveStepLocal ==
  ASSUME NEW t, NEW f, NEW g, NEW n, n = 0 \/ f[n - 1] = g[n - 1]
  PROVE  MoveStep(t, f, n) = MoveStep(t, g, n)
BY DEF MoveStep

(* The loop is defined for every number of buckets: the least number for    *)
(* which it were not would be one more than one for which it is.            *)
LEMMA LoopExists ==
  ASSUME NEW t, t.cap \in Nat
  PROVE  \A m \in 0 .. t.cap : \E f : f = [n \in 0 .. m |-> MoveStep(t, f, n)]
<1> DEFINE Bad == {m \in 0 .. t.cap : ~ \E f : f = [n \in 0 .. m |-> MoveStep(t, f, n)]}
<1> SUFFICES ASSUME Bad # {} PROVE FALSE
  OBVIOUS
<1>1. Bad \in SUBSET Nat
  OBVIOUS
<1>2. PICK m \in Bad : \A p \in Bad : m <= p
  BY <1>1, LeastElement
<1>3. m # 0
  <2> DEFINE f == [n \in 0 .. 0 |-> MoveStep(t, <<>>, n)]
  <2>1. \A n \in 0 .. 0 : MoveStep(t, f, n) = MoveStep(t, <<>>, n)
    BY MoveStepLocal
  <2>2. f = [n \in 0 .. 0 |-> MoveStep(t, f, n)]
    BY <2>1
  <2> HIDE DEF f
  <2>3. QED
    BY <2>2
<1>4. m - 1 \in 0 .. t.cap /\ m \in Nat \ {0} /\ m - 1 \notin Bad
  BY <1>1, <1>2, <1>3
<1>5. PICK f : f = [n \in 0 .. m - 1 |-> MoveStep(t, f, n)]
  BY <1>4
<1> DEFINE g == [n \in 0 .. m |-> MoveStep(t, f, n)]
<1>6. \A n \in 0 .. m - 1 : g[n] = f[n]
  BY <1>4, <1>5
<1>7. \A n \in 0 .. m : MoveStep(t, g, n) = MoveStep(t, f, n)
  <2> SUFFICES ASSUME NEW n \in 0 .. m PROVE MoveStep(t, g, n) = MoveStep(t, f, n)
    OBVIOUS
  <2>1. n = 0 \/ n - 1 \in 0 .. m - 1
    BY <1>4
  <2> HIDE DEF g
  <2>2. QED
    BY <1>6, <2>1, MoveStepLocal
<1>8. g = [n \in 0 .. m |-> MoveStep(t, g, n)]
  BY <1>7
<1> HIDE DEF g
<1>9. QED
  BY <1>2, <1>8

(* So the loop does what its steps do. *)
LEMMA MovesByStep ==
  ASSUME NEW t, t.cap \in Nat
  PROVE  Moves(t) = [n \in 0 .. t.cap |-> MoveStep(t, Moves(t), n)]
<1>1. PICK moved : moved = [n \in 0 .. t.cap |-> MoveStep(t, moved, n)]
  BY LoopExists
<1>2. Moves(t) = CHOOSE f : f = [n \in 0 .. t.cap |-> MoveStep(t, f, n)]
  BY DEF Moves, MoveStep
<1>3. QED
  BY <1>1, <1>2

(* A new table is empty. *)
LEMMA NewTableIsEmpty ==
  ASSUME NEW c \in Nat
  PROVE  /\ IsTable(NewTable(c)) /\ NewTable(c).cap = c /\ NewTable(c).used = 0
         /\ NoTombstones(NewTable(c))
<1> DEFINE t == NewTable(c)
<1>1. t.cap = c /\ t.used = 0 /\ t.buckets = [i \in 0 .. c - 1 |-> EmptyBucket]
      /\ t \in [cap : Nat, buckets : [0 .. c - 1 -> Bucket], used : Nat]
  BY DEF NewTable, EmptyBucket, Bucket
<1>2. \A i \in 0 .. c - 1 : t.buckets[i].key = Null
  BY <1>1 DEF EmptyBucket
<1> HIDE DEF t
<1>3. Taken(t) = {}
  BY <1>1, <1>2 DEF Taken
<1>4. Cardinality(Taken(t)) = 0
  BY <1>3, FS_EmptySet
<1>5. NoTombstones(t)
  BY <1>1, <1>2, MarkersAreNotKeys DEF NoTombstones
<1>6. QED
  BY <1>1, <1>4, <1>5 DEF IsTable, t

(* What holds of the new table u when n buckets of t have been moved: it has *)
(* at most the live entries so far, and if it has as many, each is found.    *)
Moved(t, u, n) ==
  /\ IsTable(u) /\ u.cap = NewCap(t.cap, NumKeys(t)) /\ NoTombstones(u)
  /\ u.used <= Cardinality(LiveUpTo(t, n))
  /\ u.used = Cardinality(LiveUpTo(t, n)) =>
       \A i \in LiveUpTo(t, n) : Found(u, t.buckets[i].key, t.buckets[i].val)

(* Before the first step, nothing has been moved. *)
LEMMA MovedAtStart ==
  ASSUME NEW t, IsTable(t), t.cap # 0
  PROVE  Moved(t, Moves(t)[0], 0)
<1>1. t.cap \in Nat \ {0}
  BY DEF IsTable
<1>2. NumKeys(t) \in 0 .. t.cap /\ LiveUpTo(t, 0) = {}
  BY <1>1, LiveCount
<1>3. NewCap(t.cap, NumKeys(t)) \in Nat
  BY <1>1, <1>2, NewCapSuffices
<1>4. Moves(t)[0] = NewTable(NewCap(t.cap, NumKeys(t)))
  BY <1>1, MovesByStep DEF MoveStep
<1>5. Cardinality(LiveUpTo(t, 0)) = 0
  BY <1>2, FS_EmptySet
<1>6. QED
  BY <1>2, <1>3, <1>4, <1>5, NewTableIsEmpty DEF Moved

(* A table that is being filled keeps more than half of its buckets empty. *)
LEMMA MovedRoom ==
  ASSUME NEW t, IsTable(t), t.cap # 0, NEW n \in 0 .. t.cap, NEW u, Moved(t, u, n)
  PROVE  HasRoom(u) /\ 2 * u.used < u.cap /\ u.used \in Nat /\ u.cap \in Nat
<1>1. t.cap \in Nat \ {0}
  BY DEF IsTable
<1>2. NumKeys(t) \in 0 .. t.cap /\ Cardinality(LiveUpTo(t, n)) \in 0 .. NumKeys(t)
  BY <1>1, LiveCount
<1>3. 2 * NumKeys(t) < NewCap(t.cap, NumKeys(t))
  BY <1>1, <1>2, NewCapSuffices
<1>4. u.used \in Nat /\ u.cap \in Nat /\ IsTable(u) /\ u.used <= Cardinality(LiveUpTo(t, n))
      /\ u.cap = NewCap(t.cap, NumKeys(t))
  BY DEF Moved, IsTable
<1>5. QED
  BY <1>2, <1>3, <1>4 DEF HasRoom

(* So no put of an entry into the new table would rehash it in turn. *)
LEMMA NoNestedRehash ==
  ASSUME NEW t, IsTable(t), t.cap # 0, NEW n \in 0 .. t.cap, NEW u, Moved(t, u, n)
  PROVE  ~NeedsRehash(u)
<1>1. 2 * u.used < u.cap /\ u.used \in Nat /\ u.cap \in Nat
  BY MovedRoom
<1>2. u.cap \in Nat \ {0} /\ u.used * 100 < 70 * u.cap
  BY <1>1
<1>3. (u.used * 100) \div u.cap < 70
  BY <1>1, <1>2, Percentage
<1>4. (u.used * 100) \div u.cap \in Int
  BY <1>1, <1>2
<1>5. ~((u.used * 100) \div u.cap >= 70)
  BY <1>3, <1>4
<1>6. QED
  BY <1>5 DEF NeedsRehash, HighWatermark

(* One live entry more. *)
LEMMA MovedNext ==
  ASSUME NEW t, IsTable(t), t.cap # 0, NEW n \in 0 .. t.cap - 1, Moved(t, Moves(t)[n], n)
  PROVE  Moved(t, Moves(t)[n + 1], n + 1)
<1>1. PICK u, w : u = Moves(t)[n] /\ w = Moves(t)[n + 1]
  OBVIOUS
<1>2. t.cap \in Nat \ {0} /\ n \in 0 .. t.cap /\ n + 1 \in 0 .. t.cap
  BY DEF IsTable
<1>3. w = IF Live(t, n) THEN Insert(u, t.buckets[n].key, t.buckets[n].val) ELSE u
  <2>1. w = MoveStep(t, Moves(t), n + 1)
    BY <1>1, <1>2, MovesByStep
  <2>2. n + 1 # 0 /\ (n + 1) - 1 = n
    BY <1>2
  <2>3. QED
    BY <1>1, <2>1, <2>2 DEF MoveStep
<1>4. Moved(t, u, n) /\ HasRoom(u)
  BY <1>1, <1>2, MovedRoom
<1>5. /\ Cardinality(LiveUpTo(t, n)) \in Nat
      /\ Cardinality(LiveUpTo(t, n + 1)) =
           IF Live(t, n) THEN Cardinality(LiveUpTo(t, n)) + 1 ELSE Cardinality(LiveUpTo(t, n))
  BY <1>2, LiveCount
<1>6. u.used \in Nat /\ u.used <= Cardinality(LiveUpTo(t, n))
  BY <1>4 DEF Moved, IsTable
<1>7. CASE ~Live(t, n)
  <2>1. LiveUpTo(t, n + 1) = LiveUpTo(t, n)
    BY <1>2, <1>7 DEF LiveUpTo
  <2>2. w = u /\ Cardinality(LiveUpTo(t, n + 1)) = Cardinality(LiveUpTo(t, n))
    BY <1>3, <1>5, <1>7
  <2>3. Moved(t, u, n + 1)
    BY <1>4, <2>1, <2>2 DEF Moved
  <2>4. QED
    BY <1>1, <2>2, <2>3
<1>8. CASE Live(t, n)
  <2>1. PICK k \in Keys, v \in Values \cup {Null} : k = t.buckets[n].key /\ v = t.buckets[n].val
    BY <1>2, <1>8 DEF Live, IsTable, Bucket
  <2>2. w = Insert(u, k, v)
    BY <1>3, <1>8, <2>1
  <2>3. /\ IsTable(w) /\ w.cap = u.cap /\ w.used \in {u.used, u.used + 1} /\ Found(w, k, v)
        /\ \A j \in Keys \ {k} : \A x : Found(u, j, x) => Found(w, j, x)
    BY <1>4, <2>2, InsertFinds
  <2>4. NoTombstones(w)
    BY <1>4, <2>2, <2>3, InsertFinds DEF NoTombstones, Moved
  <2>5. ASSUME w.used = Cardinality(LiveUpTo(t, n + 1)), NEW i \in LiveUpTo(t, n + 1)
        PROVE  Found(w, t.buckets[i].key, t.buckets[i].val)
    <3>1. w.used = u.used + 1 /\ u.used = Cardinality(LiveUpTo(t, n))
      BY <1>5, <1>6, <1>8, <2>3, <2>5
    <3>2. CASE i = n
      BY <2>1, <2>3, <3>2
    <3>3. CASE i # n
      <4>1. i \in LiveUpTo(t, n) /\ t.buckets[i].key \in Keys
        BY <1>2, <2>5, <3>3 DEF LiveUpTo, Live
      <4>2. Found(u, t.buckets[i].key, t.buckets[i].val)
        BY <1>4, <3>1, <4>1 DEF Moved
      <4>3. t.buckets[i].key # k
        <5> SUFFICES ASSUME t.buckets[i].key = k PROVE FALSE
          OBVIOUS
        <5>1. Found(u, k, t.buckets[i].val) /\ NoTombstones(u)
          BY <1>4, <4>2 DEF Moved
        <5>2. w.used = u.used
          BY <1>4, <2>2, <5>1, InsertAgain
        <5>3. QED
          BY <1>6, <3>1, <5>2
      <4>4. QED
        BY <2>3, <4>1, <4>2, <4>3
    <3>4. QED
      BY <3>2, <3>3
  <2>6. w.used <= Cardinality(LiveUpTo(t, n + 1))
    BY <1>5, <1>6, <1>8, <2>3
  <2>7. QED
    BY <1>1, <1>4, <2>3, <2>4, <2>5, <2>6 DEF Moved
<1>9. QED
  BY <1>7, <1>8

(* After the last step, every live entry has been moved. *)
LEMMA MovedAll ==
  ASSUME NEW t, IsTable(t), t.cap # 0
  PROVE  Moved(t, Rehash(t), t.cap)
<1> DEFINE Bad == {n \in 0 .. t.cap : ~Moved(t, Moves(t)[n], n)}
<1>1. t.cap \in Nat \ {0}
  BY DEF IsTable
<1>2. Bad = {}
  <2> SUFFICES ASSUME Bad # {} PROVE FALSE
    OBVIOUS
  <2>1. PICK n \in Bad : \A p \in Bad : n <= p
    <3>1. Bad \in SUBSET Nat
      OBVIOUS
    <3>2. QED
      BY <3>1, LeastElement
  <2>2. n # 0
    BY <2>1, MovedAtStart
  <2>3. n - 1 \in 0 .. t.cap - 1 /\ n - 1 \notin Bad /\ (n - 1) + 1 = n
    BY <1>1, <2>1, <2>2
  <2>4. Moved(t, Moves(t)[n - 1], n - 1)
    BY <1>1, <2>3
  <2>5. Moved(t, Moves(t)[(n - 1) + 1], (n - 1) + 1)
    BY <2>3, <2>4, MovedNext
  <2>6. QED
    BY <2>1, <2>3, <2>5
<1>3. t.cap \in 0 .. t.cap
  BY <1>1
<1>4. QED
  BY <1>2, <1>3 DEF Rehash

(* Growing loses nothing: when the assertion of rehash holds, every entry    *)
(* that was found in the old table is found in the new one.                  *)
LEMMA RehashKeeps ==
  ASSUME NEW t, IsTable(t), t.cap # 0
  PROVE  /\ HasRoom(Rehash(t)) /\ 2 * Rehash(t).used < Rehash(t).cap
         /\ Rehash(t).cap \in {t.cap, 2 * t.cap, 4 * t.cap}
         /\ Rehash(t).used = NumKeys(t) =>
              \A k \in Keys : \A v : Found(t, k, v) => Found(Rehash(t), k, v)
<1>1. t.cap \in Nat \ {0}
  BY DEF IsTable
<1>2. Moved(t, Rehash(t), t.cap)
  BY MovedAll
<1>3. HasRoom(Rehash(t)) /\ 2 * Rehash(t).used < Rehash(t).cap
  BY <1>1, <1>2, MovedRoom
<1>4. Rehash(t).cap \in {t.cap, 2 * t.cap, 4 * t.cap}
  BY <1>1, <1>2, LiveCount, NewCapSuffices DEF Moved
<1>5. ASSUME Rehash(t).used = NumKeys(t), NEW k \in Keys, NEW v, Found(t, k, v)
      PROVE  Found(Rehash(t), k, v)
  <2>1. PICK n \in 0 .. t.cap - 1 : t.buckets[Probe(t, k, n)].key = k
                                    /\ t.buckets[Probe(t, k, n)].val = v
    BY <1>5 DEF Found
  <2>2. Probe(t, k, n) \in 0 .. t.cap - 1
    BY <1>1, <2>1, ProbeInTable
  <2>3. Probe(t, k, n) \in LiveUpTo(t, t.cap)
    BY <2>1, <2>2 DEF LiveUpTo, Live
  <2>4. NumKeys(t) = Cardinality(LiveUpTo(t, t.cap))
    BY <1>1, LiveCount
  <2>5. QED
    BY <1>2, <1>5, <2>1, <2>3, <2>4 DEF Moved
<1>6. QED
  BY <1>3, <1>4, <1>5

-----------------------------------------------------------------------------
(* The theorems. *)

(* The inductive invariant: used is right and leaves a bucket free, and a    *)
(* search for a name that is in the table meets no empty bucket before it.   *)
MapInv ==
  /\ aborted \in BOOLEAN
  /\ contents \in [Keys -> Values \cup {Null}]
  /\ IsTable(table)
  /\ table.cap # 0 => /\ table.cap >= 4 /\ IsDoublingOfInitSize(table.cap)
                      /\ table.used < table.cap
  /\ \A k \in Keys : contents[k] # Null => table.cap # 0 /\ Found(table, k, contents[k])

(* What a put does to a table with room for two: the name is found with its  *)
(* new value, every other as before.                                         *)
LEMMA PutKeeps ==
  ASSUME MapInv, NEW t, HasRoom(t), t.cap >= 4, IsDoublingOfInitSize(t.cap), t.used + 1 < t.cap,
         \A j \in Keys : contents[j] # Null => Found(t, j, contents[j]),
         NEW k \in Keys, NEW v \in Values,
         table' = Insert(t, k, v), contents' = [contents EXCEPT ![k] = v], aborted' = aborted
  PROVE  MapInv'
<1>1. /\ IsTable(table') /\ table'.cap = t.cap /\ table'.used \in {t.used, t.used + 1}
      /\ Found(table', k, v)
      /\ \A j \in Keys \ {k} : \A w : Found(t, j, w) => Found(table', j, w)
  BY InsertFinds
<1>2. t.cap \in Nat /\ t.used \in Nat
  BY DEF HasRoom, IsTable
<1>3. contents' \in [Keys -> Values \cup {Null}]
      /\ \A j \in Keys : contents'[j] = IF j = k THEN v ELSE contents[j]
  BY DEF MapInv
<1>4. \A j \in Keys : contents'[j] # Null => table'.cap # 0 /\ Found(table', j, contents'[j])
  BY <1>1, <1>2, <1>3
<1>5. table'.cap >= 4 /\ IsDoublingOfInitSize(table'.cap) /\ table'.used < table'.cap
  BY <1>1, <1>2
<1>6. IsTable(table)'
  BY <1>1
<1>7. QED
  BY <1>3, <1>4, <1>5, <1>6 DEF MapInv, Found, Probe

(* A put without a rehash: the high mark leaves room for one more key. *)
LEMMA PutInv ==
  ASSUME MapInv, NEW k \in Keys, NEW v \in Values, Put(k, v)
  PROVE  MapInv'
<1>1. table' = Insert(IF table.cap = 0 THEN NewTable(InitSize) ELSE table, k, v)
      /\ contents' = [contents EXCEPT ![k] = v] /\ aborted' = aborted
  BY DEF Put
<1>2. CASE table.cap = 0
  <2>1. IsTable(NewTable(InitSize)) /\ NewTable(InitSize).cap = InitSize
        /\ NewTable(InitSize).used = 0
    BY InitSizeLeavesRoom, NewTableIsEmpty
  <2>2. IsDoublingOfInitSize(InitSize)
    BY Doublings
  <2>3. HasRoom(NewTable(InitSize))
    BY <2>1, InitSizeLeavesRoom DEF HasRoom
  <2>4. \A j \in Keys : contents[j] = Null
    BY <1>2 DEF MapInv
  <2>5. PICK t : t = NewTable(InitSize)
    OBVIOUS
  <2>6. /\ HasRoom(t) /\ t.cap >= 4 /\ IsDoublingOfInitSize(t.cap) /\ t.used + 1 < t.cap
        /\ table' = Insert(t, k, v)
    BY <1>1, <1>2, <2>1, <2>2, <2>3, <2>5, InitSizeLeavesRoom
  <2>7. QED
    BY <1>1, <2>4, <2>6, PutKeeps
<1>3. CASE table.cap # 0
  <2>1. table.cap \in Nat \ {0} /\ table.used \in Nat /\ table.cap >= 4
        /\ IsDoublingOfInitSize(table.cap)
        /\ IsTable(table) /\ table.used < table.cap
    BY <1>3 DEF MapInv, IsTable
  <2>2. table.used * 100 < HighWatermark * table.cap
    <3>1. ~((table.used * 100) \div table.cap >= HighWatermark)
      BY <1>3 DEF Put, NeedsRehash
    <3>2. (table.used * 100) \div table.cap \in Int
      BY <2>1
    <3>3. HighWatermark \in Nat
      BY DEF HighWatermark
    <3>4. (table.used * 100) \div table.cap < HighWatermark
      BY <3>1, <3>2, <3>3
    <3>5. QED
      BY <2>1, <3>3, <3>4, Percentage
  <2>3. table.used + 1 < table.cap
    BY <2>1, <2>2 DEF HighWatermark
  <2>4. table' = Insert(table, k, v) /\ HasRoom(table)
    BY <1>1, <1>3, <2>1 DEF HasRoom
  <2>5. \A j \in Keys : contents[j] # Null => Found(table, j, contents[j])
    BY DEF MapInv
  <2>6. QED
    BY <1>1, <2>1, <2>3, <2>4, <2>5, PutKeeps
<1>4. QED
  BY <1>2, <1>3

(* A put with one: the new table is a multiple of the old, and half empty. *)
LEMMA PutRehashingInv ==
  ASSUME MapInv, NEW k \in Keys, NEW v \in Values, PutRehashing(k, v)
  PROVE  MapInv'
<1>1. table.cap # 0 /\ table.cap \in Nat /\ IsTable(table) /\ table.cap >= 4
      /\ IsDoublingOfInitSize(table.cap)
  BY DEF MapInv, IsTable, PutRehashing, NeedsRehash
<1>2. PICK t2 : t2 = Rehash(table)
  OBVIOUS
<1>3. /\ HasRoom(t2) /\ 2 * t2.used < t2.cap
      /\ t2.cap \in {table.cap, 2 * table.cap, 4 * table.cap}
      /\ t2.used = NumKeys(table) => \A j \in Keys : \A w : Found(table, j, w) => Found(t2, j, w)
  BY <1>1, <1>2, RehashKeeps
<1>4. CASE t2.used = NumKeys(table)
  <2>1. table' = Insert(t2, k, v) /\ contents' = [contents EXCEPT ![k] = v] /\ aborted' = aborted
    BY <1>2, <1>4 DEF PutRehashing
  <2>2. t2.cap \in Nat /\ t2.used \in Nat /\ t2.cap >= 4 /\ t2.used + 1 < t2.cap
    BY <1>1, <1>3 DEF HasRoom, IsTable
  <2>3. IsDoublingOfInitSize(t2.cap)
    <3>1. IsDoublingOfInitSize(2 * table.cap) /\ IsDoublingOfInitSize(4 * table.cap)
      BY <1>1, Doublings
    <3>2. QED
      BY <1>1, <1>3, <3>1, Zenon
  <2>4. \A j \in Keys : contents[j] # Null => Found(t2, j, contents[j])
    BY <1>3, <1>4 DEF MapInv
  <2>5. QED
    BY <1>3, <2>1, <2>2, <2>3, <2>4, PutKeeps
<1>5. CASE t2.used # NumKeys(table)
  <2>1. aborted' = TRUE /\ table' = table /\ contents' = contents
    BY <1>2, <1>5 DEF PutRehashing
  <2>2. QED
    BY <2>1 DEF MapInv, IsTable, Taken, Found, Probe
<1>6. QED
  BY <1>4, <1>5

(* A tombstone ends no search, so that the names behind it are still found. *)
LEMMA DeleteInv ==
  ASSUME MapInv, NEW k \in Keys, Delete(k)
  PROVE  MapInv'
<1>1. PICK i \in Entry(table, k) : table' = [table EXCEPT !.buckets[i].key = Tombstone]
  BY DEF Delete
<1>2. contents' = [contents EXCEPT ![k] = Null] /\ aborted' = aborted
  BY DEF Delete
<1>3. table.cap # 0 /\ IsTable(table) /\ table.cap \in Nat \ {0} /\ table.used < table.cap
      /\ table.cap >= 4 /\ IsDoublingOfInitSize(table.cap)
  BY <1>1 DEF Entry, MapInv, IsTable
<1>4. i \in 0 .. table.cap - 1 /\ table.buckets[i].key = k
  <2>1. FirstEnd(table, k, {k, Null}) \in 0 .. table.cap - 1
    <3>1. HasRoom(table) /\ Null \in {k, Null}
      BY <1>3 DEF HasRoom
    <3>2. QED
      BY <3>1, SearchEnds
  <2>2. Probe(table, k, FirstEnd(table, k, {k, Null})) \in 0 .. table.cap - 1
    BY <1>3, <2>1, ProbeInTable
  <2>3. QED
    BY <1>1, <1>3, <2>2 DEF Entry
<1>5. table \in [cap : Nat, buckets : [0 .. table.cap - 1 -> Bucket], used : Nat]
  BY <1>3 DEF IsTable
<1>6. /\ table'.cap = table.cap /\ table'.used = table.used
      /\ table'.buckets = [table.buckets EXCEPT ![i].key = Tombstone]
      /\ table' = [cap |-> table'.cap, buckets |-> table'.buckets, used |-> table'.used]
  BY <1>1, <1>5
<1>7. \A j \in 0 .. table.cap - 1 : j # i => table'.buckets[j] = table.buckets[j]
  BY <1>5, <1>6
<1>8. table'.buckets[i].key = Tombstone /\ table'.buckets[i] \in Bucket
  BY <1>4, <1>5, <1>6 DEF Bucket
<1>9. table'.buckets \in [0 .. table.cap - 1 -> Bucket]
  BY <1>4, <1>5, <1>6, <1>8
<1>10. IsTable(table')
  <2>1. Taken(table') = Taken(table)
    BY <1>4, <1>6, <1>7, <1>8, MarkersAreNotKeys DEF Taken
  <2>2. table' \in [cap : Nat, buckets : [0 .. table'.cap - 1 -> Bucket], used : Nat]
    BY <1>5, <1>6, <1>9
  <2>3. QED
    BY <1>3, <1>6, <2>1, <2>2 DEF IsTable
<1>11. ASSUME NEW j \in Keys \ {k}, NEW w, Found(table, j, w)
       PROVE  Found(table', j, w)
  <2>1. PICK e \in 0 .. table.cap - 1 :
          /\ table.buckets[Probe(table, j, e)].key = j
          /\ table.buckets[Probe(table, j, e)].val = w
          /\ \A m \in 0 .. e - 1 : table.buckets[Probe(table, j, m)].key \notin {j, Null}
    BY <1>11 DEF Found
  <2>2. \A m : Probe(table', j, m) = Probe(table, j, m)
    BY <1>6 DEF Probe
  <2>3. Probe(table, j, e) \in 0 .. table.cap - 1 /\ Probe(table, j, e) # i
    BY <1>3, <1>4, <2>1, ProbeInTable
  <2>4. ASSUME NEW m \in 0 .. e - 1
        PROVE  table'.buckets[Probe(table', j, m)].key \notin {j, Null}
    <3>1. m \in Nat /\ Probe(table, j, m) \in 0 .. table.cap - 1
      BY <1>3, <2>1, ProbeInTable
    <3>2. table.buckets[Probe(table, j, m)].key \notin {j, Null}
      BY <2>1
    <3>3. QED
      BY <1>7, <1>8, <2>2, <3>1, <3>2, MarkersAreNotKeys
  <2>5. table'.buckets[Probe(table', j, e)].key = j /\ table'.buckets[Probe(table', j, e)].val = w
    BY <1>7, <2>1, <2>2, <2>3
  <2>6. QED
    BY <1>6, <2>1, <2>4, <2>5 DEF Found
<1>12. contents' \in [Keys -> Values \cup {Null}]
       /\ \A j \in Keys : contents'[j] = IF j = k THEN Null ELSE contents[j]
  BY <1>2 DEF MapInv
<1>13. \A j \in Keys : contents'[j] # Null => table'.cap # 0 /\ Found(table', j, contents'[j])
  BY <1>3, <1>6, <1>11, <1>12 DEF MapInv
<1>14. QED
  BY <1>2, <1>3, <1>6, <1>10, <1>12, <1>13 DEF MapInv, Found, Probe

(* The invariant is inductive. *)
LEMMA MapInvCorrect == Spec => []MapInv
<1>1. Init => MapInv
  <2> SUFFICES ASSUME Init PROVE MapInv
    OBVIOUS
  <2>1. IsTable(table) /\ table.cap = 0
    BY NewTableIsEmpty DEF Init
  <2>2. QED
    BY <2>1 DEF Init, MapInv
<1>2. MapInv /\ [Next]_vars => MapInv'
  <2> SUFFICES ASSUME MapInv, [Next]_vars PROVE MapInv'
    OBVIOUS
  <2>1. ASSUME NEW k \in Keys, NEW v \in Values, Put(k, v)
        PROVE  MapInv'
    BY <2>1, PutInv
  <2>2. ASSUME NEW k \in Keys, NEW v \in Values, PutRehashing(k, v)
        PROVE  MapInv'
    BY <2>2, PutRehashingInv
  <2>3. ASSUME NEW k \in Keys, Delete(k)
        PROVE  MapInv'
    BY <2>3, DeleteInv
  <2>4. CASE UNCHANGED vars
    BY <2>4 DEF vars, MapInv, IsTable, Taken, Found, Probe
  <2>5. QED
    BY <2>1, <2>2, <2>3, <2>4 DEF Next, Aborted
<1>3. QED
  BY <1>1, <1>2, PTL DEF Spec

(* Every table has a capacity of INIT_SIZE times a power of two, and every   *)
(* variable keeps its range (src/hashmap.c:28-51, 81-85).                    *)
THEOREM HashMapTyped == Spec => []TypeOK
<1>1. MapInv => TypeOK
  <2> SUFFICES ASSUME MapInv PROVE TypeOK
    OBVIOUS
  <2>1. /\ table.cap \in Nat /\ table.used = Cardinality(Taken(table))
        /\ table.buckets \in [0 .. table.cap - 1 -> Bucket]
    BY DEF MapInv, IsTable
  <2>2. table.used \in 0 .. table.cap
    BY <2>1, TakenIsFinite
  <2>3. QED
    BY <2>1, <2>2 DEF MapInv, TypeOK
<1>2. QED
  BY <1>1, MapInvCorrect, PTL

(* A probe loop always ends at a bucket: unreachable() is never executed,    *)
(* for every hash function, set of keys and sequence of calls                *)
(* (src/hashmap.c:63-75, 88-113).                                            *)
THEOREM SearchesAlwaysEnd == Spec => []SearchesEnd
<1>1. MapInv => SearchesEnd
  BY DEF MapInv, IsTable, Taken, SearchesEnd
<1>2. QED
  BY <1>1, MapInvCorrect, PTL

(* A name that was put and not deleted since is found with its last value,   *)
(* through collisions, wrap-around, tombstones and every rehash whose        *)
(* assertion holds (src/hashmap.c:29-52, 63-124).                            *)
THEOREM NamesAreFound == Spec => []PresentKeysFound
<1>1. MapInv => PresentKeysFound
  <2> SUFFICES ASSUME MapInv, NEW k \in Keys, contents[k] # Null
               PROVE  Get(table, k) = contents[k]
    BY DEF PresentKeysFound
  <2>1. IsTable(table) /\ table.cap # 0 /\ Found(table, k, contents[k])
    BY DEF MapInv
  <2>2. QED
    BY <2>1, FoundIsGot
<1>2. QED
  BY <1>1, MapInvCorrect, PTL
=============================================================================
