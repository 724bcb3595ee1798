---------------------------- MODULE AnalysisProof ----------------------------
(* Machine-checked proofs about Analysis.                                    *)
EXTENDS Analysis, LinearScanProof

-----------------------------------------------------------------------------
(* Recursive functions. *)

(* A loop that goes from x to next[x] until it is in Last has a result       *)
(* everywhere if every step goes down in rank.                               *)
LoopOf(D, Last, next, result, F) == F = [x \in D |-> IF x \in Last THEN result[x] ELSE F[next[x]]]

LEMMA LoopEnds ==
  ASSUME NEW D, NEW Last, NEW next, NEW result, NEW K \in Nat, NEW rank \in [D -> 0 .. K],
         \A x \in D \ Last : next[x] \in D /\ rank[next[x]] < rank[x]
  PROVE  \E F : LoopOf(D, Last, next, result, F)
<1> DEFINE Below(m) == {x \in D : rank[x] < m}
           Solves(F, m) == F = [x \in Below(m) |-> IF x \in Last THEN result[x] ELSE F[next[x]]]
           Bad == {m \in 0 .. K + 1 : ~ \E F : Solves(F, m)}
<1>1. Bad = {}
  <2> SUFFICES ASSUME Bad # {} PROVE FALSE
    OBVIOUS
  <2>1. PICK m \in Bad : \A p \in Bad : m <= p
    <3>1. Bad \in SUBSET Nat
      OBVIOUS
    <3> QED BY <3>1, LeastElement
  <2>2. m # 0
    <3> DEFINE F == [x \in {} |-> x]
    <3>1. Below(0) = {}
      OBVIOUS
    <3>2. Solves(F, 0)
      BY <3>1
    <3> QED BY <3>2
  <2>3. m - 1 \in 0 .. K + 1 /\ m \in Nat /\ m - 1 \notin Bad
    <3>1. m \in 0 .. K + 1 /\ m - 1 \in 0 .. K + 1
      BY <2>2
    <3> HIDE DEF Solves
    <3> QED BY <2>1, <3>1
  <2>4. PICK F : Solves(F, m - 1)
    BY <2>3
  <2> DEFINE G == [x \in Below(m) |-> IF x \in Last THEN result[x] ELSE F[next[x]]]
  <2>5. ASSUME NEW x \in Below(m), x \notin Last
        PROVE  F[next[x]] = G[next[x]]
    <3>1. x \in D /\ next[x] \in D /\ rank[next[x]] < rank[x] /\ rank[x] \in Nat /\ rank[next[x]] \in Nat
      BY <2>5
    <3>2. rank[x] < m
      OBVIOUS
    <3>3. next[x] \in Below(m - 1) /\ next[x] \in Below(m)
      BY <2>3, <3>1, <3>2
    <3> HIDE DEF Below
    <3>4. F[next[x]] = IF next[x] \in Last THEN result[next[x]] ELSE F[next[next[x]]]
      BY <2>4, <3>3
    <3> QED BY <3>3, <3>4
  <2> HIDE DEF Below
  <2>6. Solves(G, m)
    <3>1. \A x \in Below(m) : (IF x \in Last THEN result[x] ELSE F[next[x]])
                                = (IF x \in Last THEN result[x] ELSE G[next[x]])
      BY <2>5
    <3> QED BY <3>1
  <2> HIDE DEF G, Solves
  <2> QED BY <2>1, <2>6
<1>2. PICK F : Solves(F, K + 1)
  <2>1. K + 1 \in 0 .. K + 1
    OBVIOUS
  <2> HIDE DEF Solves
  <2> QED BY <1>1, <2>1
<1>3. Below(K + 1) = D
  OBVIOUS
<1> HIDE DEF Below
<1>4. LoopOf(D, Last, next, result, F)
  BY <1>2, <1>3 DEF LoopOf
<1> QED BY <1>4

(* What can be reached is the least set that holds the start and is closed   *)
(* under the edges.                                                          *)
ClosedUnder(succs, X) == \A b \in X : succs[b] \subseteq X

ClosureOf(succs, f) ==
  f = [S \in SUBSET DOMAIN succs |-> IF Follow(succs, S) = S THEN S ELSE f[Follow(succs, S)]]

Edges(n) == [1 .. n -> SUBSET (1 .. n)]

LEMMA FollowGrows ==
  ASSUME NEW n \in Nat, NEW succs \in Edges(n), NEW S \in SUBSET (1 .. n)
  PROVE  /\ DOMAIN succs = 1 .. n
         /\ S \subseteq Follow(succs, S)
         /\ Follow(succs, S) \in SUBSET (1 .. n)
         /\ Follow(succs, S) = S <=> ClosedUnder(succs, S)
         /\ \A X \in SUBSET (1 .. n) : S \subseteq X /\ ClosedUnder(succs, X) => Follow(succs, S) \subseteq X
BY DEF Follow, ClosedUnder, Edges

LEMMA ClosureExists ==
  ASSUME NEW n \in Nat, NEW succs \in Edges(n)
  PROVE  \E f : ClosureOf(succs, f)
<1> DEFINE B == 1 .. n
           D == SUBSET B
           Last == {S \in D : Follow(succs, S) = S}
           next == [S \in D |-> Follow(succs, S)]
           result == [S \in D |-> S]
           rank == [S \in D |-> Cardinality(B \ S)]
<1>1. IsFiniteSet(B) /\ Cardinality(B) = n
  BY FS_Interval
<1>2. ASSUME NEW S \in D
      PROVE  rank[S] \in 0 .. n /\ IsFiniteSet(B \ S)
  <2>1. B \ S \in SUBSET B
    OBVIOUS
  <2>2. IsFiniteSet(B \ S) /\ Cardinality(B \ S) <= Cardinality(B) /\ Cardinality(B \ S) \in Nat
    BY <1>1, <2>1, FS_Subset, FS_CardinalityType
  <2> QED BY <1>1, <2>2
<1>3. ASSUME NEW S \in D \ Last
      PROVE  next[S] \in D /\ rank[next[S]] < rank[S]
  <2>1. next[S] \in D /\ S \subseteq next[S] /\ next[S] # S
    BY FollowGrows
  <2>2. B \ next[S] \in SUBSET (B \ S) /\ B \ next[S] # B \ S
    BY <2>1
  <2>3. IsFiniteSet(B \ S) /\ IsFiniteSet(B \ next[S])
    BY <1>2, <2>1
  <2>4. /\ Cardinality(B \ next[S]) <= Cardinality(B \ S)
        /\ Cardinality(B \ next[S]) # Cardinality(B \ S)
    BY <2>2, <2>3, FS_Subset
  <2>5. rank[S] \in 0 .. n /\ rank[next[S]] \in 0 .. n
    BY <1>2, <2>1
  <2>6. rank[S] = Cardinality(B \ S) /\ rank[next[S]] = Cardinality(B \ next[S])
    BY <2>1
  <2>7. rank[next[S]] < rank[S]
    <3> HIDE DEF rank, next
    <3> QED BY <2>4, <2>5, <2>6
  <2> QED BY <2>1, <2>7
<1>4. rank \in [D -> 0 .. n]
  BY <1>2
<1> HIDE DEF rank
<1>5. PICK f : LoopOf(D, Last, next, result, f)
  <2>1. \A S \in D \ Last : next[S] \in D /\ rank[next[S]] < rank[S]
    BY <1>3
  <2> HIDE DEF next, result, Last, D
  <2> QED BY <1>4, <2>1, LoopEnds
<1>6. \A S \in D : (IF S \in Last THEN result[S] ELSE f[next[S]])
                     = (IF Follow(succs, S) = S THEN S ELSE f[Follow(succs, S)])
  OBVIOUS
<1>7. DOMAIN succs = B
  BY DEF Edges
<1>8. ClosureOf(succs, f)
  BY <1>5, <1>6, <1>7 DEF ClosureOf, LoopOf
<1> QED BY <1>8

LEMMA ReachIsLeast ==
  ASSUME NEW n \in Nat, NEW succs \in Edges(n), NEW S \in SUBSET (1 .. n)
  PROVE  /\ S \subseteq Reach(succs, S)
         /\ Reach(succs, S) \in SUBSET (1 .. n)
         /\ ClosedUnder(succs, Reach(succs, S))
         /\ \A X \in SUBSET (1 .. n) : S \subseteq X /\ ClosedUnder(succs, X) => Reach(succs, S) \subseteq X
<1> DEFINE B == 1 .. n
           Sound(T, R) == /\ T \subseteq R /\ R \in SUBSET B /\ ClosedUnder(succs, R)
                          /\ \A X \in SUBSET B : T \subseteq X /\ ClosedUnder(succs, X) => R \subseteq X
<1>1. PICK f : ClosureOf(succs, f)
  BY ClosureExists
<1>2. Closure(succs) = CHOOSE g : ClosureOf(succs, g)
  BY DEF Closure, ClosureOf
<1>3. ClosureOf(succs, Closure(succs))
  BY <1>1, <1>2
<1> DEFINE h == Closure(succs)
<1>4. ASSUME NEW T \in SUBSET B
      PROVE  h[T] = IF Follow(succs, T) = T THEN T ELSE h[Follow(succs, T)]
  <2>1. DOMAIN succs = B
    BY DEF Edges
  <2> QED BY <1>3, <2>1 DEF ClosureOf
<1> HIDE DEF h
<1> DEFINE Bad == {T \in SUBSET B : ~Sound(T, h[T])}
           Left(T) == Cardinality(B \ T)
           N == {Left(T) : T \in Bad}
<1>5. Bad = {}
  <2> SUFFICES ASSUME Bad # {} PROVE FALSE
    OBVIOUS
  <2>1. ASSUME NEW T \in SUBSET B
        PROVE  IsFiniteSet(B \ T) /\ Left(T) \in Nat
    <3>1. IsFiniteSet(B)
      BY FS_Interval
    <3> QED BY <3>1, FS_Subset, FS_CardinalityType
  <2>2. N \in SUBSET Nat /\ N # {}
    BY <2>1
  <2>3. PICK l \in N : \A m \in N : l <= m
    BY <2>2, LeastElement
  <2>4. PICK T \in Bad : l = Left(T)
    OBVIOUS
  <2> DEFINE more == Follow(succs, T)
  <2>5. /\ T \in SUBSET B /\ more \in SUBSET B /\ T \subseteq more
        /\ more = T <=> ClosedUnder(succs, T)
        /\ \A X \in SUBSET B : T \subseteq X /\ ClosedUnder(succs, X) => more \subseteq X
    BY FollowGrows
  <2>6. h[T] = IF more = T THEN T ELSE h[more]
    BY <1>4, <2>5
  <2> HIDE DEF more
  <2>7. more # T
    <3> SUFFICES ASSUME more = T PROVE FALSE
      OBVIOUS
    <3>1. Sound(T, h[T])
      BY <2>5, <2>6
    <3> QED BY <3>1
  <2>8. Left(more) < Left(T)
    <3>1. B \ more \in SUBSET (B \ T) /\ B \ more # B \ T
      BY <2>5, <2>7
    <3>2. IsFiniteSet(B \ T)
      BY <2>1, <2>5
    <3>3. /\ Cardinality(B \ more) <= Cardinality(B \ T)
          /\ Cardinality(B \ more) # Cardinality(B \ T)
          /\ Cardinality(B \ more) \in Nat /\ Cardinality(B \ T) \in Nat
      BY <3>1, <3>2, FS_Subset, FS_CardinalityType
    <3> QED BY <3>3
  <2>9. more \notin Bad
    <3> SUFFICES ASSUME more \in Bad PROVE FALSE
      OBVIOUS
    <3>1. Left(more) \in N
      OBVIOUS
    <3>2. l <= Left(more) /\ Left(more) \in Nat /\ Left(T) \in Nat
      BY <2>1, <2>3, <2>5, <3>1
    <3> HIDE DEF Left
    <3> QED BY <2>4, <2>8, <3>2
  <2>10. Sound(more, h[more]) /\ h[T] = h[more]
    BY <2>5, <2>6, <2>7, <2>9
  <2>11. Sound(T, h[T])
    BY <2>5, <2>10
  <2> QED BY <2>11
<1>6. Reach(succs, S) = h[S]
  BY DEF Reach, h
<1> QED BY <1>5, <1>6

-----------------------------------------------------------------------------
(* The tree. *)

(* Every block's idom has a lower rank than the block. *)
Tree(n, idom, rank, K) ==
  /\ n \in Nat \ {0} /\ K \in Nat
  /\ idom \in [1 .. n -> 0 .. n]
  /\ rank \in [1 .. n -> 0 .. K]
  /\ \A b \in 1 .. n : Up(idom, b) # 0 => rank[Up(idom, b)] < rank[b]

LEMMA UpType ==
  ASSUME NEW n \in Nat, NEW idom \in [1 .. n -> 0 .. n], NEW b \in 1 .. n
  PROVE  Up(idom, b) \in 0 .. n /\ (Up(idom, b) # 0 => Up(idom, b) \in 1 .. n)
BY DEF Up

(* Induction on the rank. *)
LEMMA LowestRank ==
  ASSUME NEW n \in Nat, NEW K \in Nat, NEW rank \in [1 .. n -> 0 .. K], NEW S \in SUBSET (1 .. n), S # {}
  PROVE  \E b \in S : \A c \in S : rank[b] <= rank[c]
<1> DEFINE N == {rank[b] : b \in S}
<1>1. N \in SUBSET Nat /\ N # {}
  <2>1. \A b \in 1 .. n : rank[b] \in Nat
    OBVIOUS
  <2> QED BY <2>1
<1>2. PICK m \in N : \A k \in N : m <= k
  BY <1>1, LeastElement
<1>3. PICK b \in S : m = rank[b]
  OBVIOUS
<1>4. \A c \in S : rank[c] \in N
  OBVIOUS
<1> QED BY <1>2, <1>3, <1>4

(* What is on b's way up the tree, b included. *)
Above(idom, b) == {a \in DOMAIN idom : ir_dom_dominates(idom, a, b)}

LEMMA ClimbUnfolds ==
  ASSUME NEW n \in Nat, NEW idom \in [1 .. n -> 0 .. n], NEW a, NEW b \in 1 .. n
  PROVE  ir_dom_dominates(idom, a, b)
           <=> b = a \/ (Up(idom, b) # 0 /\ ir_dom_dominates(idom, a, Up(idom, b)))
<1> DEFINE B == 1 .. n
           Climbs(f) == f = [c \in DOMAIN idom |-> c = a \/ (Up(idom, c) # 0 /\ f[Up(idom, c)])]
           Closed(X) == a \in X /\ \A y \in B : Up(idom, y) # 0 /\ Up(idom, y) \in X => y \in X
           Least == {c \in B : \A X : Closed(X) => c \in X}
           g == [c \in B |-> c \in Least]
<1>1. DOMAIN idom = B
  OBVIOUS
<1>2. \A c \in B : Up(idom, c) \in 0 .. n
  BY UpType
<1>3. ASSUME NEW c \in B
      PROVE  c \in Least <=> c = a \/ (Up(idom, c) # 0 /\ Up(idom, c) \in Least)
  <2>1. c = a => c \in Least
    OBVIOUS
  <2>2. ASSUME Up(idom, c) # 0, Up(idom, c) \in Least
        PROVE  c \in Least
    BY <2>2
  <2>3. ASSUME c \in Least, c # a
        PROVE  Up(idom, c) # 0 /\ Up(idom, c) \in Least
    <3> DEFINE X == {a} \cup {y \in B : Up(idom, y) # 0 /\ Up(idom, y) \in Least}
    <3>1. ASSUME NEW y \in B, Up(idom, y) # 0, Up(idom, y) \in X
          PROVE  y \in X
      <4>1. Up(idom, y) \in B
        BY <1>2, <3>1
      <4>2. CASE Up(idom, y) = a
        <5>1. Up(idom, y) \in Least
          BY <4>1, <4>2
        <5> QED BY <3>1, <5>1
      <4>3. CASE Up(idom, y) # a
        <5>1. /\ Up(idom, Up(idom, y)) # 0
              /\ Up(idom, Up(idom, y)) \in Least
          BY <3>1, <4>3
        <5>2. Up(idom, y) \in Least
          BY <4>1, <5>1
        <5> QED BY <3>1, <5>2
      <4> QED BY <4>2, <4>3
    <3>2. Closed(X)
      BY <3>1
    <3> HIDE DEF X
    <3>3. c \in X
      BY <2>3, <3>2
    <3> QED BY <2>3, <3>3 DEF X
  <2> QED BY <2>1, <2>2, <2>3
<1> HIDE DEF Least
<1>4. Climbs(g)
  <2>1. \A c \in B : (c \in Least) = (c = a \/ (Up(idom, c) # 0 /\ g[Up(idom, c)]))
    <3> SUFFICES ASSUME NEW c \in B
                 PROVE  (c \in Least) = (c = a \/ (Up(idom, c) # 0 /\ g[Up(idom, c)]))
      OBVIOUS
    <3>1. Up(idom, c) # 0 => Up(idom, c) \in B
      BY <1>2
    <3>2. Up(idom, c) # 0 => (g[Up(idom, c)] <=> Up(idom, c) \in Least)
      BY <3>1
    <3> QED BY <1>3, <3>2
  <2> QED BY <1>1, <2>1
<1>5. Climbing(idom, a) = CHOOSE f : Climbs(f)
  BY DEF Climbing
<1>6. Climbs(Climbing(idom, a))
  <2> HIDE DEF Climbs, g
  <2> QED BY <1>4, <1>5
<1>7. Climbing(idom, a)[b] <=> (b = a \/ (Up(idom, b) # 0 /\ Climbing(idom, a)[Up(idom, b)]))
  <2> DEFINE h == Climbing(idom, a)
  <2>1. h = [c \in B |-> c = a \/ (Up(idom, c) # 0 /\ h[Up(idom, c)])]
    BY <1>1, <1>6
  <2> HIDE DEF h
  <2>2. h[b] <=> (b = a \/ (Up(idom, b) # 0 /\ h[Up(idom, b)]))
    BY <2>1
  <2> QED BY <2>2 DEF h
<1> QED BY <1>7 DEF ir_dom_dominates

LEMMA AboveUnfolds ==
  ASSUME NEW n \in Nat, NEW idom \in [1 .. n -> 0 .. n], NEW b \in 1 .. n
  PROVE  /\ Above(idom, b) = {b} \cup (IF Up(idom, b) = 0 THEN {} ELSE Above(idom, Up(idom, b)))
         /\ Above(idom, b) \in SUBSET (1 .. n)
BY ClimbUnfolds DEF Above

LEMMA AboveFacts ==
  ASSUME NEW n, NEW idom, NEW rank, NEW K, Tree(n, idom, rank, K), NEW b \in 1 .. n
  PROVE  /\ Above(idom, b) \in SUBSET (1 .. n)
         /\ \A a \in Above(idom, b) : a = b \/ rank[a] < rank[b]
         /\ \A a \in Above(idom, b) : Above(idom, a) \subseteq Above(idom, b)
<1> DEFINE Right(c) == /\ \A a \in Above(idom, c) : a = c \/ rank[a] < rank[c]
                       /\ \A a \in Above(idom, c) : Above(idom, a) \subseteq Above(idom, c)
           Bad == {c \in 1 .. n : ~Right(c)}
<1>1. Bad = {}
  <2> SUFFICES ASSUME Bad # {} PROVE FALSE
    OBVIOUS
  <2>1. PICK c \in Bad : \A d \in Bad : rank[c] <= rank[d]
    BY LowestRank DEF Tree
  <2>a. /\ c \in 1 .. n /\ n \in Nat
        /\ idom \in [1 .. n -> 0 .. n]
        /\ \A d \in 1 .. n : rank[d] \in Nat
        /\ Up(idom, c) # 0 => rank[Up(idom, c)] < rank[c]
    BY DEF Tree
  <2> DEFINE u == Up(idom, c)
  <2> HIDE DEF Right
  <2>2. Above(idom, c) = {c} \cup (IF u = 0 THEN {} ELSE Above(idom, u))
    BY <2>a, AboveUnfolds
  <2>3. u # 0 => u \in 1 .. n /\ rank[u] < rank[c] /\ rank[u] \in Nat /\ rank[c] \in Nat
    BY <2>a, UpType
  <2>4. u # 0 => Right(u)
    <3> HIDE DEF u
    <3> QED BY <2>1, <2>3
  <2>5. u # 0 => Above(idom, u) \in SUBSET (1 .. n)
    BY <2>3, AboveUnfolds DEF Tree
  <2>6. \A a \in 1 .. n : rank[a] \in Nat
    BY DEF Tree
  <2> HIDE DEF u
  <2>7. Right(c)
    BY <2>2, <2>3, <2>4, <2>5, <2>6 DEF Right
  <2> HIDE DEF Right
  <2> QED BY <2>1, <2>7
<1> HIDE DEF Right
<1>2. Right(b)
  BY <1>1
<1> QED BY <1>2, AboveUnfolds DEF Right, Tree

-----------------------------------------------------------------------------
(* The fingers of Intersect. *)

Met(idom, f, g) ==
  IF f = 0 \/ g = 0 THEN 1
  ELSE IF f = g THEN f
  ELSE IF f > g THEN Intersect(idom, Up(idom, f), g)
  ELSE Intersect(idom, f, Up(idom, g))

(* They meet, since each step goes up the tree. *)
LEMMA FingersMove ==
  ASSUME NEW n, NEW idom, NEW rank, NEW K, Tree(n, idom, rank, K), NEW f \in 0 .. n, NEW g \in 0 .. n
  PROVE  Intersect(idom, f, g) = Met(idom, f, g)
<1> DEFINE F == 0 .. n
           D == F \X F
           Last == {at \in D : at[1] = 0 \/ at[2] = 0 \/ at[1] = at[2]}
           result == [at \in D |-> IF at[1] = 0 \/ at[2] = 0 THEN 1 ELSE at[1]]
           next == [at \in D |-> IF at[1] > at[2] THEN <<Up(idom, at[1]), at[2]>> ELSE <<at[1], Up(idom, at[2])>>]
           height == [x \in F |-> IF x = 0 THEN 0 ELSE rank[x] + 1]
           sum == [at \in D |-> height[at[1]] + height[at[2]]]
           Meets(h) == h = [at \in D |-> IF at[1] = 0 \/ at[2] = 0 THEN 1
                                         ELSE IF at[1] = at[2] THEN at[1]
                                         ELSE IF at[1] > at[2] THEN h[<<Up(idom, at[1]), at[2]>>]
                                         ELSE h[<<at[1], Up(idom, at[2])>>]]
<1>1. /\ n \in Nat /\ K \in Nat
      /\ idom \in [1 .. n -> 0 .. n]
      /\ \A b \in 1 .. n : rank[b] \in 0 .. K
      /\ \A b \in 1 .. n : Up(idom, b) # 0 => rank[Up(idom, b)] < rank[b]
  BY DEF Tree
<1>2. ASSUME NEW x \in F, x # 0
      PROVE  Up(idom, x) \in F /\ height[Up(idom, x)] < height[x]
  <2>1. x \in 1 .. n
    BY <1>2
  <2>2. Up(idom, x) \in F /\ (Up(idom, x) # 0 => Up(idom, x) \in 1 .. n)
    BY <1>1, <2>1, UpType
  <2>3. Up(idom, x) # 0 => rank[Up(idom, x)] < rank[x] /\ rank[Up(idom, x)] \in 0 .. K
    BY <1>1, <2>1, <2>2
  <2>4. rank[x] \in 0 .. K /\ height[x] = rank[x] + 1
    BY <1>1, <2>1
  <2>5. height[Up(idom, x)] = IF Up(idom, x) = 0 THEN 0 ELSE rank[Up(idom, x)] + 1
    BY <2>2
  <2> HIDE DEF height
  <2> QED BY <2>2, <2>3, <2>4, <2>5
<1>3. \A x \in F : height[x] \in 0 .. K + 1
  BY <1>1
<1> HIDE DEF height
<1>4. ASSUME NEW at \in D \ Last
      PROVE  next[at] \in D /\ sum[next[at]] < sum[at]
  <2>1. at[1] \in F /\ at[2] \in F /\ at[1] # 0 /\ at[2] # 0
    OBVIOUS
  <2>2. /\ Up(idom, at[1]) \in F /\ height[Up(idom, at[1])] < height[at[1]]
        /\ Up(idom, at[2]) \in F /\ height[Up(idom, at[2])] < height[at[2]]
    BY <1>2, <2>1
  <2>3. /\ height[at[1]] \in Int /\ height[at[2]] \in Int
        /\ height[Up(idom, at[1])] \in Int /\ height[Up(idom, at[2])] \in Int
    BY <1>1, <1>3, <2>1, <2>2
  <2>4. CASE at[1] > at[2]
    <3>1. next[at] = <<Up(idom, at[1]), at[2]>> /\ next[at] \in D
      BY <2>1, <2>2, <2>4
    <3>2. sum[next[at]] = height[Up(idom, at[1])] + height[at[2]] /\ sum[at] = height[at[1]] + height[at[2]]
      BY <3>1
    <3> HIDE DEF sum, next, D
    <3> QED BY <2>2, <2>3, <3>1, <3>2
  <2>5. CASE ~(at[1] > at[2])
    <3>1. next[at] = <<at[1], Up(idom, at[2])>> /\ next[at] \in D
      BY <2>1, <2>2, <2>5
    <3>2. sum[next[at]] = height[at[1]] + height[Up(idom, at[2])] /\ sum[at] = height[at[1]] + height[at[2]]
      BY <3>1
    <3> HIDE DEF sum, next, D
    <3> QED BY <2>2, <2>3, <3>1, <3>2
  <2> QED BY <2>4, <2>5
<1>5. sum \in [D -> 0 .. 2 * K + 2]
  <2> SUFFICES ASSUME NEW at \in D PROVE height[at[1]] + height[at[2]] \in 0 .. 2 * K + 2
    OBVIOUS
  <2>1. height[at[1]] \in 0 .. K + 1 /\ height[at[2]] \in 0 .. K + 1
    BY <1>3
  <2> QED BY <1>1, <2>1
<1>6. PICK h : LoopOf(D, Last, next, result, h)
  <2>1. \A at \in D \ Last : next[at] \in D /\ sum[next[at]] < sum[at]
    BY <1>4
  <2>2. 2 * K + 2 \in Nat
    BY <1>1
  <2> HIDE DEF D, Last, next, result, sum
  <2> QED BY <1>5, <2>1, <2>2, LoopEnds
<1>7. Meets(h)
  <2>1. \A at \in D : (IF at \in Last THEN result[at] ELSE h[next[at]])
                        = (IF at[1] = 0 \/ at[2] = 0 THEN 1
                           ELSE IF at[1] = at[2] THEN at[1]
                           ELSE IF at[1] > at[2] THEN h[<<Up(idom, at[1]), at[2]>>]
                           ELSE h[<<at[1], Up(idom, at[2])>>])
    OBVIOUS
  <2> QED BY <1>6, <2>1 DEF LoopOf
<1>8. Meets(Fingers(idom))
  <2>1. {0} \cup DOMAIN idom = F
    BY <1>1
  <2>2. Fingers(idom) = CHOOSE m : Meets(m)
    BY <2>1 DEF Fingers
  <2> HIDE DEF Meets
  <2> QED BY <1>7, <2>2
<1> DEFINE m == Fingers(idom)
<1>9. <<f, g>> \in D
  OBVIOUS
<1>10. m[<<f, g>>] = IF f = 0 \/ g = 0 THEN 1 ELSE IF f = g THEN f
                     ELSE IF f > g THEN m[<<Up(idom, f), g>>] ELSE m[<<f, Up(idom, g)>>]
  <2>1. Meets(m)
    BY <1>8
  <2> HIDE DEF m
  <2> QED BY <1>9, <2>1
<1> QED BY <1>10 DEF Intersect, Met

(* Induction over the tree, and over the steps of the fingers. *)
LEMMA TreeInduction ==
  ASSUME NEW n, NEW idom, NEW rank, NEW K, Tree(n, idom, rank, K), NEW Good,
         \A b \in 1 .. n : (Up(idom, b) # 0 => Up(idom, b) \in Good) => b \in Good
  PROVE  \A b \in 1 .. n : b \in Good
<1> DEFINE Bad == {b \in 1 .. n : b \notin Good}
<1> SUFFICES ASSUME Bad # {} PROVE FALSE
  OBVIOUS
<1>1. /\ n \in Nat /\ K \in Nat
      /\ idom \in [1 .. n -> 0 .. n]
      /\ rank \in [1 .. n -> 0 .. K]
      /\ \A b \in 1 .. n : Up(idom, b) # 0 => rank[Up(idom, b)] < rank[b]
  BY DEF Tree
<1>2. PICK b \in Bad : \A c \in Bad : rank[b] <= rank[c]
  BY <1>1, LowestRank
<1>3. Up(idom, b) # 0 => Up(idom, b) \in 1 .. n /\ rank[Up(idom, b)] < rank[b]
  BY <1>1, UpType
<1>4. Up(idom, b) # 0 => ~(rank[b] <= rank[Up(idom, b)])
  BY <1>1, <1>3
<1>5. Up(idom, b) # 0 => Up(idom, b) \in Good
  BY <1>2, <1>3, <1>4
<1> QED BY <1>5

LEMMA FingersInduction ==
  ASSUME NEW n, NEW idom, NEW rank, NEW K, Tree(n, idom, rank, K), NEW Good,
         \A f, g \in 0 .. n :
           /\ f # 0 /\ g # 0 /\ f > g => <<Up(idom, f), g>> \in Good
           /\ f # 0 /\ g # 0 /\ f < g => <<f, Up(idom, g)>> \in Good
           => <<f, g>> \in Good
  PROVE  \A f, g \in 0 .. n : <<f, g>> \in Good
<1> DEFINE F == 0 .. n
           height == [x \in F |-> IF x = 0 THEN 0 ELSE rank[x] + 1]
           Bad == {at \in F \X F : at \notin Good}
           N == {height[at[1]] + height[at[2]] : at \in Bad}
<1> SUFFICES ASSUME Bad # {} PROVE FALSE
  OBVIOUS
<1>1. /\ n \in Nat /\ K \in Nat
      /\ idom \in [1 .. n -> 0 .. n]
      /\ \A b \in 1 .. n : rank[b] \in 0 .. K
      /\ \A b \in 1 .. n : Up(idom, b) # 0 => rank[Up(idom, b)] < rank[b]
  BY DEF Tree
<1>2. ASSUME NEW x \in F, x # 0
      PROVE  Up(idom, x) \in F /\ height[Up(idom, x)] < height[x]
  <2>1. x \in 1 .. n
    BY <1>2
  <2>2. Up(idom, x) \in F /\ (Up(idom, x) # 0 => Up(idom, x) \in 1 .. n)
    BY <1>1, <2>1, UpType
  <2>3. Up(idom, x) # 0 => rank[Up(idom, x)] < rank[x] /\ rank[Up(idom, x)] \in 0 .. K
    BY <1>1, <2>1, <2>2
  <2>4. rank[x] \in 0 .. K /\ height[x] = rank[x] + 1
    BY <1>1, <2>1
  <2>5. height[Up(idom, x)] = IF Up(idom, x) = 0 THEN 0 ELSE rank[Up(idom, x)] + 1
    BY <2>2
  <2> HIDE DEF height
  <2> QED BY <2>2, <2>3, <2>4, <2>5
<1>3. \A x \in F : height[x] \in Nat
  BY <1>1
<1> HIDE DEF height
<1>4. N \in SUBSET Nat /\ N # {}
  BY <1>3
<1>5. PICK k \in N : \A l \in N : k <= l
  BY <1>4, LeastElement
<1>6. PICK at \in Bad : k = height[at[1]] + height[at[2]]
  OBVIOUS
<1>7. PICK f \in F, g \in F : at = <<f, g>>
  OBVIOUS
<1>8. k = height[f] + height[g] /\ <<f, g>> \notin Good /\ height[f] \in Nat /\ height[g] \in Nat
  BY <1>3, <1>6, <1>7
<1>9. ASSUME NEW x \in F, NEW y \in F, height[x] + height[y] < height[f] + height[g]
      PROVE  <<x, y>> \in Good
  <2> SUFFICES ASSUME <<x, y>> \notin Good PROVE FALSE
    OBVIOUS
  <2>1. <<x, y>> \in Bad
    OBVIOUS
  <2>2. height[x] + height[y] \in N
    BY <2>1
  <2>3. height[x] \in Nat /\ height[y] \in Nat
    BY <1>3
  <2> HIDE DEF N, Bad
  <2> QED BY <1>5, <1>8, <1>9, <2>2, <2>3
<1>10. f # 0 /\ g # 0 /\ f > g => <<Up(idom, f), g>> \in Good
  BY <1>2, <1>3, <1>8, <1>9
<1>11. f # 0 /\ g # 0 /\ f < g => <<f, Up(idom, g)>> \in Good
  BY <1>2, <1>3, <1>8, <1>9
<1> QED BY <1>8, <1>10, <1>11

(* Where they meet is above both, or else the entry. *)
LEMMA IntersectSound ==
  ASSUME NEW n, NEW idom, NEW rank, NEW K, Tree(n, idom, rank, K), NEW f \in 1 .. n, NEW g \in 1 .. n
  PROVE  /\ Intersect(idom, f, g) \in 1 .. n
         /\ \/ Intersect(idom, f, g) = 1
            \/ Intersect(idom, f, g) \in Above(idom, f) \cap Above(idom, g)
<1> DEFINE Sound(x, y) == \/ Intersect(idom, x, y) = 1
                          \/ x # 0 /\ y # 0 /\ Intersect(idom, x, y) \in Above(idom, x) \cap Above(idom, y)
           Good == {at \in (0 .. n) \X (0 .. n) : Sound(at[1], at[2])}
<1>1. n \in Nat \ {0} /\ idom \in [1 .. n -> 0 .. n]
  BY DEF Tree
<1>2. ASSUME NEW x \in 1 .. n
      PROVE  /\ x \in Above(idom, x)
             /\ Up(idom, x) \in 0 .. n
             /\ Up(idom, x) # 0 => Above(idom, Up(idom, x)) \subseteq Above(idom, x)
  BY <1>1, UpType, AboveUnfolds
<1>3. ASSUME NEW x \in 0 .. n, NEW y \in 0 .. n,
             x # 0 /\ y # 0 /\ x > y => <<Up(idom, x), y>> \in Good,
             x # 0 /\ y # 0 /\ x < y => <<x, Up(idom, y)>> \in Good
      PROVE  <<x, y>> \in Good
  <2> SUFFICES Sound(x, y)
    OBVIOUS
  <2>1. Intersect(idom, x, y) = Met(idom, x, y)
    BY FingersMove
  <2>2. CASE x = 0 \/ y = 0
    BY <2>1, <2>2 DEF Met
  <2>3. CASE x # 0 /\ y # 0 /\ x = y
    BY <1>2, <2>1, <2>3 DEF Met
  <2>4. CASE x # 0 /\ y # 0 /\ x > y
    <3>1. Sound(Up(idom, x), y)
      BY <1>3, <2>4
    <3>2. x \in 1 .. n
      BY <2>4
    <3>3. Intersect(idom, x, y) = Intersect(idom, Up(idom, x), y)
      BY <2>1, <2>4 DEF Met
    <3> QED BY <1>2, <2>4, <3>1, <3>2, <3>3
  <2>5. CASE x # 0 /\ y # 0 /\ x < y
    <3>1. Sound(x, Up(idom, y))
      BY <1>3, <2>5
    <3>2. y \in 1 .. n
      BY <2>5
    <3>3. Intersect(idom, x, y) = Intersect(idom, x, Up(idom, y))
      BY <2>1, <2>5 DEF Met
    <3> QED BY <1>2, <2>5, <3>1, <3>2, <3>3
  <2> QED BY <1>1, <2>2, <2>3, <2>4, <2>5
<1> HIDE DEF Good
<1>4. \A x, y \in 0 .. n : <<x, y>> \in Good
  BY <1>3, FingersInduction
<1>5. Sound(f, g)
  <2>1. f \in 0 .. n /\ g \in 0 .. n
    OBVIOUS
  <2>2. <<f, g>> \in Good
    BY <1>4, <2>1
  <2> QED BY <2>2 DEF Good
<1> QED BY <1>1, <1>5, AboveUnfolds

(* A block d above both is above where they meet, if no block below d that   *)
(* the fingers pass is listed before d.                                      *)
ListedFrom(idom, d, f) == \A x \in Above(idom, f) : d \in Above(idom, x) => d <= x

LEMMA IntersectKeeps ==
  ASSUME NEW n, NEW idom, NEW rank, NEW K, Tree(n, idom, rank, K), NEW f \in 1 .. n, NEW g \in 1 .. n,
         NEW d \in Above(idom, f) \cap Above(idom, g), ListedFrom(idom, d, f), ListedFrom(idom, d, g)
  PROVE  d \in Above(idom, Intersect(idom, f, g))
<1> DEFINE Asked(x) == x # 0 /\ d \in Above(idom, x) /\ ListedFrom(idom, d, x)
           Kept(x, y) == Asked(x) /\ Asked(y) => d \in Above(idom, Intersect(idom, x, y))
           Good == {at \in (0 .. n) \X (0 .. n) : Kept(at[1], at[2])}
<1>1. n \in Nat \ {0} /\ idom \in [1 .. n -> 0 .. n]
  BY DEF Tree
<1>2. ASSUME NEW x \in 1 .. n, Asked(x)
      PROVE  /\ d <= x /\ d \in 1 .. n
             /\ x # d => Up(idom, x) \in 0 .. n /\ Asked(Up(idom, x))
  <2>1. /\ Above(idom, x) = {x} \cup (IF Up(idom, x) = 0 THEN {} ELSE Above(idom, Up(idom, x)))
        /\ Above(idom, x) \in SUBSET (1 .. n)
    BY <1>1, AboveUnfolds
  <2>2. d <= x /\ d \in 1 .. n
    BY <1>2, <2>1 DEF ListedFrom
  <2>3. ASSUME x # d PROVE Up(idom, x) \in 0 .. n /\ Asked(Up(idom, x))
    <3>1. Up(idom, x) # 0 /\ Up(idom, x) \in 0 .. n
      BY <1>1, <1>2, <2>1, <2>3, UpType
    <3>2. Above(idom, Up(idom, x)) \subseteq Above(idom, x)
      BY <2>1, <3>1
    <3> QED BY <1>2, <2>1, <2>3, <3>1, <3>2 DEF ListedFrom
  <2> QED BY <2>2, <2>3
<1> HIDE DEF Asked
<1>3. ASSUME NEW x \in 0 .. n, NEW y \in 0 .. n,
             x # 0 /\ y # 0 /\ x > y => <<Up(idom, x), y>> \in Good,
             x # 0 /\ y # 0 /\ x < y => <<x, Up(idom, y)>> \in Good
      PROVE  <<x, y>> \in Good
  <2> SUFFICES ASSUME Asked(x), Asked(y) PROVE d \in Above(idom, Intersect(idom, x, y))
    OBVIOUS
  <2>1. Intersect(idom, x, y) = Met(idom, x, y)
    BY FingersMove
  <2>2. x \in 1 .. n /\ y \in 1 .. n
    BY DEF Asked
  <2>3. CASE x = y
    BY <2>1, <2>2, <2>3 DEF Met, Asked
  <2>4. CASE x > y
    <3>1. Kept(Up(idom, x), y)
      BY <1>3, <2>2, <2>4
    <3>2. d <= y /\ d \in 1 .. n
      BY <1>2, <2>2
    <3>3. x # d
      BY <2>4, <3>2
    <3>4. Asked(Up(idom, x))
      BY <1>2, <2>2, <3>3
    <3>5. Intersect(idom, x, y) = Intersect(idom, Up(idom, x), y)
      BY <2>1, <2>2, <2>4 DEF Met
    <3> QED BY <3>1, <3>4, <3>5
  <2>5. CASE x < y
    <3>1. Kept(x, Up(idom, y))
      BY <1>3, <2>2, <2>5
    <3>2. d <= x /\ d \in 1 .. n
      BY <1>2, <2>2
    <3>3. y # d
      BY <2>5, <3>2
    <3>4. Asked(Up(idom, y))
      BY <1>2, <2>2, <3>3
    <3>5. Intersect(idom, x, y) = Intersect(idom, x, Up(idom, y))
      BY <2>1, <2>2, <2>5 DEF Met
    <3> QED BY <3>1, <3>4, <3>5
  <2> QED BY <2>2, <2>3, <2>4, <2>5
<1> HIDE DEF Good
<1>4. \A x, y \in 0 .. n : <<x, y>> \in Good
  BY <1>3, FingersInduction
<1>5. Kept(f, g)
  <2>1. f \in 0 .. n /\ g \in 0 .. n
    OBVIOUS
  <2>2. <<f, g>> \in Good
    BY <1>4, <2>1
  <2> QED BY <2>2 DEF Good
<1> QED BY <1>5 DEF Asked

-----------------------------------------------------------------------------
(* Intersecting over all processed predecessors. *)

LEMMA LowestIn ==
  ASSUME NEW n \in Nat, NEW S \in SUBSET (1 .. n), S # {}
  PROVE  LowestOf(S) \in S
<1>1. S \in SUBSET Nat
  OBVIOUS
<1>2. \E b \in S : \A d \in S : b <= d
  BY <1>1, LeastElement
<1> QED BY <1>2 DEF LowestOf

(* The number of a set's elements goes down. *)
LEMMA WithoutLowest ==
  ASSUME NEW n \in Nat, NEW S \in SUBSET (1 .. n)
  PROVE  /\ Cardinality(S) \in 0 .. n
         /\ S # {} => /\ S \ {LowestOf(S)} \in SUBSET (1 .. n)
                      /\ Cardinality(S \ {LowestOf(S)}) < Cardinality(S)
<1>1. IsFiniteSet(1 .. n) /\ Cardinality(1 .. n) = n
  BY FS_Interval
<1>2. IsFiniteSet(S) /\ Cardinality(S) <= n /\ Cardinality(S) \in Nat
  BY <1>1, FS_Subset, FS_CardinalityType
<1>3. S # {} => Cardinality(S \ {LowestOf(S)}) = Cardinality(S) - 1
  BY <1>2, LowestIn, FS_RemoveElement
<1>4. S \ {LowestOf(S)} \in SUBSET (1 .. n)
  OBVIOUS
<1>5. \A k, l \in Int : k = l - 1 => k < l
  OBVIOUS
<1>6. S # {} => Cardinality(S \ {LowestOf(S)}) < Cardinality(S)
  <2>1. Cardinality(S) \in Int /\ Cardinality(S) - 1 \in Int
    BY <1>2
  <2> QED BY <1>3, <1>5, <2>1
<1>7. Cardinality(S) \in 0 .. n
  BY <1>2
<1> QED BY <1>4, <1>6, <1>7

LEMMA RestInduction ==
  ASSUME NEW n \in Nat, NEW Good,
         \A S \in SUBSET (1 .. n) : (S # {} => S \ {LowestOf(S)} \in Good) => S \in Good
  PROVE  \A S \in SUBSET (1 .. n) : S \in Good
<1> DEFINE Bad == {S \in SUBSET (1 .. n) : S \notin Good}
           N == {Cardinality(S) : S \in Bad}
<1> SUFFICES ASSUME Bad # {} PROVE FALSE
  OBVIOUS
<1>a. \A S \in SUBSET (1 .. n) : Cardinality(S) \in Nat
  <2>1. \A S \in SUBSET (1 .. n) : Cardinality(S) \in 0 .. n
    BY WithoutLowest
  <2> QED BY <2>1
<1>1. N \in SUBSET Nat /\ N # {}
  BY <1>a
<1>2. PICK k \in N : \A l \in N : k <= l
  BY <1>1, LeastElement
<1>3. PICK S \in Bad : k = Cardinality(S)
  OBVIOUS
<1>4. ASSUME S # {} PROVE S \ {LowestOf(S)} \in Good
  <2> SUFFICES ASSUME S \ {LowestOf(S)} \notin Good PROVE FALSE
    OBVIOUS
  <2>1. S \ {LowestOf(S)} \in Bad
    OBVIOUS
  <2>2. Cardinality(S \ {LowestOf(S)}) \in N
    BY <2>1
  <2>3. /\ Cardinality(S \ {LowestOf(S)}) < Cardinality(S)
        /\ Cardinality(S) \in Nat /\ Cardinality(S \ {LowestOf(S)}) \in Nat
    <3>1. S \in SUBSET (1 .. n) /\ S \ {LowestOf(S)} \in SUBSET (1 .. n)
      OBVIOUS
    <3> HIDE DEF Bad, N
    <3>2. Cardinality(S \ {LowestOf(S)}) < Cardinality(S)
      BY <1>4, <3>1, WithoutLowest
    <3> QED BY <1>a, <3>1, <3>2
  <2> HIDE DEF N, Bad
  <2> QED BY <1>2, <1>3, <2>2, <2>3
<1> QED BY <1>4

Joined(idom, p, b) == IF p = b THEN p ELSE Intersect(idom, p, b)
Over(idom, S, b) == Intersected(idom)[<<S, b>>]

LEMMA OverUnfolds ==
  ASSUME NEW n, NEW idom, NEW rank, NEW K, Tree(n, idom, rank, K), NEW S \in SUBSET (1 .. n), NEW b \in 1 .. n
  PROVE  Over(idom, S, b) = IF S = {} THEN b ELSE Over(idom, S \ {LowestOf(S)}, Joined(idom, LowestOf(S), b))
<1> DEFINE B == 1 .. n
           D == (SUBSET B) \X B
           Last == {at \in D : at[1] = {}}
           result == [at \in D |-> at[2]]
           next == [at \in D |-> <<at[1] \ {LowestOf(at[1])}, Joined(idom, LowestOf(at[1]), at[2])>>]
           left == [at \in D |-> Cardinality(at[1])]
           Folds(h) == h = [at \in D |-> IF at[1] = {} THEN at[2]
                              ELSE h[<<at[1] \ {LowestOf(at[1])}, Joined(idom, LowestOf(at[1]), at[2])>>]]
<1>1. n \in Nat \ {0} /\ DOMAIN idom = B
  BY DEF Tree
<1>2. ASSUME NEW p \in B, NEW c \in B
      PROVE  Joined(idom, p, c) \in B
  BY IntersectSound DEF Joined
<1>3. ASSUME NEW at \in D \ Last
      PROVE  next[at] \in D /\ left[next[at]] < left[at]
  <2>1. at[1] \in SUBSET B /\ at[2] \in B /\ at[1] # {} /\ n \in Nat
    BY <1>1
  <2>2. LowestOf(at[1]) \in B
    BY <2>1, LowestIn
  <2>3. /\ at[1] \ {LowestOf(at[1])} \in SUBSET B
        /\ Cardinality(at[1] \ {LowestOf(at[1])}) < Cardinality(at[1])
    BY <2>1, WithoutLowest
  <2>4. Joined(idom, LowestOf(at[1]), at[2]) \in B
    BY <1>2, <2>1, <2>2
  <2>5. next[at] = <<at[1] \ {LowestOf(at[1])}, Joined(idom, LowestOf(at[1]), at[2])>> /\ next[at] \in D
    BY <2>3, <2>4
  <2>6. left[next[at]] = Cardinality(at[1] \ {LowestOf(at[1])}) /\ left[at] = Cardinality(at[1])
    BY <2>5
  <2> HIDE DEF left, next, D
  <2> QED BY <2>3, <2>5, <2>6
<1>4. left \in [D -> 0 .. n]
  BY <1>1, WithoutLowest
<1>5. PICK h : LoopOf(D, Last, next, result, h)
  <2>1. \A at \in D \ Last : next[at] \in D /\ left[next[at]] < left[at]
    BY <1>3
  <2> HIDE DEF D, Last, next, result, left
  <2> QED BY <1>1, <1>4, <2>1, LoopEnds
<1>6. Folds(h)
  <2>1. \A at \in D : (IF at \in Last THEN result[at] ELSE h[next[at]])
                        = (IF at[1] = {} THEN at[2]
                           ELSE h[<<at[1] \ {LowestOf(at[1])}, Joined(idom, LowestOf(at[1]), at[2])>>])
    OBVIOUS
  <2> QED BY <1>5, <2>1 DEF LoopOf
<1>7. Folds(Intersected(idom))
  <2>1. Intersected(idom) = CHOOSE m : Folds(m)
    BY <1>1 DEF Intersected, Joined
  <2> HIDE DEF Folds
  <2> QED BY <1>6, <2>1
<1> DEFINE m == Intersected(idom)
<1>8. <<S, b>> \in D
  OBVIOUS
<1>9. m[<<S, b>>] = IF S = {} THEN b ELSE m[<<S \ {LowestOf(S)}, Joined(idom, LowestOf(S), b)>>]
  <2>1. Folds(m)
    BY <1>7
  <2> HIDE DEF m
  <2> QED BY <1>8, <2>1
<1> QED BY <1>9 DEF Over

(* The result is above all of them, or the entry. *)
LEMMA FoldSound ==
  ASSUME NEW n, NEW idom, NEW rank, NEW K, Tree(n, idom, rank, K), idom[1] = 1,
         NEW S \in SUBSET (1 .. n), NEW s \in 1 .. n
  PROVE  /\ Over(idom, S, s) \in 1 .. n
         /\ \/ Over(idom, S, s) = 1
            \/ Over(idom, S, s) \in Above(idom, s) /\ \A p \in S : Over(idom, S, s) \in Above(idom, p)
<1> DEFINE Sound(T, t) == /\ Over(idom, T, t) \in 1 .. n
                          /\ \/ Over(idom, T, t) = 1
                             \/ Over(idom, T, t) \in Above(idom, t) /\ \A p \in T : Over(idom, T, t) \in Above(idom, p)
           Good == {T \in SUBSET (1 .. n) : \A t \in 1 .. n : Sound(T, t)}
<1>1. n \in Nat \ {0} /\ n \in Nat /\ idom \in [1 .. n -> 0 .. n] /\ 1 \in 1 .. n
  BY DEF Tree
<1>2. Above(idom, 1) = {1}
  BY <1>1, AboveUnfolds DEF Up
<1>3. \A b \in 1 .. n : b \in Above(idom, b)
  BY <1>1, AboveUnfolds
<1>4. \A b \in 1 .. n : \A a \in Above(idom, b) : Above(idom, a) \subseteq Above(idom, b)
  BY AboveFacts
<1>5. ASSUME NEW T \in SUBSET (1 .. n), T # {} => T \ {LowestOf(T)} \in Good
      PROVE  T \in Good
  <2> SUFFICES ASSUME NEW t \in 1 .. n PROVE Sound(T, t)
    OBVIOUS
  <2>1. CASE T = {}
    <3>1. Over(idom, T, t) = t
      BY <2>1, OverUnfolds
    <3> QED BY <1>3, <2>1, <3>1
  <2>2. CASE T # {}
    <3>a. Over(idom, T, t) = IF T = {} THEN t ELSE Over(idom, T \ {LowestOf(T)}, Joined(idom, LowestOf(T), t))
      BY OverUnfolds
    <3> DEFINE p == LowestOf(T)
               j == Joined(idom, p, t)
    <3>1. p \in T /\ p \in 1 .. n
      BY <1>1, <2>2, LowestIn
    <3>2. Over(idom, T, t) = Over(idom, T \ {p}, j)
      BY <2>2, <3>a
    <3> HIDE DEF p
    <3>3. j \in 1 .. n /\ (j = 1 \/ j \in Above(idom, p) \cap Above(idom, t))
      BY <1>3, <3>1, IntersectSound DEF Joined
    <3>4. Sound(T \ {p}, j)
      BY <1>5, <2>2, <3>3 DEF p
    <3> HIDE DEF j
    <3>5. CASE j = 1
      BY <1>2, <3>2, <3>4, <3>5
    <3>6. CASE j # 1
      <4>1. Above(idom, j) \subseteq Above(idom, p) /\ Above(idom, j) \subseteq Above(idom, t)
        BY <1>4, <3>1, <3>3, <3>6
      <4> QED BY <3>2, <3>4, <4>1
    <3> QED BY <3>5, <3>6
  <2> QED BY <2>1, <2>2
<1> HIDE DEF Good
<1>6. S \in Good
  BY <1>1, <1>5, RestInduction
<1> QED BY <1>6 DEF Good

LEMMA FoldKeeps ==
  ASSUME NEW n, NEW idom, NEW rank, NEW K, Tree(n, idom, rank, K), idom[1] = 1,
         NEW S \in SUBSET (1 .. n), NEW s \in 1 .. n, NEW d,
         \A p \in S \cup {s} : d \in Above(idom, p) /\ ListedFrom(idom, d, p)
  PROVE  d \in Above(idom, Over(idom, S, s))
<1> DEFINE Asked(p) == d \in Above(idom, p) /\ ListedFrom(idom, d, p)
           Kept(T, t) == (\A p \in T \cup {t} : Asked(p)) => d \in Above(idom, Over(idom, T, t))
           Good == {T \in SUBSET (1 .. n) : \A t \in 1 .. n : Kept(T, t)}
<1>1. n \in Nat \ {0} /\ n \in Nat /\ idom \in [1 .. n -> 0 .. n] /\ 1 \in 1 .. n
  BY DEF Tree
<1>2. Above(idom, 1) = {1}
  BY <1>1, AboveUnfolds DEF Up
<1>3. \A b \in 1 .. n : \A a \in Above(idom, b) : Above(idom, a) \subseteq Above(idom, b)
  BY AboveFacts
<1>4. ASSUME NEW p \in 1 .. n, NEW t \in 1 .. n, Asked(p), Asked(t)
      PROVE  Asked(Intersect(idom, p, t)) /\ Intersect(idom, p, t) \in 1 .. n
  <2> DEFINE j == Intersect(idom, p, t)
  <2>1. j \in 1 .. n /\ (j = 1 \/ j \in Above(idom, p) \cap Above(idom, t))
    BY IntersectSound
  <2>2. d \in Above(idom, j)
    BY <1>4, IntersectKeeps
  <2> HIDE DEF j
  <2>5. Asked(j)
    <3>1. CASE j = 1
      BY <1>1, <1>2, <2>2, <3>1 DEF ListedFrom
    <3>2. CASE j # 1
      BY <1>3, <1>4, <2>1, <2>2, <3>2 DEF ListedFrom
    <3> QED BY <3>1, <3>2
  <2> QED BY <2>1, <2>5 DEF j
<1> HIDE DEF Asked
<1>5. ASSUME NEW T \in SUBSET (1 .. n), T # {} => T \ {LowestOf(T)} \in Good
      PROVE  T \in Good
  <2> SUFFICES ASSUME NEW t \in 1 .. n, \A p \in T \cup {t} : Asked(p)
               PROVE  d \in Above(idom, Over(idom, T, t))
    OBVIOUS
  <2>1. CASE T = {}
    <3>1. Over(idom, T, t) = t
      BY <2>1, OverUnfolds
    <3> QED BY <3>1 DEF Asked
  <2>2. CASE T # {}
    <3>a. Over(idom, T, t) = IF T = {} THEN t ELSE Over(idom, T \ {LowestOf(T)}, Joined(idom, LowestOf(T), t))
      BY OverUnfolds
    <3> DEFINE p == LowestOf(T)
               j == Joined(idom, p, t)
    <3>1. p \in T /\ p \in 1 .. n
      BY <1>1, <2>2, LowestIn
    <3>2. Over(idom, T, t) = Over(idom, T \ {p}, j)
      BY <2>2, <3>a
    <3> HIDE DEF p
    <3>3. j \in 1 .. n /\ Asked(j)
      BY <1>4, <3>1 DEF Joined
    <3>4. Kept(T \ {p}, j)
      BY <1>5, <2>2, <3>3 DEF p
    <3> HIDE DEF j
    <3> QED BY <3>2, <3>3, <3>4
  <2> QED BY <2>1, <2>2
<1> HIDE DEF Good
<1>6. S \in Good
  BY <1>1, <1>5, RestInduction
<1> QED BY <1>6 DEF Good, Asked

-----------------------------------------------------------------------------
(* The graph, and what is on every path. *)
SuccsOf(G) == [b \in DOMAIN G |-> G[b].succs]
Reached(G) == {b \in DOMAIN G : G[b].reachable}
Without(G, a) == [x \in DOMAIN G |-> IF x = a THEN {} ELSE G[x].succs \ {a}]
Avoids(G, a) == Reach(Without(G, a), {1} \ {a})
DominatesIn(G, a, b) == a = b \/ b \notin Avoids(G, a)

Graph(G, n) ==
  /\ n \in Nat \ {0} /\ DOMAIN G = 1 .. n /\ Len(G) = n
  /\ \A b \in 1 .. n : G[b].succs \in SUBSET (1 .. n) /\ G[b].preds = {p \in 1 .. n : b \in G[p].succs}
  /\ Reached(G) = Reach(SuccsOf(G), {1})

LEMMA ReachedFacts ==
  ASSUME NEW G, NEW n, Graph(G, n)
  PROVE  /\ 1 \in Reached(G) /\ Reached(G) \in SUBSET (1 .. n)
         /\ \A b \in Reached(G) : G[b].succs \subseteq Reached(G)
<1>1. n \in Nat /\ DOMAIN G = 1 .. n /\ 1 \in 1 .. n /\ \A b \in 1 .. n : G[b].succs \in SUBSET (1 .. n)
  BY DEF Graph
<1>2. SuccsOf(G) \in Edges(n) /\ \A b \in 1 .. n : SuccsOf(G)[b] = G[b].succs
  BY <1>1 DEF SuccsOf, Edges
<1>3. /\ {1} \subseteq Reach(SuccsOf(G), {1})
      /\ Reach(SuccsOf(G), {1}) \in SUBSET (1 .. n)
      /\ ClosedUnder(SuccsOf(G), Reach(SuccsOf(G), {1}))
  BY <1>1, <1>2, ReachIsLeast
<1>4. Reached(G) = Reach(SuccsOf(G), {1})
  BY DEF Graph
<1> QED BY <1>2, <1>3, <1>4 DEF ClosedUnder

LEMMA AvoidsFacts ==
  ASSUME NEW G, NEW n, Graph(G, n), NEW a \in 1 .. n
  PROVE  /\ a # 1 => 1 \in Avoids(G, a)
         /\ Avoids(G, a) \in SUBSET (1 .. n)
         /\ \A x \in Avoids(G, a) : x # a => G[x].succs \ {a} \subseteq Avoids(G, a)
         /\ \A X \in SUBSET (1 .. n) :
              /\ a # 1 => 1 \in X
              /\ \A x \in X : x # a => G[x].succs \ {a} \subseteq X
              => Avoids(G, a) \subseteq X
<1>1. n \in Nat /\ DOMAIN G = 1 .. n /\ 1 \in 1 .. n /\ \A b \in 1 .. n : G[b].succs \in SUBSET (1 .. n)
  BY DEF Graph
<1> DEFINE W == Without(G, a)
<1>2. W \in Edges(n) /\ \A b \in 1 .. n : W[b] = IF b = a THEN {} ELSE G[b].succs \ {a}
  BY <1>1 DEF Without, Edges
<1>3. {1} \ {a} \in SUBSET (1 .. n)
  BY <1>1
<1> HIDE DEF W
<1>4. /\ {1} \ {a} \subseteq Reach(W, {1} \ {a})
      /\ Reach(W, {1} \ {a}) \in SUBSET (1 .. n)
      /\ ClosedUnder(W, Reach(W, {1} \ {a}))
      /\ \A X \in SUBSET (1 .. n) : {1} \ {a} \subseteq X /\ ClosedUnder(W, X) => Reach(W, {1} \ {a}) \subseteq X
  BY <1>1, <1>2, <1>3, ReachIsLeast
<1>5. Avoids(G, a) = Reach(W, {1} \ {a})
  BY DEF Avoids, W
<1>6. a # 1 => 1 \in Avoids(G, a)
  BY <1>4, <1>5
<1>7. ASSUME NEW x \in Avoids(G, a), x # a
      PROVE  G[x].succs \ {a} \subseteq Avoids(G, a)
  <2> DEFINE A == Avoids(G, a)
  <2>1. x \in A /\ A \in SUBSET (1 .. n) /\ ClosedUnder(W, A)
    BY <1>4, <1>5, <1>7
  <2> HIDE DEF A
  <2>2. x \in 1 .. n /\ W[x] \subseteq A
    BY <2>1 DEF ClosedUnder
  <2> USE DEF A
  <2> QED BY <1>2, <1>7, <2>2
<1>8. ASSUME NEW X \in SUBSET (1 .. n), a # 1 => 1 \in X, \A x \in X : x # a => G[x].succs \ {a} \subseteq X
      PROVE  Avoids(G, a) \subseteq X
  <2>1. ClosedUnder(W, X)
    BY <1>2, <1>8 DEF ClosedUnder
  <2> QED BY <1>4, <1>5, <1>8, <2>1
<1> QED BY <1>4, <1>5, <1>6, <1>7, <1>8

(* What is on every path to a block is on every path to those before it. *)
LEMMA DominatesBefore ==
  ASSUME NEW G, NEW n, Graph(G, n), NEW a \in 1 .. n, NEW p \in 1 .. n, NEW b \in G[p].succs,
         a # b, DominatesIn(G, a, b)
  PROVE  DominatesIn(G, a, p)
BY AvoidsFacts DEF DominatesIn

LEMMA DominatesEntry ==
  ASSUME NEW G, NEW n, Graph(G, n), NEW a \in 1 .. n
  PROVE  /\ DominatesIn(G, a, 1) => a = 1
         /\ \A b \in 1 .. n : DominatesIn(G, 1, b)
<1>1. a # 1 => 1 \in Avoids(G, a)
  BY AvoidsFacts
<1>2. 1 \in 1 .. n
  BY DEF Graph
<1>3. Avoids(G, 1) \subseteq {}
  <2>1. \A X \in SUBSET (1 .. n) : (1 # 1 => 1 \in X) /\ (\A x \in X : x # 1 => G[x].succs \ {1} \subseteq X)
                                     => Avoids(G, 1) \subseteq X
    BY <1>2, AvoidsFacts
  <2>2. \A X \in SUBSET (1 .. n) : X = {} => Avoids(G, 1) \subseteq X
    BY <2>1
  <2>3. {} \in SUBSET (1 .. n)
    OBVIOUS
  <2> HIDE <2>1
  <2> QED BY <2>2, <2>3, Zenon
<1> QED BY <1>1, <1>3 DEF DominatesIn

-----------------------------------------------------------------------------
(* The tree while it is built.                                              *)

(* Every processed block was reached from the entry along a path of         *)
(* processed blocks, which it was given when it was first processed: from a *)
(* predecessor, whose way up the tree was then on that predecessor's path,  *)
(* and stays there however often the block is given a new idom.  So the     *)
(* blocks above a block are on its path, and the tree has no cycle.         *)
GrownTree(G, n, idom, path, rank, K) ==
  /\ n \in Nat \ {0} /\ K \in Nat
  /\ idom \in [1 .. n -> 0 .. n] /\ rank \in [1 .. n -> 0 .. K] /\ path \in [1 .. n -> SUBSET (1 .. n)]
  /\ idom[1] = 1 /\ path[1] = {1}
  /\ \A b \in 1 .. n : idom[b] # 0 =>
       /\ b \in Reached(G) /\ rank[b] < K
       /\ b \in path[b] /\ 1 \in path[b]
       /\ \A a \in path[b] : idom[a] # 0 /\ path[a] \subseteq path[b] /\ (a = b \/ rank[a] < rank[b])
       /\ b # 1 => \E p \in G[b].preds : /\ idom[p] # 0 /\ rank[p] < rank[b]
                                         /\ path[b] = path[p] \cup {b} /\ idom[b] \in path[p]

LEMMA GrownIsTree ==
  ASSUME NEW G, NEW n, Graph(G, n), NEW idom, NEW path, NEW rank, NEW K, GrownTree(G, n, idom, path, rank, K)
  PROVE  /\ Tree(n, idom, rank, K)
         /\ \A b \in 1 .. n : idom[b] # 0 /\ b # 1 => Up(idom, b) = idom[b] /\ idom[idom[b]] # 0
         /\ \A b \in 1 .. n : idom[b] # 0 =>
              /\ Above(idom, b) \subseteq path[b]
              /\ 1 \in Above(idom, b)
              /\ \A a \in Above(idom, b) : idom[a] # 0
<1>1. /\ n \in Nat \ {0} /\ n \in Nat /\ K \in Nat
      /\ idom \in [1 .. n -> 0 .. n]
      /\ rank \in [1 .. n -> 0 .. K]
      /\ path \in [1 .. n -> SUBSET (1 .. n)]
      /\ idom[1] = 1 /\ path[1] = {1} /\ 1 \in 1 .. n
      /\ \A b \in 1 .. n : rank[b] \in Nat
  BY DEF GrownTree
<1>2. \A b \in 1 .. n : G[b].preds \in SUBSET (1 .. n)
  BY DEF Graph
<1>3. ASSUME NEW b \in 1 .. n, idom[b] # 0, b # 1
      PROVE  /\ Up(idom, b) = idom[b] /\ idom[b] \in 1 .. n /\ idom[idom[b]] # 0
             /\ rank[idom[b]] < rank[b] /\ path[idom[b]] \subseteq path[b] /\ b \in path[b]
  <2>1. PICK p \in G[b].preds : idom[p] # 0 /\ rank[p] < rank[b] /\ path[b] = path[p] \cup {b} /\ idom[b] \in path[p]
    BY <1>3 DEF GrownTree
  <2>2. p \in 1 .. n /\ \A a \in path[p] : idom[a] # 0 /\ path[a] \subseteq path[p] /\ (a = p \/ rank[a] < rank[p])
    BY <1>2, <2>1 DEF GrownTree
  <2>3. idom[b] \in 1 .. n /\ idom[idom[b]] # 0 /\ path[idom[b]] \subseteq path[b] /\ b \in path[b]
    BY <1>1, <2>1, <2>2
  <2>4. rank[idom[b]] < rank[b]
    BY <1>1, <2>1, <2>2, <2>3
  <2>5. idom[b] # b
    BY <1>1, <2>3, <2>4
  <2> QED BY <2>3, <2>4, <2>5 DEF Up
<1>4. \A b \in 1 .. n : idom[b] = 0 \/ b = 1 => Up(idom, b) = 0
  BY <1>1 DEF Up
<1>5. Tree(n, idom, rank, K)
  BY <1>1, <1>3, <1>4 DEF Tree
<1> DEFINE Right(b) == idom[b] # 0 => /\ Above(idom, b) \subseteq path[b]
                                      /\ 1 \in Above(idom, b)
                                      /\ \A a \in Above(idom, b) : idom[a] # 0
           Good == {b \in 1 .. n : Right(b)}
<1>6. ASSUME NEW b \in 1 .. n, Up(idom, b) # 0 => Up(idom, b) \in Good
      PROVE  b \in Good
  <2>1. Above(idom, b) = {b} \cup (IF Up(idom, b) = 0 THEN {} ELSE Above(idom, Up(idom, b)))
    BY <1>1, AboveUnfolds
  <2>2. CASE idom[b] = 0
    BY <2>2
  <2>3. CASE idom[b] # 0 /\ b = 1
    <3>1. Above(idom, 1) = {1}
      BY <1>4, <2>1, <2>3
    <3> QED BY <1>1, <2>3, <3>1
  <2>4. CASE idom[b] # 0 /\ b # 1
    <3>1. /\ Up(idom, b) = idom[b] /\ idom[b] \in 1 .. n /\ idom[idom[b]] # 0
          /\ path[idom[b]] \subseteq path[b] /\ b \in path[b]
      BY <1>3, <2>4
    <3>2. Right(idom[b])
      BY <1>6, <2>4, <3>1
    <3>3. Above(idom, b) = {b} \cup Above(idom, idom[b])
      BY <2>1, <2>4, <3>1
    <3> QED BY <2>4, <3>1, <3>2, <3>3
  <2> QED BY <2>2, <2>3, <2>4
<1> HIDE DEF Good
<1>7. \A b \in 1 .. n : b \in Good
  BY <1>5, <1>6, TreeInduction
<1> QED BY <1>3, <1>5, <1>7 DEF Good

(* A new idom is above every processed predecessor. *)
LEMMA NewIdomIsAbove ==
  ASSUME NEW G, NEW n, Graph(G, n), NEW idom, NEW path, NEW rank, NEW K, GrownTree(G, n, idom, path, rank, K),
         NEW b \in 1 .. n
  PROVE  LET S == {p \in G[b].preds : idom[p] # 0} IN
         /\ S = {} => NewIdom(G, idom, b) = 0
         /\ S # {} => /\ NewIdom(G, idom, b) \in 1 .. n
                      /\ \A p \in S : NewIdom(G, idom, b) \in Above(idom, p)
<1> DEFINE S == {p \in G[b].preds : idom[p] # 0}
<1>1. n \in Nat /\ idom[1] = 1 /\ S \in SUBSET (1 .. n) /\ Tree(n, idom, rank, K)
  <2>1. Tree(n, idom, rank, K)
    BY GrownIsTree
  <2>2. S \in SUBSET (1 .. n)
    BY DEF Graph
  <2>3. n \in Nat /\ idom[1] = 1
    BY DEF GrownTree
  <2> QED BY <2>1, <2>2, <2>3
<1>2. S = {} => NewIdom(G, idom, b) = 0
  BY DEF NewIdom
<1>3. ASSUME S # {}
      PROVE  /\ NewIdom(G, idom, b) \in 1 .. n
             /\ \A p \in S : NewIdom(G, idom, b) \in Above(idom, p)
  <2>1. LowestOf(S) \in S
    BY <1>1, <1>3, LowestIn
  <2>2. NewIdom(G, idom, b) = Over(idom, S, LowestOf(S))
    BY <1>3 DEF NewIdom, Over
  <2>3. \A p \in S : 1 \in Above(idom, p)
    BY <1>1, GrownIsTree
  <2> HIDE DEF S
  <2>4. /\ Over(idom, S, LowestOf(S)) \in 1 .. n
        /\ \/ Over(idom, S, LowestOf(S)) = 1
           \/ \A p \in S : Over(idom, S, LowestOf(S)) \in Above(idom, p)
    BY <1>1, <2>1, FoldSound
  <2> QED BY <2>2, <2>3, <2>4
<1> QED BY <1>2, <1>3

(* The entry is never given another idom, nor is what cannot be reached. *)
Asks(G, idom, b) == b # 1 /\ b \in Reached(G) /\ \E p \in G[b].preds : idom[p] # 0

LEMMA ProcessedIs ==
  ASSUME NEW G, NEW n, Graph(G, n), NEW idom, NEW path, NEW rank, NEW K, GrownTree(G, n, idom, path, rank, K),
         NEW b \in 1 .. n
  PROVE  Processed(G, idom, b) = IF Asks(G, idom, b) THEN [idom EXCEPT ![b] = NewIdom(G, idom, b)] ELSE idom
<1>1. b \in Reached(G) <=> G[b].reachable
  BY DEF Graph, Reached
<1>2. \A x \in 1 .. n : x # 0
  OBVIOUS
<1> DEFINE S == {p \in G[b].preds : idom[p] # 0}
<1>3. S # {} <=> \E p \in G[b].preds : idom[p] # 0
  OBVIOUS
<1>4. (S = {} => NewIdom(G, idom, b) = 0) /\ (S # {} => NewIdom(G, idom, b) \in 1 .. n)
  BY NewIdomIsAbove
<1> HIDE DEF S
<1> QED BY <1>1, <1>2, <1>3, <1>4 DEF Processed, Asks

LEMMA GrownKeeps ==
  ASSUME NEW G, NEW n, Graph(G, n), NEW idom, NEW path, NEW rank, NEW K, GrownTree(G, n, idom, path, rank, K),
         NEW b \in 1 .. n
  PROVE  \E path2, rank2, K2 : GrownTree(G, n, Processed(G, idom, b), path2, rank2, K2)
<1>1. CASE ~Asks(G, idom, b)
  <2>1. Processed(G, idom, b) = idom
    BY <1>1, ProcessedIs
  <2> QED BY <2>1
<1>2. CASE Asks(G, idom, b)
  <2> DEFINE S == {p \in G[b].preds : idom[p] # 0}
             new == NewIdom(G, idom, b)
             idom2 == [idom EXCEPT ![b] = new]
  <2>1. Processed(G, idom, b) = idom2
    BY <1>2, ProcessedIs
  <2>2. b # 1 /\ b \in Reached(G) /\ S # {} /\ S \in SUBSET (1 .. n)
    BY <1>2 DEF Asks, Graph
  <2>3. new \in 1 .. n /\ \A p \in S : new \in Above(idom, p)
    BY <2>2, NewIdomIsAbove
  <2>4. \A p \in S : Above(idom, p) \subseteq path[p]
    BY <2>2, GrownIsTree
  <2>5. \A p \in S : new \in path[p] /\ idom[p] # 0
    BY <2>3, <2>4
  <2>6. /\ n \in Nat \ {0} /\ K \in Nat
        /\ idom \in [1 .. n -> 0 .. n] /\ rank \in [1 .. n -> 0 .. K] /\ path \in [1 .. n -> SUBSET (1 .. n)]
        /\ idom[1] = 1 /\ path[1] = {1}
        /\ \A x \in 1 .. n : rank[x] \in Nat
    BY DEF GrownTree
  <2>7. ASSUME NEW x \in 1 .. n, idom[x] # 0
        PROVE  /\ x \in Reached(G) /\ rank[x] < K
               /\ x \in path[x] /\ 1 \in path[x]
               /\ \A a \in path[x] : idom[a] # 0 /\ path[a] \subseteq path[x] /\ (a = x \/ rank[a] < rank[x])
               /\ x # 1 => \E p \in G[x].preds : /\ idom[p] # 0 /\ rank[p] < rank[x]
                                                 /\ path[x] = path[p] \cup {x} /\ idom[x] \in path[p]
    BY <2>7 DEF GrownTree
  <2>8. \A x \in 1 .. n : G[x].preds \in SUBSET (1 .. n)
    BY DEF Graph
  <2> HIDE DEF new
  <2>9. /\ idom2 \in [1 .. n -> 0 .. n] /\ idom2[1] = 1
        /\ \A x \in 1 .. n : idom2[x] = IF x = b THEN new ELSE idom[x]
    BY <2>2, <2>3, <2>6
  <2>10. CASE idom[b] # 0
    <3>1. \A x \in 1 .. n : idom2[x] # 0 <=> idom[x] # 0
      BY <2>3, <2>9, <2>10
    <3> HIDE DEF idom2
    <3>2. ASSUME NEW x \in 1 .. n, idom2[x] # 0, x # 1
          PROVE  \E p \in G[x].preds : /\ idom2[p] # 0 /\ rank[p] < rank[x]
                                       /\ path[x] = path[p] \cup {x} /\ idom2[x] \in path[p]
      <4>1. PICK p \in G[x].preds : /\ idom[p] # 0 /\ rank[p] < rank[x]
                                    /\ path[x] = path[p] \cup {x} /\ idom[x] \in path[p]
        BY <2>7, <3>1, <3>2
      <4>2. p \in 1 .. n /\ idom2[p] # 0
        BY <2>8, <3>1, <4>1
      <4>3. x = b => p \in S
        BY <4>1
      <4>4. idom2[x] \in path[p]
        BY <2>5, <2>9, <4>1, <4>3
      <4> QED BY <4>1, <4>2, <4>4
    <3>3. ASSUME NEW x \in 1 .. n, idom2[x] # 0
          PROVE  /\ x \in Reached(G) /\ rank[x] < K
                 /\ x \in path[x] /\ 1 \in path[x]
                 /\ \A a \in path[x] : idom2[a] # 0 /\ path[a] \subseteq path[x] /\ (a = x \/ rank[a] < rank[x])
      <4>1. path[x] \in SUBSET (1 .. n)
        BY <2>6
      <4> QED BY <2>7, <3>1, <3>3, <4>1
    <3>a. \A x \in 1 .. n : idom2[x] # 0 =>
            /\ x \in Reached(G) /\ rank[x] < K
            /\ x \in path[x] /\ 1 \in path[x]
            /\ \A a \in path[x] : idom2[a] # 0 /\ path[a] \subseteq path[x] /\ (a = x \/ rank[a] < rank[x])
            /\ x # 1 => \E p \in G[x].preds : /\ idom2[p] # 0 /\ rank[p] < rank[x]
                                              /\ path[x] = path[p] \cup {x} /\ idom2[x] \in path[p]
      BY <3>2, <3>3
    <3>b. idom2[1] = 1 /\ idom2 \in [1 .. n -> 0 .. n]
      BY <2>9 DEF idom2
    <3>4. GrownTree(G, n, idom2, path, rank, K)
      BY <2>6, <3>a, <3>b DEF GrownTree
    <3> QED BY <2>1, <3>4
  <2>11. CASE idom[b] = 0
    <3>1. PICK q \in S : TRUE
      BY <2>2
    <3>2. q \in 1 .. n /\ q \in G[b].preds /\ idom[q] # 0 /\ q # b /\ new \in path[q]
      BY <2>2, <2>5, <2>11, <3>1
    <3> DEFINE path2 == [path EXCEPT ![b] = path[q] \cup {b}]
               rank2 == [x \in 1 .. n |-> IF idom2[x] = 0 THEN K + 1 ELSE IF x = b THEN K ELSE rank[x]]
    <3>3. \A x \in 1 .. n : idom2[x] # 0 <=> x = b \/ idom[x] # 0
      BY <2>3, <2>9
    <3> HIDE DEF idom2
    <3>4. /\ path2 \in [1 .. n -> SUBSET (1 .. n)] /\ path2[1] = {1}
          /\ \A x \in 1 .. n : path2[x] = IF x = b THEN path[q] \cup {b} ELSE path[x]
      BY <2>2, <2>6, <3>2
    <3>5. /\ rank2 \in [1 .. n -> 0 .. K + 1]
          /\ rank2[b] = K
          /\ \A x \in 1 .. n : idom[x] # 0 => rank2[x] = rank[x] /\ rank[x] < K
      BY <2>6, <2>7, <2>11, <3>3
    <3> HIDE DEF path2, rank2
    <3>6. ASSUME NEW x \in 1 .. n, idom[x] # 0
          PROVE  /\ path2[x] = path[x]
                 /\ \A a \in path[x] : a \in 1 .. n /\ idom[a] # 0 /\ a # b /\ path2[a] = path[a]
      <4>1. x # b
        BY <2>11, <3>6
      <4>2. path[x] \in SUBSET (1 .. n) /\ \A a \in path[x] : idom[a] # 0
        BY <2>6, <2>7, <3>6
      <4> QED BY <2>11, <3>4, <4>1, <4>2
    <3>7. ASSUME NEW x \in 1 .. n, idom[x] # 0
          PROVE  /\ x \in Reached(G) /\ rank2[x] < K + 1
                 /\ x \in path2[x] /\ 1 \in path2[x]
                 /\ \A a \in path2[x] : idom2[a] # 0 /\ path2[a] \subseteq path2[x] /\ (a = x \/ rank2[a] < rank2[x])
                 /\ x # 1 => \E p \in G[x].preds : /\ idom2[p] # 0 /\ rank2[p] < rank2[x]
                                                   /\ path2[x] = path2[p] \cup {x} /\ idom2[x] \in path2[p]
      <4>1. x \in Reached(G) /\ rank2[x] < K + 1 /\ x \in path2[x] /\ 1 \in path2[x]
        BY <2>6, <2>7, <3>5, <3>6, <3>7
      <4>2. ASSUME NEW a \in path2[x]
            PROVE  idom2[a] # 0 /\ path2[a] \subseteq path2[x] /\ (a = x \/ rank2[a] < rank2[x])
        <5>1. a \in path[x] /\ a \in 1 .. n /\ idom[a] # 0 /\ path2[a] = path[a] /\ path2[x] = path[x]
          BY <3>6, <3>7, <4>2
        <5> QED BY <2>7, <3>3, <3>5, <3>7, <5>1
      <4>3. ASSUME x # 1
            PROVE  \E p \in G[x].preds : /\ idom2[p] # 0 /\ rank2[p] < rank2[x]
                                         /\ path2[x] = path2[p] \cup {x} /\ idom2[x] \in path2[p]
        <5>1. PICK p \in G[x].preds : /\ idom[p] # 0 /\ rank[p] < rank[x]
                                      /\ path[x] = path[p] \cup {x} /\ idom[x] \in path[p]
          BY <2>7, <3>7, <4>3
        <5>2. p \in 1 .. n
          BY <2>8, <5>1
        <5>3. path2[p] = path[p] /\ path2[x] = path[x] /\ idom2[x] = idom[x] /\ idom2[p] # 0
          BY <2>9, <2>11, <3>3, <3>6, <3>7, <5>1, <5>2 DEF idom2
        <5>4. rank2[p] < rank2[x]
          BY <3>5, <3>7, <5>1, <5>2
        <5> QED BY <5>1, <5>3, <5>4
      <4> QED BY <4>1, <4>2, <4>3
    <3>8. /\ b \in path2[b] /\ 1 \in path2[b]
          /\ \A a \in path2[b] : idom2[a] # 0 /\ path2[a] \subseteq path2[b] /\ (a = b \/ rank2[a] < rank2[b])
          /\ \E p \in G[b].preds : /\ idom2[p] # 0 /\ rank2[p] < rank2[b]
                                   /\ path2[b] = path2[p] \cup {b} /\ idom2[b] \in path2[p]
      <4>1. path2[b] = path[q] \cup {b} /\ path2[q] = path[q] /\ idom2[q] # 0 /\ 1 \in path[q]
        BY <2>7, <3>2, <3>3, <3>4, <3>6
      <4>2. rank2[q] < rank2[b] /\ idom2[b] = new
        BY <3>2, <3>5, <2>9 DEF idom2
      <4>3. ASSUME NEW a \in path2[b], a # b
            PROVE  idom2[a] # 0 /\ path2[a] \subseteq path2[b] /\ rank2[a] < rank2[b]
        <5>1. a \in path[q]
          BY <4>1, <4>3
        <5>2. a \in 1 .. n /\ idom[a] # 0 /\ path2[a] = path[a] /\ path[a] \subseteq path[q]
          BY <2>7, <3>2, <3>6, <5>1
        <5> QED BY <3>3, <3>5, <4>1, <5>2
      <4>4. idom2[b] # 0
        BY <3>3
      <4> QED BY <3>2, <4>1, <4>2, <4>3, <4>4
    <3>9. idom2[1] = 1 /\ idom2 \in [1 .. n -> 0 .. n] /\ K + 1 \in Nat
      BY <2>6, <2>9 DEF idom2
    <3>10. rank2[b] < K + 1
      BY <2>6, <3>5
    <3>11. \A x \in 1 .. n : idom2[x] # 0 =>
             /\ x \in Reached(G) /\ rank2[x] < K + 1
             /\ x \in path2[x] /\ 1 \in path2[x]
             /\ \A a \in path2[x] : idom2[a] # 0 /\ path2[a] \subseteq path2[x] /\ (a = x \/ rank2[a] < rank2[x])
             /\ x # 1 => \E p \in G[x].preds : /\ idom2[p] # 0 /\ rank2[p] < rank2[x]
                                               /\ path2[x] = path2[p] \cup {x} /\ idom2[x] \in path2[p]
      BY <2>2, <3>3, <3>7, <3>8, <3>10
    <3>12. GrownTree(G, n, idom2, path2, rank2, K + 1)
      BY <2>6, <3>4, <3>5, <3>9, <3>11 DEF GrownTree
    <3> QED BY <2>1, <3>12
  <2> QED BY <2>10, <2>11
<1> QED BY <1>1, <1>2

-----------------------------------------------------------------------------
(* What is on every path to a block is above it, where no block is listed    *)
(* before what is on every path to it.                                       *)

InOrder(G) == \A b \in Reached(G) : \A a \in Reached(G) : DominatesIn(G, a, b) => a <= b

(* A block's idom leaves out nothing that is on every path to the block.     *)
Complete(G, idom) ==
  \A b \in DOMAIN G : idom[b] # 0 /\ b # 1 =>
    \A d \in Reached(G) : d # b /\ DominatesIn(G, d, b) => DominatesIn(G, d, idom[b])

LEMMA CompleteAbove ==
  ASSUME NEW G, NEW n, Graph(G, n), NEW idom, NEW path, NEW rank, NEW K, GrownTree(G, n, idom, path, rank, K),
         Complete(G, idom), NEW d \in Reached(G), NEW b \in 1 .. n, idom[b] # 0, DominatesIn(G, d, b)
  PROVE  /\ d \in Above(idom, b)
         /\ \A x \in Above(idom, b) : d \in Above(idom, x) => DominatesIn(G, d, x)
<1> DEFINE Right(y) == idom[y] # 0 /\ DominatesIn(G, d, y) =>
                         /\ d \in Above(idom, y)
                         /\ \A x \in Above(idom, y) : d \in Above(idom, x) => DominatesIn(G, d, x)
           Good == {y \in 1 .. n : Right(y)}
<1>1. Tree(n, idom, rank, K)
  BY GrownIsTree
<1>2. n \in Nat /\ 1 \in 1 .. n /\ DOMAIN G = 1 .. n /\ idom \in [1 .. n -> 0 .. n] /\ d \in 1 .. n
  <2>1. d \in 1 .. n
    BY ReachedFacts
  <2> QED BY <2>1 DEF Graph, GrownTree
<1>3. ASSUME NEW y \in 1 .. n, Up(idom, y) # 0 => Up(idom, y) \in Good
      PROVE  y \in Good
  <2> SUFFICES ASSUME idom[y] # 0, DominatesIn(G, d, y)
               PROVE  /\ d \in Above(idom, y)
                      /\ \A x \in Above(idom, y) : d \in Above(idom, x) => DominatesIn(G, d, x)
    OBVIOUS
  <2>1. /\ Above(idom, y) = {y} \cup (IF Up(idom, y) = 0 THEN {} ELSE Above(idom, Up(idom, y)))
        /\ Above(idom, y) \in SUBSET (1 .. n)
    BY <1>2, AboveUnfolds
  <2>2. CASE y = d
    <3>1. ASSUME NEW x \in Above(idom, d), d \in Above(idom, x)
          PROVE  x = d
      <4>1. x \in 1 .. n
        BY <2>1, <2>2, <3>1
      <4>2. x = d \/ rank[x] < rank[d]
        BY <1>1, <1>2, <3>1, AboveFacts
      <4>3. d = x \/ rank[d] < rank[x]
        BY <1>1, <1>2, <3>1, <4>1, AboveFacts
      <4>4. rank[x] \in Nat /\ rank[d] \in Nat
        BY <1>2, <4>1 DEF GrownTree
      <4> QED BY <4>2, <4>3, <4>4
    <3> QED BY <2>1, <2>2, <3>1
  <2>3. CASE y # d
    <3>1. y # 1
      BY <2>3, <1>2, DominatesEntry
    <3>2. Up(idom, y) = idom[y] /\ idom[idom[y]] # 0
      BY <3>1, GrownIsTree
    <3>3. DominatesIn(G, d, idom[y])
      BY <1>2, <2>3, <3>1 DEF Complete
    <3>4. Right(idom[y])
      BY <1>3, <3>2
    <3> QED BY <2>1, <3>2, <3>3, <3>4
  <2> QED BY <2>2, <2>3
<1> HIDE DEF Good
<1>4. b \in Good
  BY <1>1, <1>3, TreeInduction
<1> QED BY <1>4 DEF Good

LEMMA CompleteKeeps ==
  ASSUME NEW G, NEW n, Graph(G, n), NEW idom, NEW path, NEW rank, NEW K, GrownTree(G, n, idom, path, rank, K),
         InOrder(G), Complete(G, idom), NEW b \in 1 .. n
  PROVE  Complete(G, Processed(G, idom, b))
<1>1. CASE ~Asks(G, idom, b)
  <2>1. Processed(G, idom, b) = idom
    BY <1>1, ProcessedIs
  <2> QED BY <2>1
<1>2. CASE Asks(G, idom, b)
  <2> DEFINE S == {p \in G[b].preds : idom[p] # 0}
             new == NewIdom(G, idom, b)
             idom2 == [idom EXCEPT ![b] = new]
  <2>1. Processed(G, idom, b) = idom2
    BY <1>2, ProcessedIs
  <2>2. /\ b # 1 /\ b \in Reached(G) /\ S # {} /\ S \in SUBSET (1 .. n)
        /\ \A p \in S : b \in G[p].succs /\ idom[p] # 0
    BY <1>2 DEF Asks, Graph
  <2>3. new \in 1 .. n /\ \A p \in S : new \in Above(idom, p)
    BY <2>2, NewIdomIsAbove
  <2>4. n \in Nat /\ DOMAIN G = 1 .. n /\ idom \in [1 .. n -> 0 .. n] /\ idom[1] = 1 /\ Tree(n, idom, rank, K)
    <3>1. Tree(n, idom, rank, K)
      BY GrownIsTree
    <3> QED BY <3>1 DEF Graph, GrownTree
  <2>5. new = Over(idom, S, LowestOf(S)) /\ LowestOf(S) \in S
    BY <2>2, <2>4, LowestIn DEF NewIdom, Over
  <2> HIDE DEF S
  <2>6. ASSUME NEW d \in Reached(G), d # b, DominatesIn(G, d, b)
        PROVE  DominatesIn(G, d, new)
    <3>1. d \in 1 .. n
      BY ReachedFacts
    <3>2. ASSUME NEW p \in S
          PROVE  /\ d \in Above(idom, p)
                 /\ \A x \in Above(idom, p) : d \in Above(idom, x) => DominatesIn(G, d, x)
                 /\ ListedFrom(idom, d, p)
      <4>1. p \in 1 .. n /\ idom[p] # 0 /\ b \in G[p].succs
        BY <2>2
      <4>2. DominatesIn(G, d, p)
        BY <2>6, <3>1, <4>1, DominatesBefore
      <4>3. /\ d \in Above(idom, p)
            /\ \A x \in Above(idom, p) : d \in Above(idom, x) => DominatesIn(G, d, x)
        BY <4>1, <4>2, CompleteAbove
      <4>4. \A x \in Above(idom, p) : x \in Reached(G)
        <5>1. /\ \A x \in Above(idom, p) : idom[x] # 0
              /\ Above(idom, p) \in SUBSET (1 .. n)
          BY <2>4, <4>1, GrownIsTree, AboveUnfolds
        <5> QED BY <5>1 DEF GrownTree
      <4> QED BY <4>3, <4>4 DEF InOrder, ListedFrom
    <3>3. d \in Above(idom, new)
      <4>1. \A p \in S \cup {LowestOf(S)} : d \in Above(idom, p) /\ ListedFrom(idom, d, p)
        BY <2>5, <3>2
      <4>2. LowestOf(S) \in 1 .. n
        BY <2>2, <2>5
      <4>3. d \in Above(idom, Over(idom, S, LowestOf(S)))
        BY <2>2, <2>4, <4>1, <4>2, FoldKeeps
      <4> QED BY <2>5, <4>3
    <3> QED BY <2>3, <2>5, <3>2, <3>3
  <2> HIDE DEF new
  <2>7. \A x \in 1 .. n : idom2[x] = IF x = b THEN new ELSE idom[x]
    BY <2>4
  <2> HIDE DEF idom2
  <2>8. Complete(G, idom2)
    BY <2>4, <2>6, <2>7 DEF Complete
  <2> QED BY <2>1, <2>8
<1> QED BY <1>1, <1>2

(* What every processing of a block keeps. *)
Built(G, n, idom) ==
  /\ \E path, rank, K : GrownTree(G, n, idom, path, rank, K)
  /\ InOrder(G) => Complete(G, idom)

LEMMA BuiltKeeps ==
  ASSUME NEW G, NEW n, Graph(G, n), NEW idom, Built(G, n, idom), NEW b \in 1 .. n
  PROVE  Built(G, n, Processed(G, idom, b))
<1>1. PICK path, rank, K : GrownTree(G, n, idom, path, rank, K)
  BY DEF Built
<1> QED BY <1>1, GrownKeeps, CompleteKeeps DEF Built

LEMMA BuiltBegins ==
  ASSUME NEW G, NEW n, Graph(G, n)
  PROVE  Built(G, n, [b \in DOMAIN G |-> IF b = 1 THEN 1 ELSE 0])
<1> DEFINE idom == [b \in 1 .. n |-> IF b = 1 THEN 1 ELSE 0]
           rank == [b \in 1 .. n |-> IF b = 1 THEN 0 ELSE 1]
           path == [b \in 1 .. n |-> {1}]
<1>1. n \in Nat \ {0} /\ DOMAIN G = 1 .. n /\ 1 \in 1 .. n /\ 1 \in Reached(G)
  BY ReachedFacts DEF Graph
<1>2. /\ idom \in [1 .. n -> 0 .. n] /\ rank \in [1 .. n -> 0 .. 1] /\ path \in [1 .. n -> SUBSET (1 .. n)]
      /\ idom[1] = 1 /\ path[1] = {1} /\ rank[1] = 0
      /\ \A b \in 1 .. n : idom[b] # 0 => b = 1
  BY <1>1
<1> HIDE DEF idom, rank, path
<1>3. GrownTree(G, n, idom, path, rank, 1)
  <2>1. ASSUME NEW b \in 1 .. n, idom[b] # 0
        PROVE  /\ b \in Reached(G) /\ rank[b] < 1
               /\ b \in path[b] /\ 1 \in path[b]
               /\ \A a \in path[b] : idom[a] # 0 /\ path[a] \subseteq path[b] /\ (a = b \/ rank[a] < rank[b])
               /\ b = 1
    BY <1>1, <1>2, <2>1
  <2> QED BY <1>1, <1>2, <2>1 DEF GrownTree
<1>4. Complete(G, idom)
  BY <1>1, <1>2 DEF Complete
<1> QED BY <1>1, <1>3, <1>4 DEF Built, idom

-----------------------------------------------------------------------------
(* A round over the list. *)

LEMMA SweepUnfolds ==
  ASSUME NEW G, NEW n, Graph(G, n), NEW idom, NEW b \in 1 .. n
  PROVE  Sweep(G, idom)[b] = Processed(G, IF b = 1 THEN idom ELSE Sweep(G, idom)[b - 1], b)
<1> DEFINE Turn(f, x) == Processed(G, IF x = 1 THEN idom ELSE f[x - 1], x)
           Solves(f, m) == f = [x \in 1 .. m |-> Turn(f, x)]
           Bad == {m \in 0 .. n : ~ \E f : Solves(f, m)}
<1>1. n \in Nat /\ DOMAIN G = 1 .. n
  BY DEF Graph
<1>2. Bad = {}
  <2> SUFFICES ASSUME Bad # {} PROVE FALSE
    OBVIOUS
  <2>1. PICK m \in Bad : \A p \in Bad : m <= p
    <3>1. Bad \in SUBSET Nat
      BY <1>1
    <3> QED BY <3>1, LeastElement
  <2>2. m # 0
    <3> DEFINE f == [x \in {} |-> x]
    <3>1. 1 .. 0 = {}
      OBVIOUS
    <3>2. Solves(f, 0)
      BY <3>1
    <3> QED BY <3>2
  <2>3. m - 1 \in 0 .. n /\ m \in Nat /\ m - 1 \notin Bad
    <3>1. m \in 0 .. n /\ m - 1 \in 0 .. n
      BY <1>1, <2>2
    <3> HIDE DEF Solves
    <3> QED BY <1>1, <2>1, <3>1
  <2>4. PICK f : Solves(f, m - 1)
    BY <2>3
  <2> DEFINE g == [x \in 1 .. m |-> Turn(f, x)]
  <2>5. ASSUME NEW x \in 1 .. m
        PROVE  Turn(f, x) = Turn(g, x)
    <3>1. CASE x = 1
      BY <3>1
    <3>2. CASE x # 1
      <4>1. x - 1 \in 1 .. m - 1 /\ x - 1 \in 1 .. m
        BY <2>3, <3>2
      <4> HIDE DEF Turn
      <4>2. f[x - 1] = Turn(f, x - 1) /\ g[x - 1] = Turn(f, x - 1)
        BY <2>4, <4>1
      <4> QED BY <3>2, <4>2 DEF Turn
    <3> QED BY <3>1, <3>2
  <2>6. Solves(g, m)
    <3> HIDE DEF Turn
    <3>1. [x \in 1 .. m |-> Turn(f, x)] = [x \in 1 .. m |-> Turn(g, x)]
      BY <2>5
    <3> QED BY <3>1
  <2> HIDE DEF g, Solves
  <2> QED BY <2>1, <2>6
<1>3. PICK f : Solves(f, n)
  <2>1. n \in 0 .. n
    BY <1>1
  <2> HIDE DEF Solves
  <2> QED BY <1>2, <2>1
<1>4. Sweep(G, idom) = CHOOSE g : Solves(g, n)
  BY <1>1 DEF Sweep
<1>5. Solves(Sweep(G, idom), n)
  <2> HIDE DEF Solves
  <2> QED BY <1>3, <1>4
<1> DEFINE h == Sweep(G, idom)
<1>6. h[b] = Turn(h, b)
  <2>1. Solves(h, n)
    BY <1>5
  <2> HIDE DEF h, Turn
  <2> QED BY <2>1
<1> QED BY <1>6

LEMMA ProcessedType ==
  ASSUME NEW G, NEW n, Graph(G, n), NEW idom, Built(G, n, idom), NEW b \in 1 .. n
  PROVE  /\ idom \in [1 .. n -> 0 .. n]
         /\ Processed(G, idom, b) \in [1 .. n -> 0 .. n]
         /\ \A x \in (1 .. n) \ {b} : Processed(G, idom, b)[x] = idom[x]
<1>1. Built(G, n, Processed(G, idom, b))
  BY BuiltKeeps
<1>2. \A f : Built(G, n, f) => f \in [1 .. n -> 0 .. n]
  BY DEF Built, GrownTree
<1>3. \A x \in (1 .. n) \ {b} : Processed(G, idom, b)[x] = idom[x]
  BY <1>2 DEF Processed
<1> QED BY <1>1, <1>2, <1>3

LEMMA SweepKeeps ==
  ASSUME NEW G, NEW n, Graph(G, n), NEW idom, Built(G, n, idom), NEW b \in 1 .. n
  PROVE  /\ Built(G, n, Sweep(G, idom)[b])
         /\ \A x \in 1 .. b - 1 : Sweep(G, idom)[b][x] = Sweep(G, idom)[x][x]
<1> DEFINE h == Sweep(G, idom)
           Right(y) == Built(G, n, h[y]) /\ \A x \in 1 .. y - 1 : h[y][x] = h[x][x]
           Bad == {y \in 1 .. n : ~Right(y)}
<1>1. n \in Nat /\ 1 \in 1 .. n
  BY DEF Graph
<1>2. \A y \in 1 .. n : h[y] = Processed(G, IF y = 1 THEN idom ELSE h[y - 1], y)
  BY SweepUnfolds
<1> HIDE DEF h
<1>3. Bad = {}
  <2> SUFFICES ASSUME Bad # {} PROVE FALSE
    OBVIOUS
  <2>1. PICK y \in Bad : \A z \in Bad : y <= z
    <3>1. Bad \in SUBSET Nat
      OBVIOUS
    <3> QED BY <3>1, LeastElement
  <2>2. CASE y = 1
    <3>1. Built(G, n, h[1])
      BY <1>1, <1>2, BuiltKeeps
    <3>2. 1 .. y - 1 = {}
      BY <2>2
    <3> QED BY <2>1, <2>2, <3>1, <3>2
  <2>3. CASE y # 1
    <3>1. y - 1 \in 1 .. n /\ y \in 1 .. n /\ ~(y <= y - 1)
      BY <1>1, <2>3
    <3>2. Right(y - 1)
      BY <2>1, <3>1
    <3>3. h[y] = Processed(G, h[y - 1], y)
      BY <1>2, <2>3, <3>1
    <3>a. Built(G, n, h[y - 1])
      BY <3>2
    <3> HIDE DEF Right, Bad
    <3>b. Built(G, n, h[y])
      BY <3>1, <3>3, <3>a, BuiltKeeps
    <3>c. \A x \in (1 .. n) \ {y} : h[y][x] = h[y - 1][x]
      BY <3>1, <3>3, <3>a, ProcessedType
    <3>4. Built(G, n, h[y]) /\ \A x \in (1 .. n) \ {y} : h[y][x] = h[y - 1][x]
      BY <3>b, <3>c
    <3>5. ASSUME NEW x \in 1 .. y - 1
          PROVE  h[y][x] = h[x][x]
      <4>1. x \in (1 .. n) \ {y} /\ (x = y - 1 \/ x \in 1 .. (y - 1) - 1)
        BY <1>1, <3>1
      <4> QED BY <3>2, <3>4, <4>1 DEF Right
    <3> QED BY <2>1, <3>4, <3>5 DEF Right, Bad
  <2> QED BY <2>2, <2>3
<1>4. Right(b)
  BY <1>3
<1> QED BY <1>4 DEF h

LEMMA SweptKeeps ==
  ASSUME NEW G, NEW n, Graph(G, n), NEW idom, Built(G, n, idom)
  PROVE  /\ Built(G, n, Swept(G, idom))
         /\ Swept(G, idom) = idom => \A b \in 1 .. n : Processed(G, idom, b) = idom
<1> DEFINE h == Sweep(G, idom)
<1>1. n \in Nat /\ n \in 1 .. n /\ Len(G) = n
  BY DEF Graph
<1>2. Swept(G, idom) = h[n]
  BY <1>1 DEF Swept
<1>3. \A y \in 1 .. n : h[y] = Processed(G, IF y = 1 THEN idom ELSE h[y - 1], y)
  BY SweepUnfolds
<1>4. \A y \in 1 .. n : Built(G, n, h[y]) /\ \A x \in 1 .. y - 1 : h[y][x] = h[x][x]
  BY SweepKeeps
<1> HIDE DEF h
<1>5. ASSUME h[n] = idom
      PROVE  \A b \in 1 .. n : h[b] = idom
  <2>1. \A y \in 1 .. n : h[y][y] = idom[y]
    <3> SUFFICES ASSUME NEW y \in 1 .. n PROVE h[y][y] = idom[y]
      OBVIOUS
    <3>1. y = n \/ y \in 1 .. n - 1
      BY <1>1
    <3> QED BY <1>1, <1>4, <1>5, <3>1
  <2> DEFINE Bad == {y \in 1 .. n : h[y] # idom}
  <2> SUFFICES ASSUME Bad # {} PROVE FALSE
    OBVIOUS
  <2>2. PICK y \in Bad : \A z \in Bad : y <= z
    <3>1. Bad \in SUBSET Nat
      OBVIOUS
    <3> QED BY <3>1, LeastElement
  <2>3. h[y] = Processed(G, idom, y)
    <3>1. CASE y = 1
      BY <1>3, <3>1
    <3>2. CASE y # 1
      <4>1. y - 1 \in 1 .. n /\ ~(y <= y - 1)
        BY <1>1, <3>2
      <4>2. h[y - 1] = idom
        BY <2>2, <4>1
      <4> QED BY <1>3, <3>2, <4>2
    <3> QED BY <3>1, <3>2
  <2>4. /\ idom \in [1 .. n -> 0 .. n] /\ h[y] \in [1 .. n -> 0 .. n]
        /\ \A x \in (1 .. n) \ {y} : h[y][x] = idom[x]
    BY <2>3, ProcessedType
  <2>5. \A x \in 1 .. n : h[y][x] = idom[x]
    BY <2>1, <2>4
  <2>6. h[y] = idom
    <3>1. h[y] = [x \in 1 .. n |-> h[y][x]] /\ idom = [x \in 1 .. n |-> idom[x]]
      BY <2>4
    <3>2. [x \in 1 .. n |-> h[y][x]] = [x \in 1 .. n |-> idom[x]]
      BY <2>5
    <3> QED BY <3>1, <3>2
  <2> QED BY <2>6
<1>6. ASSUME h[n] = idom, NEW b \in 1 .. n
      PROVE  Processed(G, idom, b) = idom
  <2>1. b # 1 => b - 1 \in 1 .. n
    BY <1>1
  <2> QED BY <1>3, <1>5, <1>6, <2>1
<1> QED BY <1>1, <1>2, <1>4, <1>6

-----------------------------------------------------------------------------
(* The settled tree. *)

SettledTree(G, n, idom) == Built(G, n, idom) /\ \A b \in 1 .. n : Processed(G, idom, b) = idom

LEMMA SettledIsProcessed ==
  ASSUME NEW G, NEW n, Graph(G, n), NEW idom, SettledTree(G, n, idom)
  PROVE  /\ \A b \in Reached(G) : idom[b] # 0
         /\ \A b \in Reached(G) : b # 1 => \A p \in G[b].preds : p \in Reached(G) => idom[b] \in Above(idom, p)
<1>1. PICK path, rank, K : GrownTree(G, n, idom, path, rank, K)
  BY DEF SettledTree, Built
<1>2. /\ n \in Nat /\ 1 \in 1 .. n /\ DOMAIN G = 1 .. n
      /\ \A b \in 1 .. n : G[b].succs \in SUBSET (1 .. n) /\ G[b].preds = {p \in 1 .. n : b \in G[p].succs}
  BY DEF Graph
<1>3. idom \in [1 .. n -> 0 .. n] /\ idom[1] = 1
  BY <1>1 DEF GrownTree
<1>4. /\ 1 \in Reached(G) /\ Reached(G) \in SUBSET (1 .. n)
      /\ \A b \in Reached(G) : G[b].succs \subseteq Reached(G)
  BY ReachedFacts
<1>5. ASSUME NEW b \in Reached(G), b # 1, NEW p \in G[b].preds, idom[p] # 0
      PROVE  idom[b] # 0 /\ idom[b] \in Above(idom, p)
  <2>1. b \in 1 .. n /\ Asks(G, idom, b)
    BY <1>4, <1>5 DEF Asks
  <2>2. idom = [idom EXCEPT ![b] = NewIdom(G, idom, b)]
    BY <1>1, <2>1, ProcessedIs DEF SettledTree
  <2>3. idom[b] = NewIdom(G, idom, b)
    <3> DEFINE new == NewIdom(G, idom, b)
    <3>1. idom = [idom EXCEPT ![b] = new]
      BY <2>2
    <3> HIDE DEF new
    <3>2. [idom EXCEPT ![b] = new][b] = new
      BY <1>3, <2>1
    <3> QED BY <3>1, <3>2 DEF new
  <2> DEFINE S == {q \in G[b].preds : idom[q] # 0}
  <2>4. S # {} => NewIdom(G, idom, b) \in 1 .. n /\ \A q \in S : NewIdom(G, idom, b) \in Above(idom, q)
    BY <1>1, <2>1, NewIdomIsAbove
  <2>5. p \in S
    BY <1>5
  <2> HIDE DEF S
  <2>6. NewIdom(G, idom, b) \in 1 .. n /\ NewIdom(G, idom, b) \in Above(idom, p)
    BY <2>4, <2>5
  <2>7. \A x \in 1 .. n : x # 0
    OBVIOUS
  <2> QED BY <2>3, <2>6, <2>7
<1> DEFINE X == {b \in Reached(G) : idom[b] # 0}
<1>6. ASSUME NEW x \in X, NEW y \in G[x].succs
      PROVE  y \in X
  <2>1. x \in Reached(G) /\ x \in 1 .. n /\ y \in Reached(G) /\ y \in 1 .. n /\ idom[x] # 0
    BY <1>4, <1>6
  <2>2. y # 1 => x \in G[y].preds
    BY <1>2, <1>6, <2>1
  <2>3. y # 1 => idom[y] # 0
    BY <1>5, <2>1, <2>2
  <2> QED BY <1>3, <2>1, <2>3
<1>7. Reached(G) \subseteq X
  <2>1. SuccsOf(G) \in Edges(n) /\ \A b \in 1 .. n : SuccsOf(G)[b] = G[b].succs
    BY <1>2 DEF SuccsOf, Edges
  <2>2. {1} \subseteq X /\ X \in SUBSET (1 .. n)
    BY <1>3, <1>4
  <2> HIDE DEF X
  <2>3. ClosedUnder(SuccsOf(G), X)
    BY <1>6, <2>1, <2>2 DEF ClosedUnder
  <2>4. {1} \in SUBSET (1 .. n)
    BY <1>2
  <2>5. Reach(SuccsOf(G), {1}) \subseteq X
    BY <1>2, <2>1, <2>2, <2>3, <2>4, ReachIsLeast
  <2> QED BY <2>5 DEF Graph
<1>8. \A b \in Reached(G) : idom[b] # 0
  BY <1>7
<1> QED BY <1>5, <1>8

LEMMA SettledSound ==
  ASSUME NEW G, NEW n, Graph(G, n), NEW idom, SettledTree(G, n, idom), NEW b \in Reached(G), NEW a \in Above(idom, b)
  PROVE  a \in Reached(G) /\ DominatesIn(G, a, b)
<1>1. PICK path, rank, K : GrownTree(G, n, idom, path, rank, K)
  BY DEF SettledTree, Built
<1>2. Tree(n, idom, rank, K)
  BY <1>1, GrownIsTree
<1>3. /\ n \in Nat /\ 1 \in 1 .. n /\ DOMAIN G = 1 .. n
      /\ \A x \in 1 .. n : G[x].succs \in SUBSET (1 .. n) /\ G[x].preds = {p \in 1 .. n : x \in G[p].succs}
  BY DEF Graph
<1>4. idom \in [1 .. n -> 0 .. n] /\ idom[1] = 1 /\ \A x \in 1 .. n : idom[x] # 0 => x \in Reached(G)
  BY <1>1 DEF GrownTree
<1>5. /\ 1 \in Reached(G) /\ Reached(G) \in SUBSET (1 .. n)
      /\ \A x \in Reached(G) : G[x].succs \subseteq Reached(G)
  BY ReachedFacts
<1>6. \A x \in Reached(G) : idom[x] # 0
  BY SettledIsProcessed
<1>7. b \in 1 .. n /\ a \in 1 .. n /\ a \in Reached(G)
  <2>1. b \in 1 .. n /\ idom[b] # 0
    BY <1>5, <1>6
  <2>2. Above(idom, b) \in SUBSET (1 .. n) /\ \A x \in Above(idom, b) : idom[x] # 0
    BY <1>1, <1>2, <2>1, GrownIsTree, AboveFacts
  <2> QED BY <1>4, <2>1, <2>2
<1>8. CASE a = 1
  BY <1>7, <1>8, DominatesEntry
<1>9. CASE a # 1
  <2> DEFINE X == {x \in Reached(G) : a \notin Above(idom, x)}
  <2>1. Above(idom, 1) = {1}
    BY <1>3, <1>4, AboveUnfolds DEF Up
  <2>2. X \in SUBSET (1 .. n) /\ 1 \in X
    BY <1>5, <1>9, <2>1
  <2>3. ASSUME NEW x \in X, NEW y \in G[x].succs \ {a}
        PROVE  y \in X
    <3>1. x \in Reached(G) /\ x \in 1 .. n /\ y \in Reached(G) /\ y \in 1 .. n /\ a \notin Above(idom, x)
      BY <1>5, <2>3
    <3>2. CASE y = 1
      BY <2>2, <3>2
    <3>3. CASE y # 1
      <4>1. x \in G[y].preds
        BY <1>3, <2>3, <3>1
      <4>2. idom[y] \in Above(idom, x)
        BY <3>1, <3>3, <4>1, SettledIsProcessed
      <4>3. Up(idom, y) = idom[y]
        BY <1>1, <1>6, <3>1, <3>3, GrownIsTree
      <4>4. Above(idom, y) \subseteq {y} \cup Above(idom, idom[y])
        <5>1. Above(idom, y) = {y} \cup (IF Up(idom, y) = 0 THEN {} ELSE Above(idom, Up(idom, y)))
          BY <1>3, <1>4, <3>1, AboveUnfolds
        <5> QED BY <4>3, <5>1
      <4>5. Above(idom, idom[y]) \subseteq Above(idom, x)
        BY <1>2, <3>1, <4>2, AboveFacts
      <4> QED BY <2>3, <3>1, <4>4, <4>5
    <3> QED BY <3>2, <3>3
  <2>4. b \notin X
    OBVIOUS
  <2> HIDE DEF X
  <2>5. Avoids(G, a) \subseteq X
    BY <1>7, <2>2, <2>3, AvoidsFacts
  <2> QED BY <1>7, <2>4, <2>5 DEF DominatesIn
<1> QED BY <1>8, <1>9

(* dom_depth counts the blocks above a block. *)
LEMMA DepthCounts ==
  ASSUME NEW n, NEW idom, NEW rank, NEW K, Tree(n, idom, rank, K), NEW b \in 1 .. n
  PROVE  DomDepth(idom, b) = Cardinality(Above(idom, b)) - 1
<1> DEFINE Counts(f) == f = [c \in DOMAIN idom |-> IF Up(idom, c) = 0 THEN 0 ELSE 1 + f[Up(idom, c)]]
           g == [c \in 1 .. n |-> Cardinality(Above(idom, c)) - 1]
           Good == {c \in 1 .. n : Depths(idom)[c] = g[c]}
<1>1. n \in Nat /\ idom \in [1 .. n -> 0 .. n] /\ DOMAIN idom = 1 .. n /\ \A x \in 1 .. n : rank[x] \in Nat
  BY DEF Tree
<1>2. ASSUME NEW c \in 1 .. n
      PROVE  /\ g[c] = IF Up(idom, c) = 0 THEN 0 ELSE 1 + g[Up(idom, c)]
             /\ Up(idom, c) # 0 => Up(idom, c) \in 1 .. n
  <2> DEFINE u == Up(idom, c)
  <2>1. Above(idom, c) = {c} \cup (IF u = 0 THEN {} ELSE Above(idom, u))
    BY <1>1, AboveUnfolds
  <2>2. u # 0 => u \in 1 .. n
    BY <1>1, UpType
  <2>3. CASE u = 0
    <3>1. Above(idom, c) = {c}
      BY <2>1, <2>3
    <3>2. Cardinality({c}) = 1
      BY FS_Singleton
    <3> QED BY <2>3, <3>1, <3>2
  <2>4. CASE u # 0
    <3>1. Above(idom, u) \in SUBSET (1 .. n) /\ \A a \in Above(idom, u) : a = u \/ rank[a] < rank[u]
      BY <2>2, <2>4, AboveFacts
    <3>2. rank[u] < rank[c]
      BY <2>4 DEF Tree
    <3>3. c \notin Above(idom, u)
      BY <1>1, <2>2, <2>4, <3>1, <3>2
    <3>4. IsFiniteSet(Above(idom, u)) /\ Cardinality(Above(idom, u)) \in Nat
      <4>1. IsFiniteSet(1 .. n)
        BY <1>1, FS_Interval
      <4> QED BY <3>1, <4>1, FS_Subset, FS_CardinalityType
    <3>5. Above(idom, c) = Above(idom, u) \cup {c}
      BY <2>1, <2>4
    <3>6. Cardinality(Above(idom, c)) = Cardinality(Above(idom, u)) + 1
      BY <3>3, <3>4, <3>5, FS_AddElement
    <3>7. g[u] = Cardinality(Above(idom, u)) - 1 /\ g[c] = Cardinality(Above(idom, c)) - 1
      BY <2>2, <2>4
    <3> HIDE DEF g, u
    <3>8. g[c] = 1 + g[u]
      BY <3>4, <3>6, <3>7
    <3> QED BY <2>2, <2>4, <3>8 DEF u
  <2> QED BY <2>2, <2>3, <2>4
<1>3. Counts(g)
  <2>1. g = [c \in 1 .. n |-> g[c]]
    OBVIOUS
  <2> HIDE DEF g
  <2>2. [c \in 1 .. n |-> g[c]] = [c \in 1 .. n |-> IF Up(idom, c) = 0 THEN 0 ELSE 1 + g[Up(idom, c)]]
    BY <1>2
  <2> QED BY <1>1, <2>1, <2>2
<1>4. Depths(idom) = CHOOSE f : Counts(f)
  BY DEF Depths
<1>5. Counts(Depths(idom))
  <2> HIDE DEF Counts
  <2> QED BY <1>3, <1>4
<1> DEFINE h == Depths(idom)
<1>6. ASSUME NEW c \in 1 .. n
      PROVE  h[c] = IF Up(idom, c) = 0 THEN 0 ELSE 1 + h[Up(idom, c)]
  <2>1. Counts(h)
    BY <1>5
  <2> HIDE DEF h
  <2> QED BY <1>1, <2>1
<1> HIDE DEF h, g
<1>7. ASSUME NEW c \in 1 .. n, Up(idom, c) # 0 => Up(idom, c) \in Good
      PROVE  c \in Good
  <2>1. Up(idom, c) # 0 => h[Up(idom, c)] = g[Up(idom, c)]
    BY <1>7 DEF h
  <2>2. h[c] = g[c]
    BY <1>2, <1>6, <2>1
  <2> QED BY <2>2 DEF h
<1> HIDE DEF Good
<1>8. b \in Good
  BY <1>7, TreeInduction
<1> QED BY <1>8 DEF Good, DomDepth, g

(* ir_dom_dominates and dom_depth say what the paths say, once the tree is   *)
(* settled.                                                                  *)
LEMMA TreeIsRight ==
  ASSUME NEW n, Graph(cfg, n), SettledTree(cfg, n, dom.idom)
  PROVE  TreeIsDominance
<1> DEFINE idom == dom.idom
           R == {b \in DOMAIN cfg : cfg[b].reachable}
           Doms == [b \in R |-> {a \in R : OnEveryPath(a, b)}]
           ordered == \A b \in R : \A a \in Doms[b] : a <= b
           Found(b) == {a \in R : ir_dom_dominates(idom, a, b)}
<1>1. R = Reached(cfg) /\ R \in SUBSET (1 .. n) /\ DOMAIN cfg = 1 .. n
  <2>1. R = Reached(cfg)
    BY DEF Reached
  <2> QED BY <2>1 DEF Graph
<1>2. \A a, b \in R : OnEveryPath(a, b) <=> DominatesIn(cfg, a, b)
  BY DEF OnEveryPath, DominatesIn, Avoids, Without
<1>3. ordered => InOrder(cfg)
  BY <1>1, <1>2 DEF InOrder
<1>4. PICK path, rank, K : GrownTree(cfg, n, idom, path, rank, K)
  BY DEF SettledTree, Built
<1>5. Tree(n, idom, rank, K) /\ DOMAIN idom = 1 .. n
  <2>1. Tree(n, idom, rank, K)
    BY <1>4, GrownIsTree
  <2> QED BY <2>1 DEF Tree
<1> HIDE DEF R, idom
<1>6. ASSUME NEW b \in R
      PROVE  /\ Found(b) = Above(idom, b)
             /\ Found(b) \subseteq Doms[b]
             /\ ordered => Found(b) = Doms[b]
             /\ DomDepth(idom, b) = Cardinality(Found(b)) - 1
  <2>1. b \in 1 .. n /\ Above(idom, b) \subseteq 1 .. n
    BY <1>1, <1>5, AboveFacts
  <2>2. \A a \in Above(idom, b) : a \in R /\ DominatesIn(cfg, a, b)
    BY <1>1, SettledSound DEF idom
  <2>3. Found(b) = Above(idom, b)
    BY <1>1, <1>5, <2>1, <2>2 DEF Above
  <2>4. Found(b) \subseteq Doms[b]
    BY <1>2, <2>2, <2>3
  <2>5. ASSUME ordered, NEW a \in Doms[b]
        PROVE  a \in Found(b)
    <3>1. a \in Reached(cfg) /\ DominatesIn(cfg, a, b)
      BY <1>1, <1>2, <2>5
    <3>2. Complete(cfg, idom)
      BY <1>3, <2>5 DEF SettledTree, Built, idom
    <3>3. idom[b] # 0
      BY <1>1, SettledIsProcessed DEF idom
    <3>4. a \in Above(idom, b)
      BY <1>4, <2>1, <3>1, <3>2, <3>3, CompleteAbove
    <3> QED BY <2>3, <3>4
  <2>6. DomDepth(idom, b) = Cardinality(Found(b)) - 1
    BY <1>5, <2>1, <2>3, DepthCounts
  <2> HIDE DEF Found, Doms, ordered
  <2> QED BY <2>3, <2>4, <2>5, <2>6
<1>7. TreeIsDominance <=> \A b \in R : /\ Found(b) \subseteq Doms[b]
                                       /\ ordered => Found(b) = Doms[b]
                                       /\ DomDepth(idom, b) = Cardinality(Found(b)) - 1
  BY DEF TreeIsDominance, R, idom
<1> HIDE DEF Found, Doms, ordered
<1> QED BY <1>6, <1>7

(* ir_build_cfg builds a graph. *)
LEMMA LeadersFinite ==
  ASSUME NEW c \in Seq(Insn)
  PROVE  /\ Leaders(c) \in SUBSET (1 .. Len(c)) /\ Len(c) \in Nat
         /\ IsFiniteSet(Leaders(c)) /\ NumBlocks(c) \in Nat
         /\ c # <<>> => 1 \in Leaders(c) /\ NumBlocks(c) # 0
<1>1. Leaders(c) \in SUBSET (1 .. Len(c)) /\ Len(c) \in Nat
  BY DEF Leaders
<1>2. IsFiniteSet(Leaders(c)) /\ NumBlocks(c) \in Nat
  <2>1. IsFiniteSet(1 .. Len(c))
    BY <1>1, FS_Interval
  <2> QED BY <1>1, <2>1, FS_Subset, FS_CardinalityType DEF NumBlocks
<1>3. ASSUME c # <<>> PROVE 1 \in Leaders(c)
  <2>1. 1 \in DOMAIN c
    BY <1>3
  <2> QED BY <2>1 DEF Leaders
<1>4. 1 \in Leaders(c) => NumBlocks(c) # 0
  BY <1>2, FS_EmptySet DEF NumBlocks
<1> QED BY <1>1, <1>2, <1>3, <1>4

LEMMA GraphBuilt ==
  ASSUME NEW c \in Seq(Insn), c # <<>>
  PROVE  /\ Graph(ir_build_cfg(c), NumBlocks(c))
         /\ \A b \in 1 .. NumBlocks(c) : ir_build_cfg(c)[b].succs = Succs(c, b)
<1> DEFINE n == NumBlocks(c)
           succs == [b \in 1 .. n |-> Succs(c, b)]
           reached == Reach(succs, {1})
           G == [b \in 1 .. n |-> [succs |-> succs[b], preds |-> {p \in 1 .. n : b \in succs[p]},
                                   reachable |-> b \in reached]]
<1>1. n \in Nat \ {0}
  BY LeadersFinite
<1>2. ir_build_cfg(c) = G
  BY DEF ir_build_cfg
<1>3. \A b \in 1 .. n : Succs(c, b) \in SUBSET (1 .. n)
  BY DEF Succs, Labelled, NextBlock
<1> HIDE DEF n
<1>4. succs \in Edges(n) /\ {1} \in SUBSET (1 .. n) /\ n \in Nat
  BY <1>1, <1>3 DEF Edges
<1> HIDE DEF succs
<1>5. reached \in SUBSET (1 .. n)
  BY <1>4, ReachIsLeast
<1> HIDE DEF reached
<1>6. /\ DOMAIN G = 1 .. n /\ Len(G) = n
      /\ \A b \in 1 .. n : /\ G[b].succs = succs[b]
                           /\ G[b].preds = {p \in 1 .. n : b \in succs[p]}
                           /\ G[b].reachable = (b \in reached)
  BY <1>1
<1> HIDE DEF G
<1>7. SuccsOf(G) = succs
  <2>1. succs = [b \in 1 .. n |-> succs[b]]
    BY DEF succs
  <2>2. [b \in 1 .. n |-> G[b].succs] = [b \in 1 .. n |-> succs[b]]
    BY <1>6
  <2> QED BY <1>6, <2>1, <2>2 DEF SuccsOf
<1>8. Reached(G) = reached
  BY <1>5, <1>6 DEF Reached
<1>9. \A b \in 1 .. n : G[b].succs \in SUBSET (1 .. n) /\ G[b].preds = {p \in 1 .. n : b \in G[p].succs}
  BY <1>4, <1>6 DEF Edges
<1>10. Graph(G, n)
  BY <1>1, <1>6, <1>7, <1>8, <1>9 DEF Graph, reached
<1>11. \A b \in 1 .. n : G[b].succs = Succs(c, b)
  BY <1>6 DEF succs
<1> QED BY <1>2, <1>10, <1>11 DEF n

-----------------------------------------------------------------------------
(* The blocks of the graph. *)

(* The block an instruction is in, when blocks are counted by their heads. *)
CountTo(c, i) == Cardinality({j \in Leaders(c) : j <= i})

LEMMA CountGrows ==
  ASSUME NEW c \in Seq(Insn), c # <<>>
  PROVE  /\ CountTo(c, 1) = 1
         /\ CountTo(c, Len(c)) = NumBlocks(c)
         /\ \A i \in 1 .. Len(c) : CountTo(c, i) \in 1 .. NumBlocks(c)
         /\ \A i \in 1 .. Len(c) : \A k \in 1 .. Len(c) : i < k =>
              CountTo(c, i) <= CountTo(c, k) /\ (k \in Leaders(c) => CountTo(c, i) < CountTo(c, k))
         /\ \A i \in 1 .. Len(c) - 1 : CountTo(c, i + 1) = IF i + 1 \in Leaders(c) THEN CountTo(c, i) + 1 ELSE CountTo(c, i)
         /\ \A i \in Leaders(c) : Cardinality({j \in Leaders(c) : j < i}) = CountTo(c, i) - 1
<1> DEFINE L == Leaders(c)
           To(i) == {j \in L : j <= i}
<1>1. L \in SUBSET (1 .. Len(c)) /\ Len(c) \in Nat /\ IsFiniteSet(L) /\ 1 \in L /\ NumBlocks(c) \in Nat
  BY LeadersFinite
<1>2. Cardinality(L) = NumBlocks(c) /\ \A i : CountTo(c, i) = Cardinality(To(i))
  BY DEF NumBlocks, CountTo
<1> HIDE DEF L
<1>a. \A j \in L : j \in Int /\ 1 <= j /\ j <= Len(c)
  BY <1>1
<1>3. ASSUME NEW i \in 1 .. Len(c)
      PROVE  IsFiniteSet(To(i)) /\ CountTo(c, i) \in Nat /\ CountTo(c, i) \in 1 .. NumBlocks(c)
  <2>1. To(i) \in SUBSET L /\ 1 \in To(i)
    BY <1>1
  <2>2. IsFiniteSet(To(i)) /\ Cardinality(To(i)) <= Cardinality(L) /\ Cardinality(To(i)) \in Nat
    BY <1>1, <2>1, FS_Subset, FS_CardinalityType
  <2>3. Cardinality(To(i)) # 0
    BY <2>1, <2>2, FS_EmptySet
  <2> HIDE DEF To
  <2> QED BY <1>1, <1>2, <2>2, <2>3
<1>4. CountTo(c, 1) = 1
  <2>1. To(1) = {1}
    <3>1. \A j \in L : j <= 1 <=> j = 1
      BY <1>a
    <3> QED BY <1>1, <3>1
  <2>2. Cardinality({1}) = 1
    BY FS_Singleton
  <2> QED BY <1>2, <2>1, <2>2
<1>5. CountTo(c, Len(c)) = NumBlocks(c)
  <2>1. To(Len(c)) = L
    BY <1>a
  <2> QED BY <1>2, <2>1
<1>6. ASSUME NEW i \in 1 .. Len(c), NEW k \in 1 .. Len(c), i < k
      PROVE  CountTo(c, i) <= CountTo(c, k) /\ (k \in L => CountTo(c, i) < CountTo(c, k))
  <2>1. To(i) \in SUBSET To(k) /\ (k \in L => k \in To(k) /\ k \notin To(i))
    <3>1. \A j \in L : j <= i => j <= k
      BY <1>1, <1>a, <1>6
    <3>2. k <= k /\ ~(k <= i)
      BY <1>1, <1>6
    <3> QED BY <3>1, <3>2
  <2>2. CountTo(c, i) <= CountTo(c, k) /\ (CountTo(c, i) = CountTo(c, k) => To(i) = To(k))
    <3> HIDE DEF To
    <3> QED BY <1>2, <1>3, <2>1, FS_Subset
  <2>3. CountTo(c, i) \in Nat /\ CountTo(c, k) \in Nat
    BY <1>3
  <2> HIDE DEF To
  <2> QED BY <2>1, <2>2, <2>3
<1>7. ASSUME NEW i \in 1 .. Len(c) - 1
      PROVE  CountTo(c, i + 1) = IF i + 1 \in L THEN CountTo(c, i) + 1 ELSE CountTo(c, i)
  <2>1. i \in 1 .. Len(c) /\ i + 1 \in 1 .. Len(c)
    BY <1>1
  <2>2. To(i + 1) = IF i + 1 \in L THEN To(i) \cup {i + 1} ELSE To(i)
    <3>1. \A j \in L : j <= i + 1 <=> j <= i \/ j = i + 1
      BY <1>1, <1>a, <2>1
    <3> QED BY <3>1
  <2>3. i + 1 \notin To(i) /\ IsFiniteSet(To(i))
    <3>1. ~(i + 1 <= i)
      BY <2>1
    <3> QED BY <1>3, <2>1, <3>1
  <2> HIDE DEF To
  <2>4. Cardinality(To(i) \cup {i + 1}) = Cardinality(To(i)) + 1
    BY <2>3, FS_AddElement
  <2> QED BY <1>2, <2>2, <2>4
<1>8. ASSUME NEW i \in L
      PROVE  Cardinality({j \in L : j < i}) = CountTo(c, i) - 1
  <2> DEFINE B == {j \in L : j < i}
  <2>1. i \in 1 .. Len(c) /\ To(i) = B \cup {i} /\ i \notin B /\ B \in SUBSET L
    <3>1. \A j \in L : j <= i <=> j < i \/ j = i
      BY <1>a
    <3>2. i \in 1 .. Len(c) /\ ~(i < i)
      BY <1>1, <1>a
    <3> QED BY <3>1, <3>2
  <2>2. IsFiniteSet(B)
    BY <1>1, <2>1, FS_Subset
  <2> HIDE DEF B, To
  <2>3. Cardinality(B \cup {i}) = Cardinality(B) + 1 /\ Cardinality(B) \in Nat
    BY <2>1, <2>2, FS_AddElement, FS_CardinalityType
  <2>4. CountTo(c, i) = Cardinality(B) + 1
    BY <1>2, <2>1, <2>3
  <2> QED BY <2>3, <2>4 DEF B
<1> QED BY <1>3, <1>4, <1>5, <1>6, <1>7, <1>8 DEF L

LEMMA StartOf ==
  ASSUME NEW c \in Seq(Insn), c # <<>>
  PROVE  /\ \A b \in 1 .. NumBlocks(c) : BlockStart(c, b) \in Leaders(c) /\ CountTo(c, BlockStart(c, b)) = b
         /\ \A i \in Leaders(c) : BlockStart(c, CountTo(c, i)) = i
<1>1. /\ Leaders(c) \in SUBSET (1 .. Len(c)) /\ Len(c) \in Nat /\ 1 \in Leaders(c)
      /\ NumBlocks(c) \in Nat
  BY LeadersFinite
<1>2. /\ CountTo(c, 1) = 1
      /\ CountTo(c, Len(c)) = NumBlocks(c)
      /\ \A i \in 1 .. Len(c) : CountTo(c, i) \in 1 .. NumBlocks(c)
      /\ \A i \in 1 .. Len(c) : \A k \in 1 .. Len(c) : i < k =>
           (k \in Leaders(c) => CountTo(c, i) < CountTo(c, k))
      /\ \A i \in 1 .. Len(c) - 1 : CountTo(c, i + 1) = IF i + 1 \in Leaders(c) THEN CountTo(c, i) + 1 ELSE CountTo(c, i)
      /\ \A i \in Leaders(c) : Cardinality({j \in Leaders(c) : j < i}) = CountTo(c, i) - 1
  BY CountGrows
<1>3. ASSUME NEW b \in 1 .. NumBlocks(c)
      PROVE  \E i \in Leaders(c) : CountTo(c, i) = b
  <2> DEFINE S == {i \in 1 .. Len(c) : b <= CountTo(c, i)}
  <2>1. S \in SUBSET Nat /\ Len(c) \in S
    BY <1>1, <1>2
  <2>2. PICK i \in S : \A k \in S : i <= k
    BY <2>1, LeastElement
  <2>3. CASE i = 1
    BY <1>1, <1>2, <2>2, <2>3
  <2>4. CASE i # 1
    <3>1. i - 1 \in 1 .. Len(c) /\ i - 1 \in 1 .. Len(c) - 1 /\ (i - 1) + 1 = i /\ ~(i <= i - 1)
      BY <1>1, <2>4
    <3>2. ~(b <= CountTo(c, i - 1)) /\ CountTo(c, i - 1) \in Nat /\ CountTo(c, i) \in Nat /\ b <= CountTo(c, i)
      BY <1>2, <2>2, <3>1
    <3>3. CountTo(c, i) = IF i \in Leaders(c) THEN CountTo(c, i - 1) + 1 ELSE CountTo(c, i - 1)
      BY <1>2, <3>1
    <3> HIDE DEF S
    <3> QED BY <3>2, <3>3
  <2> QED BY <2>3, <2>4
<1>4. ASSUME NEW i \in Leaders(c), NEW k \in Leaders(c), CountTo(c, i) = CountTo(c, k)
      PROVE  i = k
  <2>1. i \in 1 .. Len(c) /\ k \in 1 .. Len(c) /\ CountTo(c, i) \in Nat /\ CountTo(c, k) \in Nat
    BY <1>1, <1>2
  <2>2. ~(i < k) /\ ~(k < i)
    BY <1>2, <1>4, <2>1
  <2> QED BY <2>1, <2>2
<1>5. \A i \in Leaders(c) : CountTo(c, i) \in 1 .. NumBlocks(c)
  BY <1>1, <1>2
<1>6. ASSUME NEW b \in 1 .. NumBlocks(c)
      PROVE  BlockStart(c, b) \in Leaders(c) /\ CountTo(c, BlockStart(c, b)) = b
  <2>1. \A i \in Leaders(c) : (Cardinality({j \in Leaders(c) : j < i}) = b - 1) <=> (CountTo(c, i) = b)
    BY <1>2, <1>5
  <2>2. PICK i \in Leaders(c) : CountTo(c, i) = b
    BY <1>3
  <2>3. \E k \in Leaders(c) : Cardinality({j \in Leaders(c) : j < k}) = b - 1
    BY <2>1, <2>2
  <2>4. /\ BlockStart(c, b) \in Leaders(c)
        /\ Cardinality({j \in Leaders(c) : j < BlockStart(c, b)}) = b - 1
    BY <2>3 DEF BlockStart
  <2> QED BY <2>1, <2>4
<1>7. ASSUME NEW i \in Leaders(c)
      PROVE  BlockStart(c, CountTo(c, i)) = i
  BY <1>4, <1>5, <1>6
<1> QED BY <1>6, <1>7

LEMMA EndOf ==
  ASSUME NEW c \in Seq(Insn), c # <<>>, NEW b \in 1 .. NumBlocks(c)
  PROVE  /\ End(c, b) \in 1 .. Len(c) /\ CountTo(c, End(c, b)) = b
         /\ End(c, b) # Len(c) => End(c, b) + 1 \in Leaders(c)
         /\ b # NumBlocks(c) => End(c, b) + 1 = BlockStart(c, b + 1)
         /\ \A i \in 1 .. Len(c) : CountTo(c, i) = b /\ (i = Len(c) \/ i + 1 \in Leaders(c)) => i = End(c, b)
<1> DEFINE n == NumBlocks(c)
<1>1. Leaders(c) \in SUBSET (1 .. Len(c)) /\ Len(c) \in Nat /\ n \in Nat /\ 1 \in Leaders(c)
  BY LeadersFinite
<1>2. /\ CountTo(c, 1) = 1
      /\ CountTo(c, Len(c)) = n
      /\ \A i \in 1 .. Len(c) : CountTo(c, i) \in 1 .. n
      /\ \A i \in 1 .. Len(c) - 1 : CountTo(c, i + 1) = IF i + 1 \in Leaders(c) THEN CountTo(c, i) + 1 ELSE CountTo(c, i)
  BY CountGrows
<1>3. ASSUME NEW i \in 1 .. Len(c), i + 1 \in Leaders(c)
      PROVE  CountTo(c, i + 1) = CountTo(c, i) + 1 /\ CountTo(c, i) # n /\ CountTo(c, i) + 1 \in 1 .. n
             /\ BlockStart(c, CountTo(c, i) + 1) = i + 1
  <2>1. i \in 1 .. Len(c) - 1 /\ i + 1 \in 1 .. Len(c)
    BY <1>1, <1>3
  <2>2. CountTo(c, i + 1) = CountTo(c, i) + 1
    BY <1>2, <1>3, <2>1
  <2>3. CountTo(c, i) \in 1 .. n /\ CountTo(c, i) + 1 \in 1 .. n
    BY <1>2, <2>1, <2>2
  <2>4. BlockStart(c, CountTo(c, i + 1)) = i + 1
    BY <1>3, StartOf
  <2> HIDE DEF n
  <2>5. CountTo(c, i) # n
    BY <1>1, <2>3
  <2> QED BY <2>2, <2>3, <2>4, <2>5
<1>4. CASE b = n
  <2>1. End(c, b) = Len(c) /\ Len(c) \in 1 .. Len(c)
    BY <1>1, <1>4 DEF End
  <2> QED BY <1>2, <1>3, <1>4, <2>1
<1>5. CASE b # n
  <2>1. End(c, b) = BlockStart(c, b + 1) - 1
    BY <1>5 DEF End
  <2> DEFINE s == BlockStart(c, b + 1)
             e == End(c, b)
  <2>2. b + 1 \in 1 .. n /\ b + 1 # 1
    BY <1>1, <1>5
  <2>3. s \in Leaders(c) /\ CountTo(c, s) = b + 1
    BY <2>2, StartOf
  <2> HIDE DEF s, n
  <2>4. s \in 1 .. Len(c) /\ s # 1
    BY <1>1, <1>2, <2>2, <2>3
  <2>5. e = s - 1 /\ e \in 1 .. Len(c) /\ e + 1 = s
    BY <1>1, <2>1, <2>4 DEF s
  <2> HIDE DEF e
  <2>6. CountTo(c, e) = b
    <3>1. CountTo(c, e + 1) = CountTo(c, e) + 1 /\ CountTo(c, e) \in 1 .. n
      BY <1>2, <1>3, <2>3, <2>5
    <3> QED BY <1>1, <2>3, <2>5, <3>1
  <2>7. ASSUME NEW i \in 1 .. Len(c), CountTo(c, i) = b, i = Len(c) \/ i + 1 \in Leaders(c)
        PROVE  i = e
    <3>1. i # Len(c)
      BY <1>2, <1>5, <2>7
    <3>2. BlockStart(c, b + 1) = i + 1
      BY <1>3, <2>7, <3>1
    <3> QED BY <2>5, <3>2 DEF s
  <2> QED BY <1>5, <2>3, <2>5, <2>6, <2>7 DEF e, s
<1> QED BY <1>4, <1>5

-----------------------------------------------------------------------------
(* The edges of the graph. *)

(* Control goes from the instruction at index i to the one at index k. *)
Goes(c, i, k) ==
  /\ i \in 1 .. Len(c) /\ k \in 1 .. Len(c)
  /\ \/ FallsThrough(c[i]) /\ k = i + 1
     \/ c[k].kind = "label" /\ c[k].label \in Targets(c[i])

LEMMA SuccessorsAre ==
  ASSUME NEW c \in Seq(Insn), NEW p \in Positions(c)
  PROVE  /\ Successors(c, p) \in SUBSET Positions(c)
         /\ \A q \in Positions(c) : q \in Successors(c, p) <=> Goes(c, p + 1, q + 1)
<1>1. Len(c) \in Nat /\ p \in Int /\ p + 1 \in 1 .. Len(c)
  BY DEF Positions
<1>2. ASSUME NEW q \in Positions(c)
      PROVE  /\ q \in Int /\ q + 1 \in 1 .. Len(c) /\ (q = p + 1 <=> q + 1 = (p + 1) + 1)
  BY <1>1 DEF Positions
<1>3. Successors(c, p) \in SUBSET Positions(c)
  BY DEF Successors, LabelPositions
<1>4. ASSUME NEW q \in Positions(c)
      PROVE  q \in Successors(c, p) <=> Goes(c, p + 1, q + 1)
  <2>1. q \in UNION {LabelPositions(c, l) : l \in Targets(At(c, p))}
          <=> At(c, q).kind = "label" /\ At(c, q).label \in Targets(At(c, p))
    BY DEF LabelPositions
  <2>2. q \in Successors(c, p) <=> \/ q = p + 1 /\ FallsThrough(At(c, p))
                                   \/ At(c, q).kind = "label" /\ At(c, q).label \in Targets(At(c, p))
    BY <2>1 DEF Successors
  <2> QED BY <1>1, <1>2, <2>2 DEF At, Goes
<1> QED BY <1>3, <1>4

(* A label is placed once. *)
LEMMA LabelOnce ==
  ASSUME NEW c \in Seq(Insn), LabelsResolve(c), NEW i \in 1 .. Len(c), NEW k \in 1 .. Len(c),
         c[i].kind = "label", c[k].kind = "label", c[i].label = c[k].label
  PROVE  i = k
<1> DEFINE p == i - 1
           q == k - 1
<1>1. Len(c) \in Nat /\ p \in Positions(c) /\ q \in Positions(c) /\ p + 1 = i /\ q + 1 = k
  BY DEF Positions
<1> HIDE DEF p, q
<1>2. At(c, p) = c[i] /\ At(c, q) = c[k]
  BY <1>1 DEF At
<1>3. LabelPositions(c, c[i].label) = {p} /\ LabelPositions(c, c[k].label) = {q}
  BY <1>1, <1>2 DEF LabelsResolve
<1> QED BY <1>1, <1>3

LEMMA LabelledIs ==
  ASSUME NEW c \in Seq(Insn), c # <<>>, LabelsResolve(c), NEW l, l # None
  PROVE  /\ \A d \in Labelled(c, l) : /\ d \in 1 .. NumBlocks(c) /\ BlockStart(c, d) # 1
                                      /\ c[BlockStart(c, d)].kind = "label" /\ c[BlockStart(c, d)].label = l
         /\ \A d \in 1 .. NumBlocks(c) :
              BlockStart(c, d) # 1 /\ c[BlockStart(c, d)].kind = "label" /\ c[BlockStart(c, d)].label = l
                => d \in Labelled(c, l)
<1> DEFINE S == {b \in 1 .. NumBlocks(c) : l # None /\ BlockLabel(c, b) = l}
<1>1. /\ Leaders(c) \in SUBSET (1 .. Len(c)) /\ NumBlocks(c) \in Nat
      /\ \A b \in 1 .. NumBlocks(c) : BlockStart(c, b) \in Leaders(c) /\ CountTo(c, BlockStart(c, b)) = b
  BY LeadersFinite, StartOf
<1>2. Labelled(c, l) = {b \in S : \A d \in S : b <= d}
  BY DEF Labelled
<1>3. \A b \in S : /\ b \in 1 .. NumBlocks(c) /\ BlockStart(c, b) # 1
                   /\ c[BlockStart(c, b)].kind = "label" /\ c[BlockStart(c, b)].label = l
  BY DEF BlockLabel
<1>4. ASSUME NEW d \in 1 .. NumBlocks(c), BlockStart(c, d) # 1,
             c[BlockStart(c, d)].kind = "label", c[BlockStart(c, d)].label = l
      PROVE  d \in Labelled(c, l)
  <2>1. d \in S
    BY <1>4 DEF BlockLabel
  <2> HIDE DEF S
  <2>2. ASSUME NEW b \in S PROVE b = d
    <3>1. BlockStart(c, b) = BlockStart(c, d)
      BY <1>1, <1>3, <1>4, LabelOnce
    <3> QED BY <1>1, <1>3, <3>1
  <2> QED BY <1>2, <2>1, <2>2
<1> HIDE DEF S
<1> QED BY <1>2, <1>3, <1>4

(* Control that leaves a block leaves it at its end, for the head of a block *)
(* the graph has an edge to, if that is not the entry.                       *)
LEMMA EdgeLeaves ==
  ASSUME NEW c \in Seq(Insn), c # <<>>, LabelsResolve(c),
         \A i \in DOMAIN c : c[i].kind = "br" => c[i].labelTrue # None,
         NEW i, NEW k, Goes(c, i, k), ~(k = i + 1 /\ CountTo(c, k) = CountTo(c, i))
  PROVE  k \in Leaders(c) /\ (k # 1 => CountTo(c, k) \in Succs(c, CountTo(c, i)))
<1> DEFINE b == CountTo(c, i)
           d == CountTo(c, k)
<1>1. /\ i \in 1 .. Len(c) /\ k \in 1 .. Len(c) /\ Len(c) \in Nat /\ DOMAIN c = 1 .. Len(c)
      /\ c[i] \in Insn /\ c[k] \in Insn /\ NumBlocks(c) \in Nat
  BY LeadersFinite DEF Goes
<1>2. /\ \A x \in 1 .. Len(c) : CountTo(c, x) \in 1 .. NumBlocks(c)
      /\ \A x \in 1 .. Len(c) - 1 : CountTo(c, x + 1) = IF x + 1 \in Leaders(c) THEN CountTo(c, x) + 1 ELSE CountTo(c, x)
  BY CountGrows
<1>3. b \in 1 .. NumBlocks(c) /\ d \in 1 .. NumBlocks(c)
  BY <1>1, <1>2
<1>4. k \in Leaders(c)
  <2>1. CASE k = i + 1
    <3>1. i \in 1 .. Len(c) - 1
      BY <1>1, <2>1
    <3> QED BY <1>2, <2>1, <3>1
  <2>2. CASE c[k].kind = "label"
    BY <1>1, <2>2 DEF Leaders
  <2> QED BY <2>1, <2>2 DEF Goes
<1>5. BlockStart(c, d) = k
  BY <1>4, StartOf
<1>6. End(c, b) = i
  <2>1. CASE k = i + 1
    BY <1>1, <1>3, <1>4, <2>1, EndOf
  <2>2. CASE c[k].label \in Targets(c[i])
    <3>1. IsTerminator(c[i])
      BY <2>2 DEF Targets, IsTerminator
    <3>2. i # Len(c) => i + 1 \in 1 .. Len(c) /\ (i + 1) - 1 = i
      <4>1. i \in Int /\ 1 <= i /\ i <= Len(c) /\ Len(c) \in Int
        BY <1>1
      <4> QED BY <4>1
    <3>3. i # Len(c) => i + 1 \in Leaders(c)
      BY <1>1, <3>1, <3>2 DEF Leaders
    <3> QED BY <1>1, <1>3, <3>3, EndOf
  <2> QED BY <2>1, <2>2 DEF Goes
<1>7. ASSUME k = i + 1, FallsThrough(c[i]), k # 1
      PROVE  d \in NextBlock(c, b)
  <2>1. i \in 1 .. Len(c) - 1
    BY <1>1, <1>7
  <2>2. d = b + 1
    BY <1>2, <1>4, <1>7, <2>1
  <2> QED BY <1>3, <2>2 DEF NextBlock
<1>8. ASSUME c[k].kind = "label", NEW l, l # None, c[k].label = l, k # 1
      PROVE  d \in Labelled(c, l)
  BY <1>3, <1>5, <1>8, LabelledIs
<1>9. i \in DOMAIN c => (c[i].kind = "br" => c[i].labelTrue # None)
  OBVIOUS
<1> HIDE DEF b, d
<1>10. ASSUME k # 1
       PROVE  d \in Succs(c, b)
  <2>1. c[i].kind = "jmp" => Succs(c, b) = Labelled(c, c[i].label)
    BY <1>6 DEF Succs
  <2>2. c[i].kind = "br" => Succs(c, b) = Labelled(c, c[i].labelTrue) \cup
          (IF c[i].labelFalse # None THEN Labelled(c, c[i].labelFalse) ELSE NextBlock(c, b))
    BY <1>6 DEF Succs
  <2>3. c[i].kind \notin {"jmp", "br", "ret"} => Succs(c, b) = NextBlock(c, b)
    BY <1>6 DEF Succs
  <2>4. CASE FallsThrough(c[i]) /\ k = i + 1
    <3>1. c[i].kind \notin {"jmp", "ret"} /\ (c[i].kind = "br" => None \in {c[i].labelTrue, c[i].labelFalse})
      BY <2>4 DEF FallsThrough
    <3>2. d \in NextBlock(c, b)
      BY <1>7, <1>10, <2>4
    <3> QED BY <1>1, <1>9, <2>2, <2>3, <3>1, <3>2
  <2>5. CASE c[k].kind = "label" /\ c[k].label \in Targets(c[i])
    <3>1. \/ c[i].kind = "jmp" /\ c[k].label = c[i].label /\ c[k].label # None
          \/ c[i].kind = "br" /\ c[k].label \in {c[i].labelTrue, c[i].labelFalse} /\ c[k].label # None
      BY <2>5 DEF Targets
    <3>2. d \in Labelled(c, c[k].label)
      BY <1>8, <1>10, <2>5, <3>1
    <3> QED BY <2>1, <2>2, <3>1, <3>2
  <2> QED BY <2>4, <2>5 DEF Goes
<1> QED BY <1>4, <1>10 DEF b, d

(* Control may take every edge of the graph. *)
LEMMA EdgeTaken ==
  ASSUME NEW c \in Seq(Insn), c # <<>>, LabelsResolve(c), NEW b \in 1 .. NumBlocks(c), NEW d \in Succs(c, b)
  PROVE  /\ d \in 1 .. NumBlocks(c) /\ Goes(c, End(c, b), BlockStart(c, d))
         /\ CountTo(c, End(c, b)) = b /\ CountTo(c, BlockStart(c, d)) = d
         /\ BlockStart(c, d) # 1
         /\ ~(BlockStart(c, d) = End(c, b) + 1 /\ d = b)
<1> DEFINE i == End(c, b)
           k == BlockStart(c, d)
<1>1. d \in 1 .. NumBlocks(c)
  BY DEF Succs, Labelled, NextBlock
<1>2. k \in Leaders(c) /\ CountTo(c, k) = d
  BY <1>1, StartOf
<1>3. Leaders(c) \in SUBSET (1 .. Len(c)) /\ Len(c) \in Nat /\ NumBlocks(c) \in Nat /\ DOMAIN c = 1 .. Len(c)
  BY LeadersFinite
<1>4. k \in 1 .. Len(c)
  BY <1>2, <1>3
<1>5. i \in 1 .. Len(c) /\ CountTo(c, i) = b /\ (b # NumBlocks(c) => i + 1 = BlockStart(c, b + 1))
  BY EndOf
<1>6. ASSUME k = i + 1 PROVE d # b
  <2>1. i \in 1 .. Len(c) - 1
    BY <1>3, <1>4, <1>5, <1>6
  <2>2. CountTo(c, i + 1) = CountTo(c, i) + 1
    BY <1>2, <1>6, <2>1, CountGrows
  <2> QED BY <1>2, <1>5, <1>6, <2>2
<1>7. ASSUME d \in NextBlock(c, b)
      PROVE  k = i + 1 /\ k # 1
  <2>1. d = b + 1 /\ b # NumBlocks(c)
    BY <1>1, <1>3, <1>7 DEF NextBlock
  <2>2. k = i + 1
    BY <1>5, <2>1
  <2>3. k # 1
    BY <1>5, <2>2
  <2> QED BY <2>2, <2>3
<1>8. ASSUME NEW l, l # None, d \in Labelled(c, l)
      PROVE  c[k].kind = "label" /\ c[k].label = l /\ k # 1
  BY <1>8, LabelledIs
<1>9. \A l : d \in Labelled(c, l) => l # None
  BY DEF Labelled
<1> HIDE DEF i, k
<1>10. \/ k = i + 1 /\ k # 1 /\ FallsThrough(c[i])
       \/ k # 1 /\ c[k].kind = "label" /\ c[k].label \in Targets(c[i])
  <2>1. CASE c[i].kind = "jmp"
    <3>1. d \in Labelled(c, c[i].label)
      BY <2>1 DEF Succs, i
    <3> QED BY <1>8, <1>9, <2>1, <3>1 DEF Targets
  <2>2. CASE c[i].kind = "ret"
    BY <2>2 DEF Succs, i
  <2>3. CASE c[i].kind = "br"
    <3>1. \/ d \in Labelled(c, c[i].labelTrue)
          \/ d \in Labelled(c, c[i].labelFalse)
          \/ c[i].labelFalse = None /\ d \in NextBlock(c, b)
      BY <2>3 DEF Succs, i
    <3>2. ASSUME d \in Labelled(c, c[i].labelTrue) \/ d \in Labelled(c, c[i].labelFalse)
          PROVE  k # 1 /\ c[k].kind = "label" /\ c[k].label \in Targets(c[i])
      BY <1>8, <1>9, <2>3, <3>2 DEF Targets
    <3>3. ASSUME c[i].labelFalse = None, d \in NextBlock(c, b)
          PROVE  k = i + 1 /\ k # 1 /\ FallsThrough(c[i])
      BY <1>7, <2>3, <3>3 DEF FallsThrough
    <3> QED BY <3>1, <3>2, <3>3
  <2>4. CASE c[i].kind \notin {"jmp", "br", "ret"}
    <3>1. d \in NextBlock(c, b)
      BY <2>4 DEF Succs, i
    <3> QED BY <1>7, <2>4, <3>1 DEF FallsThrough
  <2> QED BY <2>1, <2>2, <2>3, <2>4
<1>11. Goes(c, i, k) /\ k # 1
  BY <1>4, <1>5, <1>10 DEF Goes
<1> QED BY <1>1, <1>2, <1>5, <1>6, <1>11 DEF i, k

(* ir_build_cfg's graph is the function's flow of control. *)
LEMMA GraphIsRight ==
  ASSUME func \in Seq(Insn), func # <<>>, LabelsResolve(func), cfg = ir_build_cfg(func), BranchesJumpWhenTrue
  PROVE  GraphIsFlow
<1> DEFINE n == NumBlocks(func)
           blockAt == [i \in DOMAIN func |-> Cardinality({j \in Leaders(func) : j <= i})]
           flow == UNION {{<<p + 1, q + 1>> : q \in Successors(func, p)} : p \in Positions(func)}
           within == {e \in flow : e[2] = e[1] + 1 /\ blockAt[e[2]] = blockAt[e[1]]}
           graph == UNION {{<<b, d>> : d \in cfg[b].succs} : b \in DOMAIN cfg}
           crossing == {<<blockAt[e[1]], blockAt[e[2]]>> : e \in {f \in flow \ within : f[2] # 1}}
           preds == UNION {{<<p, b>> : p \in cfg[b].preds} : b \in DOMAIN cfg}
<1>1. /\ n \in Nat /\ DOMAIN cfg = 1 .. n /\ Len(cfg) = n
      /\ \A b \in 1 .. n : /\ cfg[b].succs = Succs(func, b) /\ cfg[b].succs \in SUBSET (1 .. n)
                           /\ cfg[b].preds = {p \in 1 .. n : b \in cfg[p].succs}
  <2>1. Graph(cfg, n) /\ \A b \in 1 .. n : cfg[b].succs = Succs(func, b)
    BY GraphBuilt
  <2> QED BY <2>1 DEF Graph
<1>2. Len(func) \in Nat /\ DOMAIN func = 1 .. Len(func)
  OBVIOUS
<1>3. \A i \in 1 .. Len(func) : blockAt[i] = CountTo(func, i) /\ CountTo(func, i) \in 1 .. n
  BY <1>2, CountGrows DEF CountTo
<1>4. ASSUME NEW e \in flow
      PROVE  e = <<e[1], e[2]>> /\ Goes(func, e[1], e[2])
  <2>a. PICK p \in Positions(func) : \E q \in Successors(func, p) : e = <<p + 1, q + 1>>
    OBVIOUS
  <2>1. PICK q \in Successors(func, p) : e = <<p + 1, q + 1>>
    BY <2>a
  <2>2. Goes(func, p + 1, q + 1)
    BY <2>1, SuccessorsAre
  <2> QED BY <2>1, <2>2
<1>5. ASSUME NEW i, NEW k, Goes(func, i, k)
      PROVE  <<i, k>> \in flow
  <2> DEFINE p == i - 1
             q == k - 1
  <2>1. p \in Positions(func) /\ q \in Positions(func) /\ p + 1 = i /\ q + 1 = k
    BY <1>2, <1>5 DEF Goes, Positions
  <2> HIDE DEF p, q
  <2>2. q \in Successors(func, p)
    BY <1>5, <2>1, SuccessorsAre
  <2> QED BY <2>1, <2>2
<1> HIDE DEF flow, blockAt
<1>6. ASSUME NEW e \in flow \ within
      PROVE  /\ e[2] \in Leaders(func)
             /\ e[2] # 1 => <<blockAt[e[1]], blockAt[e[2]]>> \in graph
  <2>1. Goes(func, e[1], e[2]) /\ e[1] \in 1 .. Len(func) /\ e[2] \in 1 .. Len(func)
    BY <1>4, <1>6 DEF Goes
  <2>2. ~(e[2] = e[1] + 1 /\ CountTo(func, e[2]) = CountTo(func, e[1]))
    BY <1>3, <1>6, <2>1
  <2>3. e[2] \in Leaders(func) /\ (e[2] # 1 => CountTo(func, e[2]) \in Succs(func, CountTo(func, e[1])))
    BY <2>1, <2>2, EdgeLeaves DEF BranchesJumpWhenTrue
  <2>4. blockAt[e[1]] \in 1 .. n /\ blockAt[e[1]] = CountTo(func, e[1]) /\ blockAt[e[2]] = CountTo(func, e[2])
    BY <1>3, <2>1
  <2>5. e[2] # 1 => blockAt[e[2]] \in cfg[blockAt[e[1]]].succs
    BY <1>1, <2>3, <2>4
  <2> QED BY <1>1, <2>3, <2>4, <2>5
<1>7. ASSUME NEW b \in 1 .. n, NEW d \in cfg[b].succs
      PROVE  <<b, d>> \in crossing
  <2> DEFINE e == <<End(func, b), BlockStart(func, d)>>
  <2>1. /\ Goes(func, End(func, b), BlockStart(func, d))
        /\ CountTo(func, End(func, b)) = b /\ CountTo(func, BlockStart(func, d)) = d
        /\ BlockStart(func, d) # 1
        /\ ~(BlockStart(func, d) = End(func, b) + 1 /\ d = b)
    BY <1>1, <1>7, EdgeTaken
  <2>2. e \in flow /\ e[1] = End(func, b) /\ e[2] = BlockStart(func, d)
    BY <1>5, <2>1
  <2> HIDE DEF e
  <2>3. e[1] \in 1 .. Len(func) /\ e[2] \in 1 .. Len(func)
    BY <2>1, <2>2 DEF Goes
  <2>4. blockAt[e[1]] = b /\ blockAt[e[2]] = d
    BY <1>3, <2>1, <2>2, <2>3
  <2>5. e \notin within /\ e[2] # 1
    BY <2>1, <2>2, <2>4
  <2> QED BY <2>2, <2>4, <2>5
<1>8. crossing \subseteq graph
  BY <1>6
<1>9. graph \subseteq crossing
  <2> SUFFICES ASSUME NEW g \in graph PROVE g \in crossing
    OBVIOUS
  <2>a. PICK b \in 1 .. n : \E d \in cfg[b].succs : g = <<b, d>>
    BY <1>1
  <2>1. PICK d \in cfg[b].succs : g = <<b, d>>
    BY <2>a
  <2> HIDE DEF crossing
  <2> QED BY <1>7, <2>1
<1>10. graph = preds
  <2>1. \A b \in 1 .. n : \A d \in cfg[b].succs : d \in 1 .. n /\ b \in cfg[d].preds
    BY <1>1
  <2>2. \A b \in 1 .. n : \A p \in cfg[b].preds : p \in 1 .. n /\ b \in cfg[p].succs
    BY <1>1
  <2>3. graph \subseteq preds
    <3> SUFFICES ASSUME NEW b \in 1 .. n, NEW d \in cfg[b].succs PROVE <<b, d>> \in preds
      BY <1>1
    <3> QED BY <1>1, <2>1
  <2>4. preds \subseteq graph
    <3> SUFFICES ASSUME NEW b \in 1 .. n, NEW p \in cfg[b].preds PROVE <<p, b>> \in graph
      BY <1>1
    <3> QED BY <1>1, <2>2
  <2> QED BY <2>3, <2>4
<1>11. GraphIsFlow <=> /\ Len(cfg) = Cardinality(Leaders(func))
                       /\ crossing = graph
                       /\ \A e \in flow \ within : e[2] \in Leaders(func)
                       /\ graph = preds
  BY DEF GraphIsFlow, flow, blockAt
<1>12. Len(cfg) = Cardinality(Leaders(func))
  BY <1>1 DEF NumBlocks
<1>13. \A e \in flow \ within : e[2] \in Leaders(func)
  BY <1>6
<1> HIDE DEF crossing, graph, within, preds
<1> QED BY <1>8, <1>9, <1>10, <1>11, <1>12, <1>13

-----------------------------------------------------------------------------
(* The linear liveness. *)

(* Where control goes forward, a value is live no later than its last use. *)
LEMMA LiveBeforeUse ==
  ASSUME NEW c \in Seq(Insn), NEW v \in VRegs,
         \A p \in Positions(c) : \A q \in Successors(c, p) : p < q,
         NEW p \in LiveIn(c, v)
  PROVE  p \in Positions(c) /\ \E u \in Uses(c, v) : p <= u
<1> DEFINE X == {x \in Positions(c) : \E u \in Uses(c, v) : x <= u}
<1>1. Uses(c, v) \in SUBSET Positions(c) /\ Positions(c) \in SUBSET Int
  BY DEF Uses, Positions
<1>2. Uses(c, v) \subseteq X /\ X \in SUBSET Positions(c)
  BY <1>1
<1>3. ASSUME NEW x \in Positions(c), NEW q \in Successors(c, x) \cap X
      PROVE  x \in X
  <2>1. PICK u \in Uses(c, v) : q <= u
    OBVIOUS
  <2>2. x < q /\ x \in Int /\ q \in Int /\ u \in Int
    BY <1>1
  <2>3. x <= u
    BY <2>1, <2>2
  <2> QED BY <2>3
<1> HIDE DEF X
<1>4. Grow(c, v, X) = X
  BY <1>2, <1>3 DEF Grow
<1>5. LiveIn(c, v) \subseteq X
  BY <1>2, <1>4, LiveInIsLeast DEF Grown
<1> QED BY <1>5 DEF X

LEMMA LivenessIsRight ==
  ASSUME func \in Seq(Insn), liveness = <<ir_compute_liveness(func)>>, ForwardOnly
  PROVE  LivenessCovers
<1> DEFINE l == ir_compute_liveness(func)
<1>1. liveness[1] = l
  OBVIOUS
<1>2. /\ Len(func) \in Nat /\ Positions(func) = 0 .. Len(func) - 1 /\ Positions(func) \in SUBSET Nat
      /\ \A p \in Positions(func) : p \in Int
  BY DEF Positions
<1>3. \A p \in Positions(func) : \A q \in Successors(func, p) : p < q /\ q \in Positions(func)
  BY SuccessorsAre DEF ForwardOnly
<1>4. ASSUME NEW v \in VRegs
      PROVE  /\ \A p \in LiveIn(func, v) : (\E d \in Defs(func, v) : d < p) => l.def[v] < p /\ p <= l.last[v]
             /\ (\E p \in LiveOut(func, v), d \in Defs(func, v) : At(func, p).kind = "call" /\ d < p)
                  /\ (\A p \in Uses(func, v) : At(func, p).kind # "call")
                => l.across[v]
             /\ l.across[v] => \E p \in Positions(func) : At(func, p).kind = "call" /\ l.def[v] < p /\ p <= l.last[v]
  <2> DEFINE M == Mentions(func, v)
             first == First(M)
             final == Final(M)
             across == M # {} /\ \E u \in {x \in Uses(func, v) : At(func, x).kind # "call"} :
                         \E q \in Positions(func) : At(func, q).kind = "call" /\ first < q /\ q <= u
  <2>1. l.across[v] <=> across
    BY DEF ir_compute_liveness
  <2>2. M # {} => l.def[v] = first /\ l.last[v] = final
    BY DEF ir_compute_liveness
  <2>3. /\ M \in SUBSET Positions(func) /\ Uses(func, v) \in SUBSET M /\ Defs(func, v) \in SUBSET M
    BY DEF Mentions, Uses, Defs
  <2> HIDE DEF M, l
  <2>4. ASSUME M # {}
        PROVE  /\ first \in Positions(func) /\ final \in Positions(func)
               /\ \A m \in M : first <= m /\ m <= final
    <3>1. M \in SUBSET Nat /\ M \in SUBSET (0 .. Len(func) - 1)
      BY <1>2, <2>3
    <3>2. first \in M /\ \A m \in M : first <= m
      BY <2>4, <3>1, LeastIsFirst
    <3>3. final \in M /\ \A m \in M : m <= final
      BY <1>2, <2>4, <3>1, GreatestIsFinal
    <3> QED BY <2>3, <3>2, <3>3
  <2> HIDE DEF first, final
  <2>5. ASSUME NEW p \in LiveIn(func, v)
        PROVE  p \in Positions(func) /\ \E u \in Uses(func, v) : p <= u
    BY <1>3, LiveBeforeUse
  <2>6. ASSUME NEW p \in LiveIn(func, v), NEW d \in Defs(func, v), d < p
        PROVE  l.def[v] < p /\ p <= l.last[v]
    <3>1. PICK u \in Uses(func, v) : p <= u
      BY <2>5
    <3>2. M # {} /\ first <= d /\ u <= final /\ l.def[v] = first /\ l.last[v] = final
      BY <2>2, <2>3, <2>4
    <3>3. first \in Int /\ final \in Int /\ d \in Int /\ u \in Int /\ p \in Int
      BY <1>2, <2>3, <2>4, <2>5, <3>2
    <3> QED BY <2>6, <3>1, <3>2, <3>3
  <2>7. ASSUME NEW p \in LiveOut(func, v), NEW d \in Defs(func, v), At(func, p).kind = "call", d < p,
               \A u \in Uses(func, v) : At(func, u).kind # "call"
        PROVE  across
    <3>1. p \in Positions(func) /\ \E q \in LiveIn(func, v) : p < q
      BY <1>3 DEF LiveOut
    <3>2. PICK q \in LiveIn(func, v) : p < q
      BY <3>1
    <3>3. PICK u \in Uses(func, v) : q <= u
      BY <2>5
    <3>4. M # {} /\ first <= d
      BY <2>3, <2>4
    <3>5. first \in Int /\ d \in Int /\ u \in Int /\ p \in Int /\ q \in Int
      BY <1>2, <2>3, <2>4, <2>5, <3>1, <3>4
    <3>6. first < p /\ p <= u
      BY <2>7, <3>2, <3>3, <3>4, <3>5
    <3> QED BY <2>7, <3>1, <3>4, <3>6
  <2>8. ASSUME across
        PROVE  \E p \in Positions(func) : At(func, p).kind = "call" /\ l.def[v] < p /\ p <= l.last[v]
    <3>1. PICK u \in Uses(func, v) : \E q \in Positions(func) : At(func, q).kind = "call" /\ first < q /\ q <= u
      BY <2>8
    <3>2. PICK q \in Positions(func) : At(func, q).kind = "call" /\ first < q /\ q <= u
      BY <3>1
    <3>3. M # {} /\ u <= final /\ l.def[v] = first /\ l.last[v] = final
      BY <2>2, <2>3, <2>4
    <3>4. final \in Int /\ u \in Int /\ q \in Int
      BY <1>2, <2>3, <2>4, <3>3
    <3>5. q <= final
      BY <3>2, <3>3, <3>4
    <3> QED BY <3>2, <3>3, <3>5
  <2> HIDE DEF across
  <2> QED BY <2>1, <2>6, <2>7, <2>8
<1> HIDE DEF l
<1> QED BY <1>1, <1>4 DEF LivenessCovers

-----------------------------------------------------------------------------
(* What a pass removes is no label. *)
LEMMA RemovedKeepsLabels ==
  ASSUME NEW c \in Seq(Insn), LabelsResolve(c), NEW i \in DOMAIN c, c[i].kind # "label"
  PROVE  LET rest == [j \in 1 .. Len(c) - 1 |-> c[IF j < i THEN j ELSE j + 1]]
         IN rest \in Seq(Insn) /\ LabelsResolve(rest)
<1> DEFINE rest == [j \in 1 .. Len(c) - 1 |-> c[IF j < i THEN j ELSE j + 1]]
           from(j) == IF j < i THEN j ELSE j + 1
           to(k) == IF k < i THEN k ELSE k - 1
<1>1. /\ Len(c) \in Nat /\ DOMAIN c = 1 .. Len(c) /\ i \in Int /\ 1 <= i /\ i <= Len(c) /\ Len(c) - 1 \in Nat
      /\ \A k \in 1 .. Len(c) : c[k] \in Insn
  OBVIOUS
<1>2. ASSUME NEW j \in 1 .. Len(c) - 1
      PROVE  from(j) \in 1 .. Len(c) /\ from(j) # i /\ to(from(j)) = j /\ rest[j] = c[from(j)]
  BY <1>1
<1>3. ASSUME NEW k \in 1 .. Len(c), k # i
      PROVE  to(k) \in 1 .. Len(c) - 1 /\ from(to(k)) = k
  <2>1. k \in Int /\ 1 <= k /\ k <= Len(c) /\ Len(c) \in Int
    BY <1>1
  <2>2. CASE k < i
    BY <1>1, <2>1, <2>2
  <2>3. CASE i < k
    <3>1. to(k) = k - 1 /\ k - 1 \in 1 .. Len(c) - 1 /\ ~(k - 1 < i) /\ (k - 1) + 1 = k
      BY <1>1, <2>1, <2>3
    <3> QED BY <3>1
  <2> QED BY <1>1, <1>3, <2>1, <2>2, <2>3
<1>4. rest \in Seq(Insn) /\ Len(rest) = Len(c) - 1
  BY <1>1, <1>2
<1> HIDE DEF rest, from, to
<1>5. ASSUME NEW j \in 1 .. Len(c) - 1, NEW l \in Targets(rest[j])
      PROVE  LabelPositions(rest, l) # {}
  <2> DEFINE p == from(j) - 1
  <2>1. p \in Positions(c) /\ At(c, p) = rest[j]
    <3>1. from(j) \in 1 .. Len(c) /\ rest[j] = c[from(j)]
      BY <1>2
    <3>2. p \in Positions(c) /\ p + 1 = from(j)
      BY <1>1, <3>1 DEF Positions
    <3> QED BY <3>1, <3>2 DEF At
  <2>2. LabelPositions(c, l) # {}
    BY <1>5, <2>1 DEF LabelsResolve
  <2>3. PICK q \in Positions(c) : At(c, q).kind = "label" /\ At(c, q).label = l
    BY <2>2 DEF LabelPositions
  <2>4. q + 1 \in 1 .. Len(c) /\ c[q + 1].kind = "label" /\ c[q + 1].label = l
    BY <1>1, <2>3 DEF Positions, At
  <2> DEFINE k == to(q + 1)
  <2>5. k \in 1 .. Len(c) - 1 /\ rest[k] = c[q + 1]
    <3>1. k \in 1 .. Len(c) - 1 /\ from(k) = q + 1
      BY <1>3, <2>4
    <3> HIDE DEF k
    <3> QED BY <1>2, <3>1
  <2> HIDE DEF k
  <2>6. k - 1 \in Positions(rest) /\ (k - 1) + 1 = k
    BY <1>1, <1>4, <2>5 DEF Positions
  <2>7. k - 1 \in LabelPositions(rest, l)
    BY <2>4, <2>5, <2>6 DEF LabelPositions, At
  <2> QED BY <2>7
<1>6. ASSUME NEW j \in 1 .. Len(c) - 1, NEW k \in 1 .. Len(c) - 1,
             rest[j].kind = "label", rest[k].kind = "label", rest[j].label = rest[k].label
      PROVE  j = k
  <2>1. /\ from(j) \in 1 .. Len(c) /\ to(from(j)) = j /\ rest[j] = c[from(j)]
        /\ from(k) \in 1 .. Len(c) /\ to(from(k)) = k /\ rest[k] = c[from(k)]
    BY <1>2
  <2>2. from(j) = from(k)
    BY <1>6, <2>1, LabelOnce
  <2> QED BY <2>1, <2>2
<1>7. ASSUME NEW p \in Positions(rest)
      PROVE  /\ \A l \in Targets(At(rest, p)) : LabelPositions(rest, l) # {}
             /\ At(rest, p).kind = "label" => LabelPositions(rest, At(rest, p).label) = {p}
  <2>1. p + 1 \in 1 .. Len(c) - 1 /\ p \in Int
    BY <1>1, <1>4 DEF Positions
  <2>2. \A q \in Positions(rest) : q + 1 \in 1 .. Len(c) - 1 /\ q \in Int
    BY <1>1, <1>4 DEF Positions
  <2>3. \A l \in Targets(At(rest, p)) : LabelPositions(rest, l) # {}
    BY <1>5, <2>1 DEF At
  <2>4. ASSUME At(rest, p).kind = "label", NEW q \in LabelPositions(rest, At(rest, p).label)
        PROVE  q = p
    <3>1. q \in Positions(rest) /\ At(rest, q).kind = "label" /\ At(rest, q).label = At(rest, p).label
      BY DEF LabelPositions
    <3>2. q + 1 = p + 1
      BY <1>6, <2>1, <2>2, <2>4, <3>1 DEF At
    <3>3. q \in Int /\ p \in Int
      BY <2>1, <2>2, <3>1
    <3>4. \A x, y \in Int : x + 1 = y + 1 => x = y
      OBVIOUS
    <3> QED BY <3>2, <3>3, <3>4
  <2>5. At(rest, p).kind = "label" => p \in LabelPositions(rest, At(rest, p).label)
    BY DEF LabelPositions
  <2> QED BY <2>3, <2>4, <2>5
<1>8. LabelsResolve(rest)
  BY <1>7 DEF LabelsResolve
<1> QED BY <1>4, <1>8 DEF rest

-----------------------------------------------------------------------------
(* What is cached was computed from the function as it is; a tree was grown  *)
(* from its entry, and a settled one is what another round would leave.      *)
CachedIsOfFunction ==
  /\ func \in Seq(Insn) /\ LabelsResolve(func)
  /\ cfg = <<>> \/ (func # <<>> /\ cfg = ir_build_cfg(func))
  /\ dom = NoTree \/ (dom.state \in {"changed", "settled"} /\ cfg # <<>> /\ Built(cfg, NumBlocks(func), dom.idom))
  /\ dom.state = "settled" => Swept(cfg, dom.idom) = dom.idom
  /\ liveness = <<>> \/ liveness = <<ir_compute_liveness(func)>>

LEMMA CachedAtStart == InitAnalysis => CachedIsOfFunction
BY AnalyzedResolve DEF InitAnalysis, CachedIsOfFunction, NoTree

LEMMA EmptyGraph == ir_build_cfg(<<>>) = <<>>
<1>1. Leaders(<<>>) = {}
  BY DEF Leaders
<1>2. NumBlocks(<<>>) = 0
  BY <1>1, FS_EmptySet DEF NumBlocks
<1>3. 1 .. 0 = {}
  OBVIOUS
<1> QED BY <1>2, <1>3 DEF ir_build_cfg

LEMMA CachedKept ==
  ASSUME CachedIsOfFunction, [NextAnalysis]_analysisVars
  PROVE  CachedIsOfFunction'
<1>1. CASE GetCfg
  <2>1. cfg' = <<>> \/ (func # <<>> /\ cfg' = ir_build_cfg(func))
    BY <1>1, EmptyGraph DEF GetCfg, CachedIsOfFunction
  <2>2. cfg # <<>> => cfg' = cfg
    BY <1>1 DEF GetCfg
  <2>3. cfg = <<>> => dom = NoTree
    BY DEF CachedIsOfFunction
  <2> QED BY <1>1, <2>1, <2>2, <2>3 DEF GetCfg, CachedIsOfFunction, NoTree
<1>2. CASE BeginDomTree
  <2>1. func # <<>> /\ cfg = ir_build_cfg(func) /\ func \in Seq(Insn)
    BY <1>2 DEF BeginDomTree, CachedIsOfFunction
  <2>2. Graph(cfg, NumBlocks(func))
    BY <2>1, GraphBuilt
  <2>3. Built(cfg, NumBlocks(func), [b \in DOMAIN cfg |-> IF b = 1 THEN 1 ELSE 0])
    BY <2>2, BuiltBegins
  <2>4. dom'.state = "changed" /\ dom'.idom = [b \in DOMAIN cfg |-> IF b = 1 THEN 1 ELSE 0]
    BY <1>2 DEF BeginDomTree
  <2> QED BY <1>2, <2>3, <2>4 DEF BeginDomTree, CachedIsOfFunction
<1>3. CASE SweepBlocks
  <2>1. dom # NoTree
    BY <1>3 DEF SweepBlocks, NoTree
  <2>2. func # <<>> /\ cfg = ir_build_cfg(func) /\ func \in Seq(Insn) /\ Built(cfg, NumBlocks(func), dom.idom) /\ cfg # <<>>
    BY <2>1 DEF CachedIsOfFunction
  <2>3. Graph(cfg, NumBlocks(func))
    BY <2>2, GraphBuilt
  <2>4. Built(cfg, NumBlocks(func), Swept(cfg, dom.idom))
    BY <2>2, <2>3, SweptKeeps
  <2>5. /\ dom'.idom = Swept(cfg, dom.idom)
        /\ dom'.state = IF Swept(cfg, dom.idom) = dom.idom THEN "settled" ELSE "changed"
    BY <1>3 DEF SweepBlocks
  <2>6. dom'.state = "settled" => Swept(cfg, dom'.idom) = dom'.idom
    BY <2>5
  <2> QED BY <1>3, <2>2, <2>4, <2>5, <2>6 DEF SweepBlocks, CachedIsOfFunction
<1>4. CASE GetLiveness
  BY <1>4 DEF GetLiveness, CachedIsOfFunction
<1>5. CASE PassChanges
  <2>1. PICK i \in DOMAIN func : /\ func[i].kind # "label"
                                 /\ func' = [j \in 1 .. Len(func) - 1 |-> func[IF j < i THEN j ELSE j + 1]]
    BY <1>5 DEF PassChanges
  <2>2. func' \in Seq(Insn) /\ LabelsResolve(func')
    BY <2>1, RemovedKeepsLabels DEF CachedIsOfFunction
  <2> QED BY <1>5, <2>2 DEF PassChanges, CachedIsOfFunction, NoTree
<1>6. CASE UNCHANGED analysisVars
  BY <1>6 DEF analysisVars, CachedIsOfFunction
<1> QED BY <1>1, <1>2, <1>3, <1>4, <1>5, <1>6 DEF NextAnalysis

LEMMA CachedSuffices == CachedIsOfFunction => AnalysesAgreeWithPaths
<1> SUFFICES ASSUME CachedIsOfFunction PROVE AnalysesAgreeWithPaths
  OBVIOUS
<1>1. func \in Seq(Insn) /\ LabelsResolve(func)
  BY DEF CachedIsOfFunction
<1>2. cfg # <<>> => func # <<>> /\ cfg = ir_build_cfg(func)
  BY DEF CachedIsOfFunction
<1>3. cfg # <<>> /\ BranchesJumpWhenTrue => GraphIsFlow
  BY <1>1, <1>2, GraphIsRight
<1>4. ASSUME dom.state = "settled"
      PROVE  TreeIsDominance
  <2>1. dom # NoTree
    BY <1>4 DEF NoTree
  <2>2. cfg # <<>> /\ Built(cfg, NumBlocks(func), dom.idom) /\ Swept(cfg, dom.idom) = dom.idom
    BY <1>4, <2>1 DEF CachedIsOfFunction
  <2>3. Graph(cfg, NumBlocks(func))
    BY <1>1, <1>2, <2>2, GraphBuilt
  <2>4. SettledTree(cfg, NumBlocks(func), dom.idom)
    BY <2>2, <2>3, SweptKeeps DEF SettledTree
  <2> QED BY <2>3, <2>4, TreeIsRight
<1>5. ASSUME liveness # <<>>, ForwardOnly
      PROVE  LivenessCovers
  <2>1. liveness = <<ir_compute_liveness(func)>>
    BY <1>5 DEF CachedIsOfFunction
  <2> QED BY <1>1, <1>5, <2>1, LivenessIsRight
<1> QED BY <1>3, <1>4, <1>5 DEF AnalysesAgreeWithPaths

(* The graph, the settled dominator tree and the linear liveness that the    *)
(* pass context caches are about the function as it is now, for every        *)
(* function whose labels resolve and after any changes: ir_build_cfg,        *)
(* ir_build_dom_tree, ir_compute_liveness, ir_invalidate_analyses.           *)
THEOREM AnalysesAlwaysAgree == AnalysisSpec => []AnalysesAgreeWithPaths
<1>1. AnalysisSpec => []CachedIsOfFunction
  BY CachedAtStart, CachedKept, PTL DEF AnalysisSpec
<1> QED BY <1>1, CachedSuffices, PTL

(* The climbs of Intersect, of ir_dom_dominates and of dom_depth end while   *)
(* the tree is built and after: every block's idom has a lower rank than it. *)
TreeHasNoCycle ==
  dom.state # "none" => \E rank, K : Tree(NumBlocks(func), dom.idom, rank, K)

(* The tree never has a cycle, although a block may be given an idom that is *)
(* not above the one it had: ir_build_dom_tree, Intersect.                   *)
THEOREM ClimbsEnd == AnalysisSpec => []TreeHasNoCycle
<1>1. AnalysisSpec => []CachedIsOfFunction
  BY CachedAtStart, CachedKept, PTL DEF AnalysisSpec
<1>2. CachedIsOfFunction => TreeHasNoCycle
  <2> SUFFICES ASSUME CachedIsOfFunction, dom.state # "none"
               PROVE  \E rank, K : Tree(NumBlocks(func), dom.idom, rank, K)
    BY DEF TreeHasNoCycle
  <2>1. dom # NoTree
    BY DEF NoTree
  <2>2. func \in Seq(Insn) /\ func # <<>> /\ cfg = ir_build_cfg(func) /\ Built(cfg, NumBlocks(func), dom.idom)
    BY <2>1 DEF CachedIsOfFunction
  <2>3. Graph(cfg, NumBlocks(func))
    BY <2>2, GraphBuilt
  <2>4. PICK path, rank, K : GrownTree(cfg, NumBlocks(func), dom.idom, path, rank, K)
    BY <2>2 DEF Built
  <2> QED BY <2>3, <2>4, GrownIsTree
<1> QED BY <1>1, <1>2, PTL
=============================================================================
