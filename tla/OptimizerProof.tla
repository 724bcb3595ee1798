---------------------------- MODULE OptimizerProof ----------------------------
(* Machine-checked proofs about Optimizer: the passes that only delete or    *)
(* redirect instructions keep what the function does.                        *)
EXTENDS Optimizer, NaturalsInduction, WellFoundedInduction, TLAPS

-----------------------------------------------------------------------------
(* Induction and iteration. *)

LEMMA LeastElement ==
  ASSUME NEW S \in SUBSET Nat, S # {}
  PROVE  \E n \in S : \A p \in S : n <= p
<1> DEFINE R == OpToRel(<, Nat)
<1>1. \A x, y \in Nat : <<y, x>> \in R <=> y < x
  BY DEF OpToRel
<1>2. IsWellFoundedOn(R, Nat)
  BY NatLessThanWellFounded
<1> HIDE DEF R
<1>3. PICK n \in S : \A p \in S : ~(<<p, n>> \in R)
  BY <1>2, WFMin
<1>4. ASSUME NEW p \in S
      PROVE  n <= p
  <2>1. ~(p < n)
    BY <1>1, <1>3
  <2> QED BY <2>1
<1> QED BY <1>4

(* What holds at the start and is kept by every step holds to the end. *)
LEMMA Stepwise ==
  ASSUME NEW N \in Nat, NEW Good, 0 \in Good, \A k \in 0 .. N - 1 : k \in Good => k + 1 \in Good
  PROVE  \A k \in 0 .. N : k \in Good
<1> DEFINE Bad == (0 .. N) \ Good
<1> SUFFICES ASSUME Bad # {} PROVE FALSE
  OBVIOUS
<1>1. Bad \in SUBSET Nat
  OBVIOUS
<1>2. PICK m \in Bad : \A p \in Bad : m <= p
  BY <1>1, LeastElement
<1>3. m \in 1 .. N /\ m - 1 \in 0 .. N - 1 /\ ~(m <= m - 1) /\ m - 1 + 1 = m
  BY <1>2
<1>4. m - 1 \in Good
  BY <1>2, <1>3
<1>5. m \in Good
  BY <1>3, <1>4
<1> QED BY <1>2, <1>5

(* Two sequences of states that start alike and go on alike are alike. *)
LEMMA SameSteps ==
  ASSUME NEW N \in Nat, NEW f, NEW g, f[0] = g[0],
         \A k \in 1 .. N : f[k - 1] = g[k - 1] => f[k] = g[k]
  PROVE  \A k \in 0 .. N : f[k] = g[k]
<1> DEFINE Good == {k \in 0 .. N : f[k] = g[k]}
<1>1. ASSUME NEW k \in 0 .. N - 1, k \in Good
      PROVE  k + 1 \in Good
  <2>1. k + 1 \in 1 .. N /\ k + 1 - 1 = k
    OBVIOUS
  <2>2. f[k + 1] = g[k + 1]
    BY <1>1, <2>1
  <2> QED BY <2>1, <2>2
<1>2. 0 \in Good
  OBVIOUS
<1> HIDE DEF Good
<1>3. \A k \in 0 .. N : k \in Good
  BY <1>1, <1>2, Stepwise
<1> QED BY <1>3 DEF Good

-----------------------------------------------------------------------------
(* A run, one instruction after the other.                                   *)

Go(f, m) == Advanced(Step, f, m)

LastStep == 16 * Fuel

TraceStep(f, memory, T, n) == IF n = 0 THEN Start(f, memory) ELSE Go(f, T[n - 1])
IsTrace(f, memory, T, N) == T = [n \in 0 .. N |-> TraceStep(f, memory, T, n)]
Trace(f, memory) == CHOOSE T : IsTrace(f, memory, T, LastStep)

LEMMA TraceStepLocal ==
  ASSUME NEW f, NEW memory, NEW T, NEW U, NEW n, n = 0 \/ T[n - 1] = U[n - 1]
  PROVE  TraceStep(f, memory, T, n) = TraceStep(f, memory, U, n)
BY DEF TraceStep

LEMMA LastStepIsNat == LastStep \in Nat
BY FuelIsNat DEF LastStep

LEMMA TraceExists ==
  ASSUME NEW f, NEW memory
  PROVE  \A N \in 0 .. LastStep : \E T : IsTrace(f, memory, T, N)
<1> DEFINE Good == {N \in 0 .. LastStep : \E T : IsTrace(f, memory, T, N)}
<1>1. 0 \in Good
  <2> DEFINE T == [n \in 0 .. 0 |-> TraceStep(f, memory, <<>>, n)]
  <2>1. \A n \in 0 .. 0 : TraceStep(f, memory, T, n) = TraceStep(f, memory, <<>>, n)
    BY TraceStepLocal
  <2>2. IsTrace(f, memory, T, 0)
    BY <2>1 DEF IsTrace
  <2> HIDE DEF T
  <2> QED BY <2>2, LastStepIsNat
<1>2. ASSUME NEW k \in 0 .. LastStep - 1, k \in Good
      PROVE  k + 1 \in Good
  <2>1. PICK T : IsTrace(f, memory, T, k)
    BY <1>2
  <2> DEFINE U == [n \in 0 .. k + 1 |-> TraceStep(f, memory, T, n)]
  <2>2. T = [n \in 0 .. k |-> TraceStep(f, memory, T, n)]
    BY <2>1 DEF IsTrace
  <2>3. k \in Nat /\ k + 1 \in 0 .. LastStep
    BY LastStepIsNat
  <2>4. \A n \in 0 .. k : U[n] = T[n]
    BY <2>2, <2>3
  <2>5. \A n \in 0 .. k + 1 : TraceStep(f, memory, U, n) = TraceStep(f, memory, T, n)
    <3> SUFFICES ASSUME NEW n \in 0 .. k + 1
                 PROVE  TraceStep(f, memory, U, n) = TraceStep(f, memory, T, n)
      OBVIOUS
    <3>1. n = 0 \/ n - 1 \in 0 .. k
      BY <2>3
    <3> HIDE DEF U
    <3> QED BY <2>4, <3>1, TraceStepLocal
  <2>6. U = [n \in 0 .. k + 1 |-> TraceStep(f, memory, U, n)]
    BY <2>5
  <2> HIDE DEF U
  <2>7. IsTrace(f, memory, U, k + 1)
    BY <2>6 DEF IsTrace
  <2> QED BY <2>3, <2>7
<1> HIDE DEF Good
<1>3. \A N \in 0 .. LastStep : N \in Good
  BY <1>1, <1>2, LastStepIsNat, Stepwise
<1> QED BY <1>3 DEF Good

LEMMA TraceByStep ==
  ASSUME NEW f, NEW memory
  PROVE  /\ Trace(f, memory)[0] = Start(f, memory)
         /\ \A n \in 0 .. LastStep - 1 : Trace(f, memory)[n + 1] = Go(f, Trace(f, memory)[n])
<1> DEFINE T == Trace(f, memory)
<1>1. IsTrace(f, memory, T, LastStep)
  <2>1. LastStep \in 0 .. LastStep
    BY LastStepIsNat
  <2>2. \E U : IsTrace(f, memory, U, LastStep)
    BY <2>1, TraceExists
  <2> QED BY <2>2 DEF Trace
<1> HIDE DEF T
<1>2. T = [n \in 0 .. LastStep |-> TraceStep(f, memory, T, n)]
  BY <1>1 DEF IsTrace
<1>3. \A n \in 0 .. LastStep : T[n] = TraceStep(f, memory, T, n)
  BY <1>2
<1>4. T[0] = Start(f, memory)
  BY <1>3, LastStepIsNat DEF TraceStep
<1>5. ASSUME NEW n \in 0 .. LastStep - 1
      PROVE  T[n + 1] = Go(f, T[n])
  <2>1. n + 1 \in 0 .. LastStep /\ n + 1 # 0 /\ n + 1 - 1 = n
    BY LastStepIsNat
  <2>2. T[n + 1] = TraceStep(f, memory, T, n + 1)
    BY <1>3, <2>1
  <2> QED BY <2>1, <2>2 DEF TraceStep
<1> QED BY <1>4, <1>5 DEF T

Over(m) == m.end # ""

(* A run that has ended stays as it is. *)
LEMMA TraceStays ==
  ASSUME NEW f, NEW memory, NEW i \in Nat, i <= LastStep, Over(Trace(f, memory)[i])
  PROVE  \A j \in i .. LastStep : Trace(f, memory)[j] = Trace(f, memory)[i]
<1> DEFINE T == Trace(f, memory)
           Good == {k \in 0 .. LastStep - i : T[i + k] = T[i]}
<1>1. \A n \in 0 .. LastStep - 1 : T[n + 1] = Go(f, T[n])
  BY TraceByStep
<1>2. LastStep - i \in Nat /\ i + 0 = i
  BY LastStepIsNat
<1>3. 0 \in Good
  BY <1>2
<1> HIDE DEF T
<1>4. ASSUME NEW k \in 0 .. LastStep - i - 1, k \in Good
      PROVE  k + 1 \in Good
  <2>1. i + k \in 0 .. LastStep - 1 /\ i + (k + 1) = i + k + 1 /\ k + 1 \in 0 .. LastStep - i
    BY LastStepIsNat
  <2>2. T[i + k] = T[i] /\ Over(T[i])
    BY <1>4 DEF T
  <2>3. T[i + k + 1] = T[i]
    BY <1>1, <2>1, <2>2 DEF Go, Advanced, Over
  <2> QED BY <2>1, <2>3
<1> HIDE DEF Good
<1>5. \A k \in 0 .. LastStep - i : k \in Good
  BY <1>2, <1>3, <1>4, Stepwise
<1>6. ASSUME NEW j \in i .. LastStep
      PROVE  T[j] = T[i]
  <2>1. j - i \in 0 .. LastStep - i /\ i + (j - i) = j
    BY LastStepIsNat
  <2> QED BY <1>5, <2>1 DEF Good
<1> QED BY <1>6 DEF T

(* Sixteen instructions in one stretch. *)
LEMMA StretchIsSixteen ==
  ASSUME NEW f, NEW memory, NEW i \in Nat, i + 16 <= LastStep
  PROVE  Stretch(Step, f, Trace(f, memory)[i]) = Trace(f, memory)[i + 16]
<1> DEFINE T == Trace(f, memory)
<1>0. i \in 0 .. LastStep /\ i + 16 \in i .. LastStep
  BY LastStepIsNat
<1>1. CASE Over(T[i])
  <2>1. T[i + 16] = T[i]
    BY <1>0, <1>1, TraceStays
  <2> HIDE DEF T
  <2>2. Stretch(Step, f, T[i]) = T[i]
    BY <1>1 DEF Stretch, Over
  <2> QED BY <2>1, <2>2 DEF T
<1>2. CASE ~Over(T[i])
  <2>1. \A n \in 0 .. LastStep - 1 : T[n + 1] = Go(f, T[n])
    BY TraceByStep
  <2> HIDE DEF T
  <2> DEFINE Body(s) == Advanced(Step, f, s)
             Loop(g) == g = [k \in 0 .. 16 |-> IF k = 0 THEN T[i] ELSE Body(g[k - 1])]
             h == [k \in 0 .. 16 |-> T[i + k]]
             c == CHOOSE g : Loop(g)
  <2>2. Stretch(Step, f, T[i]) = c[16]
    BY <1>2 DEF Stretch, Times, Over
  <2>3. \A k \in 0 .. 16 : h[k] = IF k = 0 THEN T[i] ELSE Body(h[k - 1])
    <3> SUFFICES ASSUME NEW k \in 0 .. 16
                 PROVE  h[k] = IF k = 0 THEN T[i] ELSE Body(h[k - 1])
      OBVIOUS
    <3>1. CASE k = 0
      BY <3>1
    <3>2. CASE k # 0
      <4>1. k - 1 \in 0 .. 16 /\ i + (k - 1) \in 0 .. LastStep - 1 /\ i + (k - 1) + 1 = i + k
        BY <3>2, LastStepIsNat
      <4>2. h[k] = T[i + (k - 1) + 1] /\ h[k - 1] = T[i + (k - 1)]
        BY <4>1
      <4>3. T[i + (k - 1) + 1] = Body(T[i + (k - 1)])
        BY <2>1, <4>1 DEF Go
      <4> QED BY <3>2, <4>2, <4>3
    <3> QED BY <3>1, <3>2
  <2>4. Loop(h)
    <3> HIDE DEF Body
    <3> QED BY <2>3
  <2>5. Loop(c)
    <3> HIDE DEF Loop, h
    <3> QED BY <2>4
  <2> HIDE DEF h, c
  <2>6. c[0] = T[i] /\ \A k \in 1 .. 16 : c[k] = Body(c[k - 1])
    <3> HIDE DEF Body
    <3> QED BY <2>5
  <2>7. h[0] = T[i] /\ \A k \in 1 .. 16 : h[k] = Body(h[k - 1])
    <3> HIDE DEF Body
    <3> QED BY <2>4
  <2>8. \A k \in 0 .. 16 : c[k] = h[k]
    <3> HIDE DEF Body, Loop
    <3> QED BY <2>6, <2>7, SameSteps
  <2>9. h[16] = T[i + 16]
    BY DEF h
  <2> QED BY <2>2, <2>8, <2>9 DEF T
<1> QED BY <1>1, <1>2

LEMMA OutcomeIsLast ==
  ASSUME NEW f, NEW memory
  PROVE  Outcome(f, memory) = [end |-> Trace(f, memory)[LastStep].end,
                               out |-> Trace(f, memory)[LastStep].out,
                               mem |-> Trace(f, memory)[LastStep].mem]
<1> DEFINE T == Trace(f, memory)
           Body(m) == Stretch(Step, f, m)
           Loop(g) == g = [k \in 0 .. Fuel |-> IF k = 0 THEN Start(f, memory) ELSE Body(g[k - 1])]
           h == [k \in 0 .. Fuel |-> T[16 * k]]
           c == CHOOSE g : Loop(g)
<1>1. Outcome(f, memory) = [end |-> c[Fuel].end, out |-> c[Fuel].out, mem |-> c[Fuel].mem]
  BY DEF Outcome, OutcomeUnder, Times
<1>2. T[0] = Start(f, memory)
  BY TraceByStep
<1>3. \A i \in Nat : i + 16 <= LastStep => Body(T[i]) = T[i + 16]
  BY StretchIsSixteen
<1> HIDE DEF T
<1>4. \A k \in 0 .. Fuel : h[k] = IF k = 0 THEN Start(f, memory) ELSE Body(h[k - 1])
  <2> SUFFICES ASSUME NEW k \in 0 .. Fuel
               PROVE  h[k] = IF k = 0 THEN Start(f, memory) ELSE Body(h[k - 1])
    OBVIOUS
  <2>1. CASE k = 0
    <3>1. h[0] = T[0]
      BY FuelIsNat
    <3> QED BY <1>2, <2>1, <3>1
  <2>2. CASE k # 0
    <3>1. k - 1 \in 0 .. Fuel /\ 16 * (k - 1) \in Nat /\ 16 * (k - 1) + 16 = 16 * k
          /\ 16 * (k - 1) + 16 <= LastStep
      BY <2>2, FuelIsNat DEF LastStep
    <3>2. h[k] = T[16 * (k - 1) + 16] /\ h[k - 1] = T[16 * (k - 1)]
      BY <3>1
    <3>3. T[16 * (k - 1) + 16] = Body(T[16 * (k - 1)])
      <4> HIDE DEF Body
      <4> QED BY <1>3, <3>1
    <3> QED BY <2>2, <3>2, <3>3
  <2> QED BY <2>1, <2>2
<1>5. Loop(h)
  <2> HIDE DEF Body
  <2> QED BY <1>4
<1>6. Loop(c)
  <2> HIDE DEF Loop, h
  <2> QED BY <1>5
<1> HIDE DEF h, c
<1>7. c[0] = Start(f, memory) /\ \A k \in 1 .. Fuel : c[k] = Body(c[k - 1])
  <2> HIDE DEF Body
  <2> QED BY <1>6, FuelIsNat
<1>8. h[0] = Start(f, memory) /\ \A k \in 1 .. Fuel : h[k] = Body(h[k - 1])
  <2> HIDE DEF Body
  <2> QED BY <1>5, FuelIsNat
<1>9. \A k \in 0 .. Fuel : c[k] = h[k]
  <2> HIDE DEF Body, Loop
  <2> QED BY <1>7, <1>8, SameSteps, FuelIsNat
<1>10. h[Fuel] = T[LastStep]
  BY FuelIsNat DEF h, LastStep
<1>11. c[Fuel] = T[LastStep]
  BY <1>9, <1>10, FuelIsNat
<1> QED BY <1>1, <1>11 DEF T

-----------------------------------------------------------------------------
(* What Only keeps, and where it puts it.                                    *)

KeptStep(code, S, K, i) ==
  IF i = 0 THEN <<>> ELSE IF i \in S THEN Append(K[i - 1], code[i]) ELSE K[i - 1]
IsKept(code, S, K, N) == K = [i \in 0 .. N |-> KeptStep(code, S, K, i)]

LEMMA KeptStepLocal ==
  ASSUME NEW code, NEW S, NEW K, NEW L, NEW i, i = 0 \/ K[i - 1] = L[i - 1]
  PROVE  KeptStep(code, S, K, i) = KeptStep(code, S, L, i)
BY DEF KeptStep

LEMMA KeptExists ==
  ASSUME NEW code, NEW S, NEW M \in Nat
  PROVE  \A N \in 0 .. M : \E K : IsKept(code, S, K, N)
<1> DEFINE Good == {N \in 0 .. M : \E K : IsKept(code, S, K, N)}
<1>1. 0 \in Good
  <2> DEFINE T == [n \in 0 .. 0 |-> KeptStep(code, S, <<>>, n)]
  <2>1. \A n \in 0 .. 0 : KeptStep(code, S, T, n) = KeptStep(code, S, <<>>, n)
    BY KeptStepLocal
  <2>2. IsKept(code, S, T, 0)
    BY <2>1 DEF IsKept
  <2> HIDE DEF T
  <2> QED BY <2>2
<1>2. ASSUME NEW k \in 0 .. M - 1, k \in Good
      PROVE  k + 1 \in Good
  <2>1. PICK T : IsKept(code, S, T, k)
    BY <1>2
  <2> DEFINE U == [n \in 0 .. k + 1 |-> KeptStep(code, S, T, n)]
  <2>2. T = [n \in 0 .. k |-> KeptStep(code, S, T, n)]
    BY <2>1 DEF IsKept
  <2>3. k \in Nat /\ k + 1 \in 0 .. M
    OBVIOUS
  <2>4. \A n \in 0 .. k : U[n] = T[n]
    BY <2>2, <2>3
  <2>5. \A n \in 0 .. k + 1 : KeptStep(code, S, U, n) = KeptStep(code, S, T, n)
    <3> SUFFICES ASSUME NEW n \in 0 .. k + 1
                 PROVE  KeptStep(code, S, U, n) = KeptStep(code, S, T, n)
      OBVIOUS
    <3>1. n = 0 \/ n - 1 \in 0 .. k
      BY <2>3
    <3> HIDE DEF U
    <3> QED BY <2>4, <3>1, KeptStepLocal
  <2>6. U = [n \in 0 .. k + 1 |-> KeptStep(code, S, U, n)]
    BY <2>5
  <2> HIDE DEF U
  <2>7. IsKept(code, S, U, k + 1)
    BY <2>6 DEF IsKept
  <2> QED BY <2>3, <2>7
<1> HIDE DEF Good
<1>3. \A N \in 0 .. M : N \in Good
  BY <1>1, <1>2, Stepwise
<1> QED BY <1>3 DEF Good

LEMMA KeptByStep ==
  ASSUME NEW X, NEW code \in Seq(X), NEW S
  PROVE  /\ Kept(code, S)[0] = <<>>
         /\ \A i \in 1 .. Len(code) :
              Kept(code, S)[i] = IF i \in S THEN Append(Kept(code, S)[i - 1], code[i]) ELSE Kept(code, S)[i - 1]
         /\ \A i \in 0 .. Len(code) : Kept(code, S)[i] \in Seq(X)
<1> DEFINE K == Kept(code, S)
           N == Len(code)
<1>0. N \in Nat /\ \A i \in 1 .. N : code[i] \in X
  OBVIOUS
<1>1. IsKept(code, S, K, N)
  <2>1. \E L : IsKept(code, S, L, N)
    <3> HIDE DEF K
    <3>1. N \in 0 .. N
      BY <1>0
    <3> HIDE DEF N
    <3> QED BY <1>0, <3>1, KeptExists
  <2>2. K = CHOOSE L : IsKept(code, S, L, N)
    BY DEF Kept, IsKept, KeptStep
  <2> QED BY <2>1, <2>2
<1> HIDE DEF K, N
<1>2. K = [i \in 0 .. N |-> KeptStep(code, S, K, i)]
  BY <1>1 DEF IsKept
<1>3. \A i \in 0 .. N : K[i] = KeptStep(code, S, K, i)
  BY <1>2
<1>4. K[0] = <<>>
  BY <1>0, <1>3 DEF KeptStep
<1>5. \A i \in 1 .. N : K[i] = IF i \in S THEN Append(K[i - 1], code[i]) ELSE K[i - 1]
  BY <1>0, <1>3 DEF KeptStep
<1> DEFINE Good == {i \in 0 .. N : K[i] \in Seq(X)}
<1>6. 0 \in Good
  <2>1. <<>> \in Seq(X)
    OBVIOUS
  <2>2. 0 \in 0 .. N
    BY <1>0
  <2> QED BY <1>4, <2>1, <2>2
<1>7. ASSUME NEW i \in 0 .. N - 1, i \in Good
      PROVE  i + 1 \in Good
  <2>1. i + 1 \in 1 .. N /\ i + 1 - 1 = i /\ i + 1 \in 0 .. N
    BY <1>0
  <2>2. K[i + 1] = IF i + 1 \in S THEN Append(K[i], code[i + 1]) ELSE K[i]
    BY <1>5, <2>1
  <2>3. K[i] \in Seq(X) /\ code[i + 1] \in X
    BY <1>0, <1>7, <2>1
  <2>4. K[i + 1] \in Seq(X)
    BY <2>2, <2>3
  <2> QED BY <2>1, <2>4
<1> HIDE DEF Good
<1>8. \A i \in 0 .. N : i \in Good
  BY <1>0, <1>6, <1>7, Stepwise
<1>9. \A i \in 0 .. N : K[i] \in Seq(X)
  BY <1>8 DEF Good
<1> QED BY <1>4, <1>5, <1>9 DEF K, N

(* Where the instruction at i goes, or, if it is dropped, the next one kept. *)
Place(code, S, i) == Len(Kept(code, S)[i - 1]) + 1

LEMMA Places ==
  ASSUME NEW X, NEW code \in Seq(X), NEW S
  PROVE  /\ Only(code, S) \in Seq(X)
         /\ Place(code, S, 1) = 1
         /\ Place(code, S, Len(code) + 1) = Len(Only(code, S)) + 1
         /\ \A i \in 1 .. Len(code) :
              IF i \in S
              THEN /\ Place(code, S, i) \in 1 .. Len(Only(code, S))
                   /\ Only(code, S)[Place(code, S, i)] = code[i]
                   /\ Place(code, S, i + 1) = Place(code, S, i) + 1
              ELSE Place(code, S, i + 1) = Place(code, S, i)
         /\ \A q \in 1 .. Len(Only(code, S)) : \E i \in 1 .. Len(code) : i \in S /\ Place(code, S, i) = q
<1> DEFINE K == Kept(code, S)
           N == Len(code)
<1>0. N \in Nat /\ N \in 0 .. N /\ \A i \in 1 .. N : code[i] \in X
  OBVIOUS
<1>1. K[0] = <<>> /\ \A i \in 0 .. N : K[i] \in Seq(X)
  BY KeptByStep
<1>2. \A i \in 1 .. N : K[i] = IF i \in S THEN Append(K[i - 1], code[i]) ELSE K[i - 1]
  BY KeptByStep
<1>3. Only(code, S) = K[N]
  BY DEF Only
<1> HIDE DEF K, N
<1>4. \A i \in 0 .. N : Len(K[i]) \in Nat
  BY <1>1
<1>5. ASSUME NEW i \in 1 .. N
      PROVE  IF i \in S THEN /\ Len(K[i]) = Len(K[i - 1]) + 1
                             /\ K[i][Len(K[i])] = code[i]
                             /\ \A q \in 1 .. Len(K[i - 1]) : K[i][q] = K[i - 1][q]
                        ELSE K[i] = K[i - 1]
  <2>1. i - 1 \in 0 .. N /\ i \in 0 .. N
    BY <1>0
  <2>2. K[i - 1] \in Seq(X) /\ code[i] \in X
    BY <1>0, <1>1, <2>1
  <2>3. K[i] = IF i \in S THEN Append(K[i - 1], code[i]) ELSE K[i - 1]
    BY <1>2
  <2> QED BY <2>2, <2>3
<1> DEFINE Later == {j \in 0 .. N : \A i \in 0 .. j : Len(K[i]) <= Len(K[j])
                                     /\ \A q \in 1 .. Len(K[i]) : K[j][q] = K[i][q]}
           Onto == {j \in 0 .. N : \A q \in 1 .. Len(K[j]) : \E i \in 1 .. j : i \in S /\ Len(K[i - 1]) + 1 = q}
<1>6. \A j \in 0 .. N : j \in Later
  <2>1. 0 \in Later
    BY <1>0, <1>4
  <2>2. ASSUME NEW j \in 0 .. N - 1, j \in Later
        PROVE  j + 1 \in Later
    <3>1. j + 1 \in 1 .. N /\ j + 1 - 1 = j /\ j + 1 \in 0 .. N /\ j \in 0 .. N
      BY <1>0
    <3>2. Len(K[j]) <= Len(K[j + 1]) /\ \A q \in 1 .. Len(K[j]) : K[j + 1][q] = K[j][q]
      <4>1. Len(K[j]) \in Nat /\ Len(K[j + 1]) \in Nat
        BY <1>4, <3>1
      <4>2. CASE j + 1 \in S
        BY <1>5, <3>1, <4>1, <4>2
      <4>3. CASE j + 1 \notin S
        <5>1. K[j + 1] = K[j]
          BY <1>5, <3>1, <4>3
        <5> QED BY <4>1, <5>1
      <4> QED BY <4>2, <4>3
    <3>3. ASSUME NEW i \in 0 .. j + 1
          PROVE  Len(K[i]) <= Len(K[j + 1]) /\ \A q \in 1 .. Len(K[i]) : K[j + 1][q] = K[i][q]
      <4>1. CASE i = j + 1
        BY <1>4, <3>1, <4>1
      <4>2. CASE i # j + 1
        <5>1. i \in 0 .. j /\ i \in 0 .. N
          BY <1>0, <4>2
        <5>2. Len(K[i]) <= Len(K[j]) /\ \A q \in 1 .. Len(K[i]) : K[j][q] = K[i][q]
          BY <2>2, <5>1
        <5>3. Len(K[i]) \in Nat /\ Len(K[j]) \in Nat /\ Len(K[j + 1]) \in Nat
          BY <1>4, <3>1, <5>1
        <5> QED BY <3>2, <5>2, <5>3
      <4> QED BY <4>1, <4>2
    <3> QED BY <3>1, <3>3
  <2> HIDE DEF Later
  <2> QED BY <1>0, <2>1, <2>2, Stepwise
<1>7. \A j \in 0 .. N : j \in Onto
  <2>1. 0 \in Onto
    BY <1>0, <1>1
  <2>2. ASSUME NEW j \in 0 .. N - 1, j \in Onto
        PROVE  j + 1 \in Onto
    <3>1. j + 1 \in 1 .. N /\ j + 1 - 1 = j /\ j + 1 \in 0 .. N /\ j \in 0 .. N
      BY <1>0
    <3>2. Len(K[j]) \in Nat /\ Len(K[j + 1]) \in Nat
      BY <1>4, <3>1
    <3>3. ASSUME NEW q \in 1 .. Len(K[j + 1])
          PROVE  \E i \in 1 .. j + 1 : i \in S /\ Len(K[i - 1]) + 1 = q
      <4>1. CASE q \in 1 .. Len(K[j])
        <5>1. PICK i \in 1 .. j : i \in S /\ Len(K[i - 1]) + 1 = q
          BY <2>2, <4>1
        <5>2. i \in 1 .. j + 1
          BY <3>1
        <5> QED BY <5>1, <5>2
      <4>2. CASE q \notin 1 .. Len(K[j])
        <5>1. j + 1 \in S
          <6>1. j + 1 \notin S => K[j + 1] = K[j]
            BY <1>5, <3>1
          <6> QED BY <3>3, <4>2, <6>1
        <5>2. Len(K[j + 1]) = Len(K[j]) + 1
          BY <1>5, <3>1, <5>1
        <5>3. q = Len(K[j]) + 1
          BY <3>2, <4>2, <5>2
        <5>4. j + 1 \in 1 .. j + 1
          BY <3>1
        <5> QED BY <3>1, <5>1, <5>3, <5>4
      <4> QED BY <4>1, <4>2
    <3> QED BY <3>1, <3>3
  <2> HIDE DEF Onto
  <2> QED BY <1>0, <2>1, <2>2, Stepwise
<1>8. Place(code, S, 1) = 1 /\ Place(code, S, N + 1) = Len(K[N]) + 1
  <2>1. 1 - 1 = 0 /\ N + 1 - 1 = N
    BY <1>0
  <2>2. \A i, j : j = i - 1 => Place(code, S, i) = Len(K[j]) + 1
    BY DEF Place, K
  <2>3. Len(K[0]) = 0
    BY <1>1
  <2>4. Place(code, S, 1) = Len(K[0]) + 1
    BY <2>1, <2>2
  <2>5. Place(code, S, N + 1) = Len(K[N]) + 1
    <3> DEFINE last == N + 1
    <3>1. N = last - 1
      BY <1>0
    <3> HIDE DEF last
    <3>2. Place(code, S, last) = Len(K[N]) + 1
      BY <2>2, <3>1
    <3> QED BY <3>2 DEF last
  <2> QED BY <2>3, <2>4, <2>5
<1>9. ASSUME NEW i \in 1 .. N
      PROVE  IF i \in S
             THEN /\ Place(code, S, i) \in 1 .. Len(K[N])
                  /\ K[N][Place(code, S, i)] = code[i]
                  /\ Place(code, S, i + 1) = Place(code, S, i) + 1
             ELSE Place(code, S, i + 1) = Place(code, S, i)
  <2>1. i - 1 \in 0 .. N /\ i \in 0 .. N /\ i + 1 - 1 = i
    BY <1>0
  <2>2. Place(code, S, i) = Len(K[i - 1]) + 1 /\ Place(code, S, i + 1) = Len(K[i]) + 1
    BY <2>1 DEF Place, K
  <2>3. Len(K[i - 1]) \in Nat /\ Len(K[i]) \in Nat /\ Len(K[N]) \in Nat
    BY <1>0, <1>4, <2>1
  <2>4. CASE i \in S
    <3>1. Len(K[i]) = Len(K[i - 1]) + 1 /\ K[i][Len(K[i])] = code[i]
      BY <1>5, <2>4
    <3>2. Len(K[i]) <= Len(K[N]) /\ \A q \in 1 .. Len(K[i]) : K[N][q] = K[i][q]
      BY <1>0, <1>6, <2>1
    <3>3. Len(K[i]) \in 1 .. Len(K[i])
      BY <2>3, <3>1
    <3>4. K[N][Len(K[i])] = code[i]
      BY <3>1, <3>2, <3>3
    <3> QED BY <2>2, <2>3, <2>4, <3>1, <3>2, <3>4
  <2>5. CASE i \notin S
    <3>1. K[i] = K[i - 1]
      BY <1>5, <2>5
    <3> QED BY <2>2, <2>5, <3>1
  <2> QED BY <2>4, <2>5
<1>10. ASSUME NEW q \in 1 .. Len(K[N])
       PROVE  \E i \in 1 .. N : i \in S /\ Place(code, S, i) = q
  <2>1. PICK i \in 1 .. N : i \in S /\ Len(K[i - 1]) + 1 = q
    BY <1>0, <1>7
  <2> QED BY <2>1 DEF Place, K
<1>11. K[N] \in Seq(X)
  BY <1>0, <1>1
<1> QED BY <1>3, <1>8, <1>9, <1>10, <1>11 DEF N

-----------------------------------------------------------------------------
(* What one instruction does depends on what it reads, wherever it stands.   *)

Shaped(f, m) ==
  /\ DOMAIN m = {"pc", "regs", "mem", "out", "end"}
  /\ DOMAIN m.regs = RegsOf(f)
  /\ m.pc \in Nat

(* The same but for the position and for registers outside V. *)
Agrees(f, V, m, q) ==
  /\ Shaped(f, m) /\ Shaped(f, q)
  /\ q.mem = m.mem /\ q.out = m.out /\ q.end = m.end
  /\ \A v \in V : q.regs[v] = m.regs[v]

LEMMA SetRegParts ==
  ASSUME NEW f, NEW m, Shaped(f, m), NEW v, NEW x
  PROVE  /\ Shaped(f, SetReg(f, m, v, x))
         /\ SetReg(f, m, v, x).pc = m.pc + 1
         /\ SetReg(f, m, v, x).mem = m.mem
         /\ SetReg(f, m, v, x).out = m.out
         /\ SetReg(f, m, v, x).end = m.end
         /\ \A w \in RegsOf(f) : SetReg(f, m, v, x).regs[w] = IF w = v THEN Wrap(x, f.ty[v]) ELSE m.regs[w]
<1> DEFINE q == [m EXCEPT !.pc = @ + 1, !.regs[v] = Wrap(x, f.ty[v])]
<1>1. SetReg(f, m, v, x) = q
  BY DEF SetReg
<1>2. /\ q.pc = m.pc + 1 /\ q.mem = m.mem /\ q.out = m.out /\ q.end = m.end
      /\ q.regs = [m.regs EXCEPT ![v] = Wrap(x, f.ty[v])]
      /\ DOMAIN q = {"pc", "regs", "mem", "out", "end"}
  BY DEF Shaped
<1> HIDE DEF q
<1>3. m.pc \in Nat /\ DOMAIN m.regs = RegsOf(f)
  BY DEF Shaped
<1>4. DOMAIN q.regs = RegsOf(f)
  BY <1>2, <1>3
<1>5. \A w \in RegsOf(f) : q.regs[w] = IF w = v THEN Wrap(x, f.ty[v]) ELSE m.regs[w]
  BY <1>2, <1>3
<1>6. q.pc \in Nat
  BY <1>2, <1>3
<1> QED BY <1>1, <1>2, <1>4, <1>5, <1>6 DEF Shaped

LEMMA SetRegAgrees ==
  ASSUME NEW f, NEW g, g.ty = f.ty, NEW V \in SUBSET RegsOf(f), NEW m, NEW q, Agrees(f, V, m, q), NEW v, NEW x
  PROVE  Agrees(f, V, SetReg(f, m, v, x), SetReg(g, q, v, x))
<1>1. Shaped(f, m) /\ Shaped(f, q) /\ q.mem = m.mem /\ q.out = m.out /\ q.end = m.end
      /\ \A w \in V : q.regs[w] = m.regs[w]
  BY DEF Agrees
<1>2. RegsOf(g) = RegsOf(f)
  BY DEF RegsOf
<1>3. Shaped(g, q)
  BY <1>1, <1>2 DEF Shaped
<1> DEFINE m2 == SetReg(f, m, v, x)
           q2 == SetReg(g, q, v, x)
<1>4. /\ Shaped(f, m2) /\ m2.mem = m.mem /\ m2.out = m.out /\ m2.end = m.end
      /\ \A w \in RegsOf(f) : m2.regs[w] = IF w = v THEN Wrap(x, f.ty[v]) ELSE m.regs[w]
  BY <1>1, SetRegParts
<1>5. /\ Shaped(g, q2) /\ q2.mem = q.mem /\ q2.out = q.out /\ q2.end = q.end
      /\ \A w \in RegsOf(g) : q2.regs[w] = IF w = v THEN Wrap(x, g.ty[v]) ELSE q.regs[w]
  BY <1>3, SetRegParts
<1> HIDE DEF m2, q2
<1>6. Shaped(f, q2)
  BY <1>2, <1>5 DEF Shaped
<1>7. \A w \in V : q2.regs[w] = m2.regs[w]
  <2> SUFFICES ASSUME NEW w \in V PROVE q2.regs[w] = m2.regs[w]
    OBVIOUS
  <2>1. w \in RegsOf(f) /\ w \in RegsOf(g) /\ q.regs[w] = m.regs[w]
    BY <1>1, <1>2
  <2> QED BY <1>4, <1>5, <2>1
<1>8. q2.mem = m2.mem /\ q2.out = m2.out /\ q2.end = m2.end
  BY <1>1, <1>4, <1>5
<1>9. Agrees(f, V, m2, q2)
  BY <1>4, <1>6, <1>7, <1>8 DEF Agrees
<1> QED BY <1>9 DEF m2, q2

Reads(insn, V) == Sources(insn) \subseteq V

(* An instruction that only computes a value computes the same one. *)
LEMMA ComputesAlike ==
  ASSUME NEW f, NEW g, g.ty = f.ty, NEW V, NEW m, NEW q, Agrees(f, V, m, q),
         NEW insn, Complete(insn), Reads(insn, V), insn.kind \in Computing
  PROVE  /\ Traps(g, q, insn) <=> Traps(f, m, insn)
         /\ Computed(g, q, insn) = Computed(f, m, insn)
<1>1. q.mem = m.mem /\ \A v \in V : q.regs[v] = m.regs[v]
  BY DEF Agrees
<1>2. \A v \in {insn.src1, insn.src2, insn.base} : v # 0 => q.regs[v] = m.regs[v]
  BY <1>1 DEF Reads, Sources
<1>3. insn.kind \in {"mov", "cast"} \cup UnaryOps \cup BinaryOps => q.regs[insn.src1] = m.regs[insn.src1]
  BY <1>2 DEF Complete
<1>4. insn.kind \in BinaryOps => Second(g, q, insn) = Second(f, m, insn)
  BY <1>2 DEF Complete, Second
<1>5. insn.kind = "load" => Address(q, insn) = Address(m, insn)
  BY <1>2 DEF Complete, Address
<1>6. OperandType(g, insn) = OperandType(f, insn)
  BY DEF OperandType
<1>7. insn.kind \in BinaryOps => /\ FirstOperand(g, q, insn) = FirstOperand(f, m, insn)
                                 /\ SecondOperand(g, q, insn) = SecondOperand(f, m, insn)
  BY <1>3, <1>4, <1>6 DEF FirstOperand, SecondOperand
<1>8. Traps(g, q, insn) <=> Traps(f, m, insn)
  <2>1. insn.kind = "neg" => q.regs[insn.src1] = m.regs[insn.src1]
    BY <1>3 DEF UnaryOps
  <2> QED BY <1>6, <1>7, <2>1 DEF Traps
<1>9. Computed(g, q, insn) = Computed(f, m, insn)
  <2>1. CASE insn.kind \in {"imm", "addr"}
    BY <2>1 DEF Computed, UnaryOps, BinaryOps, Compares
  <2>2. CASE insn.kind = "mov"
    BY <1>3, <2>2 DEF Computed, UnaryOps, BinaryOps, Compares
  <2>3. CASE insn.kind = "cast"
    BY <1>3, <2>3 DEF Computed, UnaryOps, BinaryOps, Compares
  <2>4. CASE insn.kind = "load"
    BY <1>1, <1>5, <2>4 DEF Computed, UnaryOps, BinaryOps, Compares
  <2>5. CASE insn.kind \in UnaryOps
    BY <1>3, <2>5 DEF Computed, UnaryOps, BinaryOps, Compares
  <2>6. CASE insn.kind \in BinaryOps
    BY <1>6, <1>7, <2>6 DEF Computed, UnaryOps, BinaryOps, Compares
  <2> QED BY <2>1, <2>2, <2>3, <2>4, <2>5, <2>6 DEF Computing
<1> QED BY <1>8, <1>9

(* Control goes on alike from m to m2 and from q to q2. *)
Parallel(f, g, insn, m, m2, q, q2) ==
  \/ Over(m2) /\ m2.pc = m.pc /\ q2.pc = q.pc
  \/ ~Over(m2) /\ insn.kind \notin {"jmp", "ret"} /\ m2.pc = m.pc + 1 /\ q2.pc = q.pc + 1
  \/ \E l \in Goals(insn) : ~Over(m2) /\ m2.pc = LabelAt(f.code, l) /\ q2.pc = LabelAt(g.code, l)

LEMMA ShapedAsWell ==
  ASSUME NEW f, NEW g, g.ty = f.ty, NEW m
  PROVE  Shaped(g, m) <=> Shaped(f, m)
BY DEF Shaped, RegsOf

Parts(s, pc, regs, mem, out, end) ==
  /\ DOMAIN s = {"pc", "regs", "mem", "out", "end"}
  /\ s.pc = pc /\ s.regs = regs /\ s.mem = mem /\ s.out = out /\ s.end = end

MemStored(f, m, insn) == [m.mem EXCEPT ![Address(m, insn)] = Stored(@, m.regs[insn.src2], f.ty[insn.src2])]
MemCalled(m) == [m.mem EXCEPT ![0] = Cell(@ + 1)]
OutCalled(m, insn) == Append(m.out, <<m.regs[insn.src1], m.mem[0]>>)
OutReturned(m, insn) == Append(m.out, <<IF insn.src1 = 0 THEN 0 ELSE m.regs[insn.src1]>>)

(* The label control goes to, None for the next instruction, and where that is. *)
Target(m, insn) ==
  IF insn.kind = "jmp" THEN insn.label
  ELSE IF insn.kind = "br" THEN (IF m.regs[insn.src1] # 0 THEN insn.labelTrue ELSE insn.labelFalse)
  ELSE None
Dest(f, m, insn) == IF Target(m, insn) = None THEN m.pc + 1 ELSE LabelAt(f.code, Target(m, insn))

LEMMA StepParts ==
  ASSUME NEW f, NEW m, Shaped(f, m), NEW insn, insn = f.code[m.pc]
  PROVE  /\ insn.kind \in Computing /\ Traps(f, m, insn) =>
              Parts(Step(f, m), m.pc, m.regs, m.mem, m.out, "undefined")
         /\ insn.kind \in Computing /\ ~Traps(f, m, insn) =>
              Step(f, m) = SetReg(f, m, insn.dst, Computed(f, m, insn))
         /\ insn.kind = "store" =>
              Parts(Step(f, m), m.pc + 1, m.regs, MemStored(f, m, insn), m.out, m.end)
         /\ insn.kind = "call" =>
              Parts(Step(f, m), m.pc + 1, m.regs, MemCalled(m), OutCalled(m, insn), m.end)
         /\ insn.kind = "ret" =>
              Parts(Step(f, m), m.pc, m.regs, m.mem, OutReturned(m, insn), "return")
         /\ insn.kind \in {"label", "jmp", "br"} =>
              Parts(Step(f, m), Dest(f, m, insn), m.regs, m.mem, m.out, m.end)
<1> DEFINE s == Step(f, m)
<1>0. DOMAIN m = {"pc", "regs", "mem", "out", "end"}
  BY DEF Shaped
<1>7. Computing \cap {"store", "call", "ret", "label", "jmp", "br"} = {}
  BY DEF Computing, UnaryOps, BinaryOps, Compares
<1>1. ASSUME insn.kind \in Computing, Traps(f, m, insn)
      PROVE  Parts(s, m.pc, m.regs, m.mem, m.out, "undefined")
  <2>1. s = [m EXCEPT !.end = "undefined"]
    BY <1>7, <1>1 DEF Step
  <2> HIDE DEF s
  <2> QED BY <1>0, <2>1 DEF Parts
<1>2. ASSUME insn.kind \in Computing, ~Traps(f, m, insn)
      PROVE  s = SetReg(f, m, insn.dst, Computed(f, m, insn))
  BY <1>7, <1>2 DEF Step
<1>3. ASSUME insn.kind = "store"
      PROVE  Parts(s, m.pc + 1, m.regs, MemStored(f, m, insn), m.out, m.end)
  <2>1. s = [m EXCEPT !.pc = @ + 1, !.mem[Address(m, insn)] = Stored(@, m.regs[insn.src2], f.ty[insn.src2])]
    BY <1>7, <1>3 DEF Step
  <2> HIDE DEF s
  <2> QED BY <1>0, <2>1 DEF Parts, MemStored
<1>4. ASSUME insn.kind = "call"
      PROVE  Parts(s, m.pc + 1, m.regs, MemCalled(m), OutCalled(m, insn), m.end)
  <2>1. s = [m EXCEPT !.pc = @ + 1, !.out = Append(@, <<m.regs[insn.src1], m.mem[0]>>), !.mem[0] = Cell(@ + 1)]
    BY <1>7, <1>4 DEF Step
  <2> HIDE DEF s
  <2> QED BY <1>0, <2>1 DEF Parts, MemCalled, OutCalled
<1>5. ASSUME insn.kind = "ret"
      PROVE  Parts(s, m.pc, m.regs, m.mem, OutReturned(m, insn), "return")
  <2>1. s = [m EXCEPT !.end = "return", !.out = Append(@, <<IF insn.src1 = 0 THEN 0 ELSE m.regs[insn.src1]>>)]
    BY <1>7, <1>5 DEF Step
  <2> HIDE DEF s
  <2> QED BY <1>0, <2>1 DEF Parts, OutReturned
<1>6. ASSUME insn.kind \in {"label", "jmp", "br"}
      PROVE  Parts(s, Dest(f, m, insn), m.regs, m.mem, m.out, m.end)
  <2> DEFINE to == Dest(f, m, insn)
  <2>1. s = [m EXCEPT !.pc = to]
    <3>1. insn.kind = "label" => s = [m EXCEPT !.pc = @ + 1]
      BY <1>7 DEF Step
    <3>2. insn.kind = "jmp" => s = Goto(f, m, insn.label)
      BY <1>7 DEF Step
    <3>3. insn.kind = "br" => s = Goto(f, m, IF m.regs[insn.src1] # 0 THEN insn.labelTrue ELSE insn.labelFalse)
      BY <1>7 DEF Step
    <3> HIDE DEF s
    <3> QED BY <1>6, <3>1, <3>2, <3>3 DEF Dest, Target, Goto
  <2> HIDE DEF s, to
  <2>2. Parts(s, to, m.regs, m.mem, m.out, m.end)
    BY <1>0, <2>1 DEF Parts
  <2> QED BY <2>2 DEF to
<1> QED BY <1>1, <1>2, <1>3, <1>4, <1>5, <1>6

LEMMA AgreesByParts ==
  ASSUME NEW f, NEW V, NEW m, NEW q, Agrees(f, V, m, q), NEW m2, NEW q2, NEW mem, NEW out, NEW end,
         NEW i \in Nat, NEW j \in Nat, Parts(m2, i, m.regs, mem, out, end), Parts(q2, j, q.regs, mem, out, end)
  PROVE  Agrees(f, V, m2, q2)
BY DEF Agrees, Parts, Shaped

LEMMA StepAgrees ==
  ASSUME NEW f, NEW g, g.ty = f.ty, NEW V \in SUBSET RegsOf(f), NEW m, NEW q, Agrees(f, V, m, q), ~Over(m),
         NEW insn, Complete(insn), Reads(insn, V), insn.kind \in Kinds,
         insn = f.code[m.pc], insn = g.code[q.pc],
         \A l \in Goals(insn) : LabelAt(f.code, l) \in Nat /\ LabelAt(g.code, l) \in Nat
  PROVE  /\ Agrees(f, V, Step(f, m), Step(g, q))
         /\ Parallel(f, g, insn, m, Step(f, m), q, Step(g, q))
<1> DEFINE m2 == Step(f, m)
           q2 == Step(g, q)
<1>1. /\ Shaped(f, m) /\ Shaped(f, q) /\ Shaped(g, q)
      /\ q.mem = m.mem /\ q.out = m.out /\ q.end = m.end
      /\ m.pc \in Nat /\ q.pc \in Nat
      /\ \A v \in V : q.regs[v] = m.regs[v]
  BY ShapedAsWell DEF Agrees, Shaped
<1>2. \A v \in {insn.src1, insn.src2, insn.base} : v # 0 => q.regs[v] = m.regs[v]
  BY <1>1 DEF Reads, Sources
<1>3. CASE insn.kind \in Computing
  <2>1. Traps(g, q, insn) <=> Traps(f, m, insn)
    BY <1>3, ComputesAlike
  <2>2. Computed(g, q, insn) = Computed(f, m, insn)
    BY <1>3, ComputesAlike
  <2>3. CASE Traps(f, m, insn)
    <3>1. Parts(m2, m.pc, m.regs, m.mem, m.out, "undefined")
      BY <1>1, <1>3, <2>3, StepParts
    <3>2. Parts(q2, q.pc, q.regs, q.mem, q.out, "undefined")
      BY <1>1, <1>3, <2>1, <2>3, StepParts
    <3> HIDE DEF m2, q2
    <3>3. Agrees(f, V, m2, q2)
      BY <1>1, <3>1, <3>2, AgreesByParts
    <3>4. Parallel(f, g, insn, m, m2, q, q2)
      BY <3>1, <3>2 DEF Parallel, Parts, Over
    <3> QED BY <3>3, <3>4 DEF m2, q2
  <2>4. CASE ~Traps(f, m, insn)
    <3> DEFINE x == Computed(f, m, insn)
    <3>1. m2 = SetReg(f, m, insn.dst, x)
      BY <1>1, <1>3, <2>4, StepParts
    <3>2. q2 = SetReg(g, q, insn.dst, x)
      BY <1>1, <1>3, <2>1, <2>2, <2>4, StepParts
    <3> HIDE DEF x, m2, q2
    <3>3. Agrees(f, V, m2, q2)
      BY <3>1, <3>2, SetRegAgrees
    <3>4. m2.pc = m.pc + 1 /\ m2.end = m.end
      BY <1>1, <3>1, SetRegParts
    <3>5. q2.pc = q.pc + 1
      BY <1>1, <3>2, SetRegParts
    <3>6. insn.kind \notin {"jmp", "ret"}
      BY <1>3 DEF Computing, UnaryOps, BinaryOps, Compares
    <3>7. Parallel(f, g, insn, m, m2, q, q2)
      BY <3>4, <3>5, <3>6 DEF Parallel, Over
    <3> QED BY <3>3, <3>7 DEF m2, q2
  <2> QED BY <2>3, <2>4
<1>4. CASE insn.kind = "store"
  <2>1. Address(q, insn) = Address(m, insn)
    BY <1>2, <1>4 DEF Complete, Address
  <2>2. q.regs[insn.src2] = m.regs[insn.src2]
    BY <1>2, <1>4 DEF Complete
  <2>3. MemStored(g, q, insn) = MemStored(f, m, insn)
    BY <1>1, <2>1, <2>2 DEF MemStored
  <2>4. Parts(m2, m.pc + 1, m.regs, MemStored(f, m, insn), m.out, m.end)
    BY <1>1, <1>4, StepParts
  <2>5. Parts(q2, q.pc + 1, q.regs, MemStored(f, m, insn), m.out, m.end)
    BY <1>1, <1>4, <2>3, StepParts
  <2> HIDE DEF m2, q2
  <2>6. m.pc + 1 \in Nat /\ q.pc + 1 \in Nat
    BY <1>1
  <2>7. Agrees(f, V, m2, q2)
    BY <2>4, <2>5, <2>6, AgreesByParts
  <2>8. Parallel(f, g, insn, m, m2, q, q2)
    BY <1>4, <2>4, <2>5 DEF Parallel, Parts, Over
  <2> QED BY <2>7, <2>8 DEF m2, q2
<1>5. CASE insn.kind = "call"
  <2>1. q.regs[insn.src1] = m.regs[insn.src1]
    BY <1>2, <1>5 DEF Complete
  <2>2. MemCalled(q) = MemCalled(m) /\ OutCalled(q, insn) = OutCalled(m, insn)
    BY <1>1, <2>1 DEF MemCalled, OutCalled
  <2>3. Parts(m2, m.pc + 1, m.regs, MemCalled(m), OutCalled(m, insn), m.end)
    BY <1>1, <1>5, StepParts
  <2>4. Parts(q2, q.pc + 1, q.regs, MemCalled(m), OutCalled(m, insn), m.end)
    BY <1>1, <1>5, <2>2, StepParts
  <2> HIDE DEF m2, q2
  <2>5. m.pc + 1 \in Nat /\ q.pc + 1 \in Nat
    BY <1>1
  <2>6. Agrees(f, V, m2, q2)
    BY <2>3, <2>4, <2>5, AgreesByParts
  <2>7. Parallel(f, g, insn, m, m2, q, q2)
    BY <1>5, <2>3, <2>4 DEF Parallel, Parts, Over
  <2> QED BY <2>6, <2>7 DEF m2, q2
<1>6. CASE insn.kind = "ret"
  <2>1. OutReturned(q, insn) = OutReturned(m, insn)
    BY <1>1, <1>2 DEF OutReturned
  <2>2. Parts(m2, m.pc, m.regs, m.mem, OutReturned(m, insn), "return")
    BY <1>1, <1>6, StepParts
  <2>3. Parts(q2, q.pc, q.regs, m.mem, OutReturned(m, insn), "return")
    BY <1>1, <1>6, <2>1, StepParts
  <2> HIDE DEF m2, q2
  <2>4. Agrees(f, V, m2, q2)
    BY <1>1, <2>2, <2>3, AgreesByParts
  <2>5. Parallel(f, g, insn, m, m2, q, q2)
    BY <2>2, <2>3 DEF Parallel, Parts, Over
  <2> QED BY <2>4, <2>5 DEF m2, q2
<1>7. CASE insn.kind \in {"label", "jmp", "br"}
  <2> DEFINE name == Target(m, insn)
             i == Dest(f, m, insn)
             j == Dest(g, q, insn)
  <2>1. Target(q, insn) = name
    <3>1. insn.kind = "br" => q.regs[insn.src1] = m.regs[insn.src1]
      BY <1>2 DEF Complete
    <3> QED BY <3>1 DEF Target
  <2>2. i = IF name = None THEN m.pc + 1 ELSE LabelAt(f.code, name)
    BY DEF Dest
  <2>3. j = IF name = None THEN q.pc + 1 ELSE LabelAt(g.code, name)
    BY <2>1 DEF Dest
  <2>4. Parts(m2, i, m.regs, m.mem, m.out, m.end)
    BY <1>1, <1>7, StepParts
  <2>5. Parts(q2, j, q.regs, m.mem, m.out, m.end)
    BY <1>1, <1>7, StepParts
  <2>6. name # None => name \in Goals(insn)
    BY <1>7 DEF Goals, Target
  <2>7. name = None => insn.kind # "jmp"
    BY DEF Complete, Target
  <2> HIDE DEF name, m2, q2, i, j
  <2>8. i \in Nat /\ j \in Nat
    BY <1>1, <2>2, <2>3, <2>6
  <2>9. Agrees(f, V, m2, q2)
    BY <2>4, <2>5, <2>8, AgreesByParts
  <2>10. Parallel(f, g, insn, m, m2, q, q2)
    <3>1. m2.pc = i /\ q2.pc = j /\ ~Over(m2)
      BY <2>4, <2>5 DEF Parts, Over
    <3>2. CASE name = None
      BY <1>7, <2>2, <2>3, <2>7, <3>1, <3>2 DEF Parallel
    <3>3. CASE name # None
      BY <2>2, <2>3, <2>6, <3>1, <3>3 DEF Parallel
    <3> QED BY <3>2, <3>3
  <2> QED BY <2>9, <2>10 DEF m2, q2
<1>8. insn.kind \in Computing \cup {"store", "call", "ret", "label", "jmp", "br"}
  BY DEF Kinds, Computing
<1> QED BY <1>3, <1>4, <1>5, <1>6, <1>7, <1>8
-----------------------------------------------------------------------------
(* A run of g follows a run of f: P says where, and V which registers count. *)

(* The step from m to s is one that g leaves out. *)
Stays(f, V, P, m, s) ==
  s.end = "undefined" \/ (Agrees(f, V, m, s) /\ P[s.pc] = P[m.pc])

Follows(f, g, V, P, m, s) ==
  \A q : Agrees(f, V, m, q) /\ q.pc = P[m.pc] => Agrees(f, V, s, Go(g, q)) /\ Go(g, q).pc = P[s.pc]

LEMMA StartIsShaped ==
  ASSUME NEW f, NEW memory
  PROVE  Shaped(f, Start(f, memory)) /\ ~Over(Start(f, memory)) /\ Start(f, memory).pc = 1
BY DEF Start, Shaped, Over

LEMMA StartsAgree ==
  ASSUME NEW f, NEW g, g.ty = f.ty, NEW V, NEW memory
  PROVE  Agrees(f, V, Start(f, memory), Start(g, memory))
<1>1. Start(g, memory) = Start(f, memory)
  BY DEF Start, RegsOf
<1>2. Agrees(f, V, Start(f, memory), Start(f, memory))
  BY StartIsShaped DEF Agrees
<1> QED BY <1>1, <1>2

Simulates(f, g, V, P, memory) ==
  \A n \in 0 .. LastStep - 1 :
    LET m == Trace(f, memory)[n]
        s == Trace(f, memory)[n + 1]
    IN ~Over(m) => Stays(f, V, P, m, s) \/ Follows(f, g, V, P, m, s)

LEMMA Simulated ==
  ASSUME NEW f, NEW g, g.ty = f.ty, NEW V, NEW memory, NEW P, P[1] = 1, Simulates(f, g, V, P, memory),
         Trace(f, memory)[LastStep].end = "return"
  PROVE  Outcome(g, memory) = Outcome(f, memory)
<1> DEFINE R == Trace(f, memory)
           Q == Trace(g, memory)
           With(n, k) == Agrees(f, V, R[n], Q[k]) /\ Q[k].pc = P[R[n].pc]
           Good == {n \in 0 .. LastStep : R[n].end = "undefined" \/ \E k \in 0 .. n : With(n, k)}
<1>1. R[0] = Start(f, memory) /\ \A n \in 0 .. LastStep - 1 : R[n + 1] = Go(f, R[n])
  BY TraceByStep
<1>2. Q[0] = Start(g, memory) /\ \A n \in 0 .. LastStep - 1 : Q[n + 1] = Go(g, Q[n])
  BY TraceByStep
<1>3. \A n \in 0 .. LastStep - 1 :
        ~Over(R[n]) => Stays(f, V, P, R[n], R[n + 1]) \/ Follows(f, g, V, P, R[n], R[n + 1])
  BY DEF Simulates
<1>4. R[LastStep].end = "return"
  OBVIOUS
<1> HIDE DEF R, Q
<1>5. 0 \in Good
  <2>1. With(0, 0)
    BY <1>1, <1>2, StartsAgree, StartIsShaped
  <2> HIDE DEF With
  <2> QED BY <2>1, LastStepIsNat
<1>6. ASSUME NEW n \in 0 .. LastStep - 1, n \in Good
      PROVE  n + 1 \in Good
  <2>1. n \in Nat /\ n + 1 \in 0 .. LastStep
    BY LastStepIsNat
  <2>2. R[n + 1] = Go(f, R[n])
    BY <1>1
  <2>3. CASE R[n].end = "undefined"
    <3>1. R[n + 1] = R[n]
      BY <2>2, <2>3 DEF Go, Advanced
    <3> QED BY <2>1, <2>3, <3>1
  <2>4. CASE R[n].end # "undefined"
    <3>1. PICK k \in 0 .. n : With(n, k)
      BY <1>6, <2>4
    <3>2. k \in Nat /\ k \in 0 .. n + 1 /\ k + 1 \in 0 .. n + 1 /\ k \in 0 .. LastStep - 1
      BY <2>1, LastStepIsNat
    <3>3. CASE Over(R[n])
      <4>1. R[n + 1] = R[n]
        BY <2>2, <3>3 DEF Go, Advanced, Over
      <4>2. With(n + 1, k)
        BY <3>1, <4>1
      <4> HIDE DEF With
      <4> QED BY <2>1, <3>2, <4>2
    <3>4. CASE ~Over(R[n]) /\ Stays(f, V, P, R[n], R[n + 1])
      <4>1. CASE R[n + 1].end = "undefined"
        BY <2>1, <4>1
      <4>2. CASE R[n + 1].end # "undefined"
        <5>1. Agrees(f, V, R[n], R[n + 1]) /\ P[R[n + 1].pc] = P[R[n].pc]
          BY <3>4, <4>2 DEF Stays
        <5>2. With(n + 1, k)
          BY <3>1, <5>1 DEF Agrees
        <5> HIDE DEF With
        <5> QED BY <2>1, <3>2, <5>2
      <4> QED BY <4>1, <4>2
    <3>5. CASE ~Over(R[n]) /\ Follows(f, g, V, P, R[n], R[n + 1])
      <4>1. Agrees(f, V, R[n + 1], Go(g, Q[k])) /\ Go(g, Q[k]).pc = P[R[n + 1].pc]
        BY <3>1, <3>5 DEF Follows
      <4>2. Q[k + 1] = Go(g, Q[k])
        BY <1>2, <3>2
      <4>3. With(n + 1, k + 1)
        BY <4>1, <4>2
      <4> HIDE DEF With
      <4> QED BY <2>1, <3>2, <4>3
    <3> QED BY <1>3, <3>3, <3>4, <3>5
  <2> QED BY <2>3, <2>4
<1> HIDE DEF Good
<1>7. \A n \in 0 .. LastStep : n \in Good
  BY <1>5, <1>6, LastStepIsNat, Stepwise
<1>8. LastStep \in Good
  BY <1>7, LastStepIsNat
<1>9. PICK k \in 0 .. LastStep : With(LastStep, k)
  BY <1>4, <1>8 DEF Good
<1>10. Q[k].end = R[LastStep].end /\ Q[k].out = R[LastStep].out /\ Q[k].mem = R[LastStep].mem
  BY <1>9 DEF Agrees
<1>11. Q[LastStep] = Q[k]
  <2>1. Over(Q[k])
    BY <1>4, <1>10 DEF Over
  <2>2. k \in Nat /\ k <= LastStep /\ LastStep \in k .. LastStep
    BY LastStepIsNat
  <2>3. \A j \in k .. LastStep : Q[j] = Q[k]
    BY <2>1, <2>2, TraceStays DEF Q
  <2> QED BY <2>2, <2>3
<1>12. Outcome(f, memory) = [end |-> R[LastStep].end, out |-> R[LastStep].out, mem |-> R[LastStep].mem]
  BY OutcomeIsLast DEF R
<1>13. Outcome(g, memory) = [end |-> Q[LastStep].end, out |-> Q[LastStep].out, mem |-> Q[LastStep].mem]
  BY OutcomeIsLast DEF Q
<1> QED BY <1>10, <1>11, <1>12, <1>13
-----------------------------------------------------------------------------
(* What the passes keep of a function's form.                                *)

Whole(regs) == {insn \in Insns(regs) : Complete(insn)}

LEMMA FunctionParts ==
  ASSUME NEW f, IsFunction(f)
  PROVE  /\ f.code \in Seq(Whole(RegsOf(f))) /\ Len(f.code) \in Nat /\ DOMAIN f.code = 1 .. Len(f.code)
         /\ \A i \in DOMAIN f.code :
              Complete(f.code[i]) /\ Reads(f.code[i], RegsOf(f)) /\ f.code[i].kind \in Kinds
<1> DEFINE X == Insns(RegsOf(f))
           W == Whole(RegsOf(f))
<1>1. f.code \in Seq(X) /\ \A i \in DOMAIN f.code : Complete(f.code[i])
  BY DEF IsFunction
<1>2. \A insn \in X : insn.kind \in Kinds /\ Reads(insn, RegsOf(f))
  BY DEF Insns, Reads, Sources
<1> HIDE DEF X
<1>3. Len(f.code) \in Nat /\ DOMAIN f.code = 1 .. Len(f.code) /\ \A i \in DOMAIN f.code : f.code[i] \in X
  BY <1>1
<1>4. \A i \in 1 .. Len(f.code) : f.code[i] \in W
  BY <1>1, <1>3 DEF Whole, X
<1>5. f.code \in Seq(W)
  <2> HIDE DEF W
  <2> QED BY <1>1, <1>3, <1>4
<1> QED BY <1>1, <1>2, <1>3, <1>5

LEMMA FunctionByParts ==
  ASSUME NEW f, IsFunction(f), NEW code \in Seq(Whole(RegsOf(f)))
  PROVE  /\ IsFunction(WithCode(f, code))
         /\ WithCode(f, code).ty = f.ty /\ WithCode(f, code).code = code
         /\ RegsOf(WithCode(f, code)) = RegsOf(f)
<1> DEFINE g == WithCode(f, code)
           X == Insns(RegsOf(f))
           W == Whole(RegsOf(f))
<1>1. f \in [ty : Seq(Types \cup {BoolTy}), code : Seq(X)]
  BY DEF IsFunction
<1>2. \A insn \in W : insn \in X /\ Complete(insn)
  BY DEF Whole
<1> HIDE DEF X, W
<1>3. \A i \in DOMAIN code : code[i] \in X /\ Complete(code[i])
  BY <1>2 DEF W
<1>4. code \in Seq(X)
  BY <1>3
<1>5. g = [f EXCEPT !.code = code]
  BY DEF WithCode
<1> HIDE DEF g
<1>6. g \in [ty : Seq(Types \cup {BoolTy}), code : Seq(X)] /\ g.ty = f.ty /\ g.code = code
  BY <1>1, <1>4, <1>5
<1>7. RegsOf(g) = RegsOf(f)
  BY <1>6 DEF RegsOf
<1>8. IsFunction(g)
  BY <1>3, <1>6, <1>7 DEF IsFunction, X
<1> QED BY <1>6, <1>7, <1>8 DEF g

LEMMA LabelIsPlaced ==
  ASSUME NEW code, LabelsPlaced(code), NEW l, PlacesOf(code, l) # {}
  PROVE  /\ LabelAt(code, l) \in PlacesOf(code, l)
         /\ \A p \in PlacesOf(code, l) : p = LabelAt(code, l)
<1>1. LabelAt(code, l) \in PlacesOf(code, l)
  BY DEF LabelAt, PlacesOf
<1>2. ASSUME NEW p \in PlacesOf(code, l)
      PROVE  p = LabelAt(code, l)
  <2>1. p \in DOMAIN code /\ code[p].kind = "label" /\ code[p].label = l
    BY DEF PlacesOf
  <2>2. PlacesOf(code, l) = {p}
    BY <2>1 DEF LabelsPlaced
  <2> QED BY <1>1, <2>2
<1> QED BY <1>1, <1>2

(* Dropping instructions other than labels leaves every label placed.        *)
LEMMA LabelsStay ==
  ASSUME NEW X, NEW code \in Seq(X), NEW S, LabelsPlaced(code),
         \A i \in DOMAIN code : code[i].kind = "label" => i \in S
  PROVE  /\ LabelsPlaced(Only(code, S))
         /\ \A i \in DOMAIN code : \A l \in Goals(code[i]) :
              LabelAt(Only(code, S), l) = Place(code, S, LabelAt(code, l)) /\ LabelAt(code, l) \in DOMAIN code
<1> DEFINE o == Only(code, S)
           P(i) == Place(code, S, i)
<1>1. o \in Seq(X)
  BY Places
<1>2. \A i \in 1 .. Len(code) : i \in S => P(i) \in 1 .. Len(o) /\ o[P(i)] = code[i]
  BY Places
<1>3. \A q \in 1 .. Len(o) : \E i \in 1 .. Len(code) : i \in S /\ P(i) = q
  BY Places
<1> HIDE DEF o, P
<1>4. DOMAIN code = 1 .. Len(code) /\ DOMAIN o = 1 .. Len(o)
  BY <1>1
<1>5. ASSUME NEW l
      PROVE  PlacesOf(o, l) = {P(p) : p \in PlacesOf(code, l)}
  <2>1. ASSUME NEW q \in PlacesOf(o, l)
        PROVE  q \in {P(p) : p \in PlacesOf(code, l)}
    <3>1. q \in 1 .. Len(o) /\ o[q].kind = "label" /\ o[q].label = l
      BY <1>4 DEF PlacesOf
    <3>2. PICK i \in 1 .. Len(code) : i \in S /\ P(i) = q
      BY <1>3, <3>1
    <3>3. i \in PlacesOf(code, l)
      BY <1>2, <1>4, <3>1, <3>2 DEF PlacesOf
    <3> QED BY <3>2, <3>3
  <2>2. ASSUME NEW p \in PlacesOf(code, l)
        PROVE  P(p) \in PlacesOf(o, l)
    <3>1. p \in 1 .. Len(code) /\ code[p].kind = "label" /\ code[p].label = l
      BY <1>4 DEF PlacesOf
    <3>2. p \in S
      BY <1>4, <3>1
    <3> QED BY <1>2, <1>4, <3>1, <3>2 DEF PlacesOf
  <2> QED BY <2>1, <2>2
<1>6. ASSUME NEW q \in DOMAIN o
      PROVE  /\ \A l \in Goals(o[q]) : PlacesOf(o, l) # {}
             /\ o[q].kind = "label" => PlacesOf(o, o[q].label) = {q}
  <2>1. PICK i \in 1 .. Len(code) : i \in S /\ P(i) = q
    BY <1>3, <1>4
  <2>2. o[q] = code[i] /\ i \in DOMAIN code
    BY <1>2, <1>4, <2>1
  <2>3. ASSUME NEW l \in Goals(o[q])
        PROVE  PlacesOf(o, l) # {}
    <3>1. PICK p \in PlacesOf(code, l) : TRUE
      BY <2>2 DEF LabelsPlaced
    <3>2. P(p) \in {P(r) : r \in PlacesOf(code, l)}
      OBVIOUS
    <3>3. PlacesOf(o, l) = {P(r) : r \in PlacesOf(code, l)}
      BY <1>5
    <3> QED BY <3>2, <3>3
  <2>4. ASSUME o[q].kind = "label"
        PROVE  PlacesOf(o, o[q].label) = {q}
    <3>1. PlacesOf(code, code[i].label) = {i}
      BY <2>2, <2>4 DEF LabelsPlaced
    <3> QED BY <1>5, <2>1, <2>2, <3>1
  <2> QED BY <2>3, <2>4
<1>7. LabelsPlaced(o)
  BY <1>6 DEF LabelsPlaced
<1>8. ASSUME NEW i \in DOMAIN code, NEW l \in Goals(code[i])
      PROVE  LabelAt(o, l) = P(LabelAt(code, l)) /\ LabelAt(code, l) \in DOMAIN code
  <2>1. PlacesOf(code, l) # {}
    BY DEF LabelsPlaced
  <2>2. LabelAt(code, l) \in PlacesOf(code, l)
    BY <2>1, LabelIsPlaced
  <2>3. P(LabelAt(code, l)) \in PlacesOf(o, l)
    BY <1>5, <2>2
  <2>4. LabelAt(o, l) = P(LabelAt(code, l))
    BY <1>7, <2>3, LabelIsPlaced
  <2> QED BY <2>2, <2>4 DEF PlacesOf
<1> QED BY <1>7, <1>8 DEF o, P

-----------------------------------------------------------------------------
(* Where a run of a complete function goes.                                  *)

(* Control goes on from m to s. *)
Onward(f, insn, m, s) ==
  \/ Over(s) /\ s.pc = m.pc
  \/ ~Over(s) /\ insn.kind \notin {"jmp", "ret"} /\ s.pc = m.pc + 1
  \/ ~Over(s) /\ \E l \in Goals(insn) : s.pc = LabelAt(f.code, l)

LEMMA StepOnward ==
  ASSUME NEW f, IsFunction(f), LabelsPlaced(f.code), NEW m, Shaped(f, m), ~Over(m), m.pc \in DOMAIN f.code
  PROVE  Shaped(f, Step(f, m)) /\ Onward(f, f.code[m.pc], m, Step(f, m))
<1> DEFINE insn == f.code[m.pc]
           V == RegsOf(f)
<1>1. Complete(insn) /\ Reads(insn, V) /\ insn.kind \in Kinds
  BY FunctionParts
<1>2. Agrees(f, V, m, m)
  BY DEF Agrees
<1>3. \A l \in Goals(insn) : LabelAt(f.code, l) \in Nat
  <2> SUFFICES ASSUME NEW l \in Goals(insn) PROVE LabelAt(f.code, l) \in Nat
    OBVIOUS
  <2>1. PlacesOf(f.code, l) # {}
    BY DEF LabelsPlaced
  <2>2. LabelAt(f.code, l) \in DOMAIN f.code
    BY <2>1, LabelIsPlaced DEF PlacesOf
  <2> QED BY <2>2, FunctionParts
<1>4. V \in SUBSET RegsOf(f)
  OBVIOUS
<1> HIDE DEF V
<1>5. Agrees(f, V, Step(f, m), Step(f, m)) /\ Parallel(f, f, insn, m, Step(f, m), m, Step(f, m))
  <2> DEFINE i == insn
  <2>1. i = f.code[m.pc]
    OBVIOUS
  <2> HIDE DEF i
  <2>2. Agrees(f, V, Step(f, m), Step(f, m)) /\ Parallel(f, f, i, m, Step(f, m), m, Step(f, m))
    BY <1>1, <1>2, <1>3, <1>4, <2>1, StepAgrees
  <2> QED BY <2>1, <2>2
<1> QED BY <1>5 DEF Agrees, Parallel, Onward

LEMMA EndParts ==
  ASSUME NEW f, NEW m, Shaped(f, m), ~Over(m), m.pc \notin DOMAIN f.code
  PROVE  Parts(Go(f, m), m.pc, m.regs, m.mem, m.out, "return")
BY DEF Go, Advanced, Over, Parts, Shaped

LEMMA RunIsShaped ==
  ASSUME NEW f, IsFunction(f), LabelsPlaced(f.code), NEW memory
  PROVE  \A n \in 0 .. LastStep : /\ Shaped(f, Trace(f, memory)[n])
                                  /\ Trace(f, memory)[n].pc \in 1 .. Len(f.code) + 1
<1> DEFINE R == Trace(f, memory)
           Good == {n \in 0 .. LastStep : Shaped(f, R[n]) /\ R[n].pc \in 1 .. Len(f.code) + 1}
<1>1. R[0] = Start(f, memory) /\ \A n \in 0 .. LastStep - 1 : R[n + 1] = Go(f, R[n])
  BY TraceByStep
<1>2. Len(f.code) \in Nat /\ DOMAIN f.code = 1 .. Len(f.code)
  BY FunctionParts
<1> HIDE DEF R
<1>3. 0 \in Good
  <2>1. Start(f, memory).pc \in 1 .. Len(f.code) + 1
    BY <1>2, StartIsShaped
  <2> QED BY <1>1, <2>1, LastStepIsNat, StartIsShaped
<1>4. ASSUME NEW n \in 0 .. LastStep - 1, n \in Good
      PROVE  n + 1 \in Good
  <2>1. n + 1 \in 0 .. LastStep
    BY LastStepIsNat
  <2> DEFINE m == R[n]
             s == R[n + 1]
  <2>2. s = Go(f, m) /\ Shaped(f, m) /\ m.pc \in 1 .. Len(f.code) + 1
    BY <1>1, <1>4
  <2> HIDE DEF m, s
  <2>3. Shaped(f, s) /\ s.pc \in 1 .. Len(f.code) + 1
    <3>1. CASE Over(m)
      BY <2>2, <3>1 DEF Go, Advanced, Over
    <3>2. CASE ~Over(m) /\ m.pc \notin DOMAIN f.code
      <4>1. Parts(s, m.pc, m.regs, m.mem, m.out, "return")
        BY <2>2, <3>2, EndParts
      <4> QED BY <2>2, <4>1 DEF Parts, Shaped
    <3>3. CASE ~Over(m) /\ m.pc \in DOMAIN f.code
      <4>1. s = Step(f, m)
        BY <2>2, <3>3 DEF Go, Advanced, Over
      <4>2. Shaped(f, s) /\ Onward(f, f.code[m.pc], m, s)
        BY <2>2, <3>3, <4>1, StepOnward
      <4>3. \A l \in Goals(f.code[m.pc]) : LabelAt(f.code, l) \in DOMAIN f.code
        <5> SUFFICES ASSUME NEW l \in Goals(f.code[m.pc]) PROVE LabelAt(f.code, l) \in DOMAIN f.code
          OBVIOUS
        <5>1. PlacesOf(f.code, l) # {}
          BY <3>3 DEF LabelsPlaced
        <5> QED BY <5>1, LabelIsPlaced DEF PlacesOf
      <4>4. s.pc = m.pc \/ s.pc = m.pc + 1 \/ s.pc \in DOMAIN f.code
        BY <4>2, <4>3 DEF Onward
      <4>5. m.pc + 1 \in 1 .. Len(f.code) + 1 /\ DOMAIN f.code \subseteq 1 .. Len(f.code) + 1
        BY <1>2, <3>3
      <4> QED BY <2>2, <4>2, <4>4, <4>5
    <3> QED BY <3>1, <3>2, <3>3
  <2> QED BY <2>1, <2>3 DEF m, s
<1> HIDE DEF Good
<1>5. \A n \in 0 .. LastStep : n \in Good
  BY <1>3, <1>4, LastStepIsNat, Stepwise
<1> QED BY <1>5 DEF Good, R

-----------------------------------------------------------------------------
(* Deleting instructions that, whenever the run comes to them, do nothing    *)
(* that is seen.                                                             *)

LEMMA EndsAlike ==
  ASSUME NEW f, NEW g, g.ty = f.ty, NEW V, NEW m, NEW q, Agrees(f, V, m, q), ~Over(m),
         m.pc \notin DOMAIN f.code, q.pc \notin DOMAIN g.code
  PROVE  Agrees(f, V, Go(f, m), Go(g, q)) /\ Go(f, m).pc = m.pc /\ Go(g, q).pc = q.pc
<1> DEFINE s == Go(f, m)
           r == Go(g, q)
<1>1. Shaped(f, m) /\ Shaped(g, q) /\ ~Over(q)
  BY ShapedAsWell DEF Agrees, Over
<1>2. Parts(s, m.pc, m.regs, m.mem, m.out, "return")
  BY <1>1, EndParts
<1>3. Parts(r, q.pc, q.regs, q.mem, q.out, "return")
  BY <1>1, EndParts
<1> HIDE DEF s, r
<1>4. q.mem = m.mem /\ q.out = m.out /\ m.pc \in Nat /\ q.pc \in Nat
  BY <1>1 DEF Agrees, Shaped
<1>5. Agrees(f, V, s, r)
  BY <1>2, <1>3, <1>4, AgreesByParts
<1> QED BY <1>2, <1>3, <1>5 DEF Parts, s, r

LEMMA EndFollows ==
  ASSUME NEW f, NEW g, g.ty = f.ty, NEW V, NEW P, NEW m, ~Over(m),
         m.pc \notin DOMAIN f.code, P[m.pc] \notin DOMAIN g.code
  PROVE  Follows(f, g, V, P, m, Go(f, m))
<1> SUFFICES ASSUME NEW q, Agrees(f, V, m, q), q.pc = P[m.pc]
             PROVE  Agrees(f, V, Go(f, m), Go(g, q)) /\ Go(g, q).pc = P[Go(f, m).pc]
  BY DEF Follows
<1>1. q.pc \notin DOMAIN g.code
  OBVIOUS
<1>2. Agrees(f, V, Go(f, m), Go(g, q)) /\ Go(f, m).pc = m.pc /\ Go(g, q).pc = q.pc
  BY <1>1, EndsAlike
<1> QED BY <1>2

Skips(f, V, m, s) == s.end = "undefined" \/ (Agrees(f, V, m, s) /\ s.pc = m.pc + 1)

LEMMA Deleting ==
  ASSUME NEW f, IsFunction(f), LabelsPlaced(f.code), NEW S, NEW V \in SUBSET RegsOf(f),
         \A i \in DOMAIN f.code : f.code[i].kind = "label" => i \in S,
         \A i \in DOMAIN f.code : i \in S => Reads(f.code[i], V),
         NEW memory,
         \A n \in 0 .. LastStep - 1 :
           ~Over(Trace(f, memory)[n]) /\ Trace(f, memory)[n].pc \in DOMAIN f.code \ S =>
             Skips(f, V, Trace(f, memory)[n], Trace(f, memory)[n + 1]),
         Trace(f, memory)[LastStep].end = "return"
  PROVE  Outcome(WithCode(f, Only(f.code, S)), memory) = Outcome(f, memory)
<1> DEFINE g == WithCode(f, Only(f.code, S))
           N == Len(f.code)
           P == [i \in 1 .. N + 1 |-> Place(f.code, S, i)]
           R == Trace(f, memory)
           W == Whole(RegsOf(f))
<1>1. f.code \in Seq(W) /\ N \in Nat /\ DOMAIN f.code = 1 .. N
  BY FunctionParts
<1>2. Only(f.code, S) \in Seq(W) /\ Place(f.code, S, 1) = 1 /\ Place(f.code, S, N + 1) = Len(Only(f.code, S)) + 1
  BY <1>1, Places
<1>3. \A i \in 1 .. N : IF i \in S
                        THEN /\ Place(f.code, S, i) \in 1 .. Len(Only(f.code, S))
                             /\ Only(f.code, S)[Place(f.code, S, i)] = f.code[i]
                             /\ Place(f.code, S, i + 1) = Place(f.code, S, i) + 1
                        ELSE Place(f.code, S, i + 1) = Place(f.code, S, i)
  BY <1>1, Places
<1>4. g.ty = f.ty /\ g.code = Only(f.code, S)
  BY <1>2, FunctionByParts
<1>5. \A i \in DOMAIN f.code : \A l \in Goals(f.code[i]) :
        LabelAt(g.code, l) = Place(f.code, S, LabelAt(f.code, l)) /\ LabelAt(f.code, l) \in DOMAIN f.code
  BY <1>1, <1>4, LabelsStay
<1>6. \A n \in 0 .. LastStep : Shaped(f, R[n]) /\ R[n].pc \in 1 .. N + 1
  BY RunIsShaped
<1>7. \A n \in 0 .. LastStep - 1 : R[n + 1] = Go(f, R[n])
  BY TraceByStep
<1>8. \A n \in 0 .. LastStep - 1 : ~Over(R[n]) /\ R[n].pc \in DOMAIN f.code \ S => Skips(f, V, R[n], R[n + 1])
  OBVIOUS
<1>9. R[LastStep].end = "return"
  OBVIOUS
<1>10. DOMAIN g.code = 1 .. Len(g.code) /\ Len(g.code) \in Nat
  BY <1>2, <1>4
<1> HIDE DEF g, N, R, W
<1>11. /\ P[1] = 1 /\ P[N + 1] = Len(g.code) + 1
       /\ \A i \in 1 .. N : IF i \in S THEN P[i] \in DOMAIN g.code /\ g.code[P[i]] = f.code[i] /\ P[i + 1] = P[i] + 1
                                       ELSE P[i + 1] = P[i]
       /\ \A i \in DOMAIN f.code : \A l \in Goals(f.code[i]) :
            /\ LabelAt(g.code, l) = P[LabelAt(f.code, l)]
            /\ LabelAt(f.code, l) \in Nat /\ LabelAt(g.code, l) \in Nat
  <2>1. \A i \in 1 .. N + 1 : P[i] = Place(f.code, S, i)
    OBVIOUS
  <2>2. 1 \in 1 .. N + 1 /\ N + 1 \in 1 .. N + 1 /\ \A i \in 1 .. N : i \in 1 .. N + 1 /\ i + 1 \in 1 .. N + 1
    BY <1>1
  <2>3. \A i \in 1 .. N + 1 : Place(f.code, S, i) \in Nat
    <3>1. \A i \in 1 .. N : Place(f.code, S, i) \in Nat
      <4> DEFINE Good == {i \in 0 .. N : Place(f.code, S, i + 1) \in Nat}
      <4>1. 0 \in Good
        BY <1>1, <1>2
      <4>2. ASSUME NEW i \in 0 .. N - 1, i \in Good
            PROVE  i + 1 \in Good
        <5>1. i + 1 \in 1 .. N /\ i + 1 \in 0 .. N
          BY <1>1
        <5> DEFINE j == i + 1
        <5>2. Place(f.code, S, j) \in Nat /\ j \in 1 .. N /\ j \in 0 .. N
          BY <4>2, <5>1
        <5> HIDE DEF j
        <5>3. Place(f.code, S, j + 1) \in Nat
          BY <1>3, <5>2
        <5>4. j \in Good
          BY <5>2, <5>3
        <5> QED BY <5>4 DEF j
      <4> HIDE DEF Good
      <4>3. \A i \in 0 .. N : i \in Good
        BY <1>1, <4>1, <4>2, Stepwise
      <4>4. ASSUME NEW i \in 1 .. N
            PROVE  Place(f.code, S, i) \in Nat
        <5>1. i - 1 \in 0 .. N /\ i - 1 + 1 = i
          BY <1>1
        <5>2. i - 1 \in Good
          BY <4>3, <5>1
        <5> QED BY <5>1, <5>2 DEF Good
      <4> QED BY <4>4
    <3>2. Place(f.code, S, N + 1) \in Nat
      BY <1>2
    <3>3. \A i \in 1 .. N + 1 : i \in 1 .. N \/ i = N + 1
      BY <1>1
    <3> QED BY <3>1, <3>2, <3>3
  <2> HIDE DEF P
  <2>4. P[1] = 1 /\ P[N + 1] = Len(g.code) + 1
    BY <1>2, <1>4, <2>1, <2>2
  <2>5. \A i \in 1 .. N : IF i \in S THEN P[i] \in DOMAIN g.code /\ g.code[P[i]] = f.code[i] /\ P[i + 1] = P[i] + 1
                                     ELSE P[i + 1] = P[i]
    BY <1>3, <1>4, <1>10, <2>1, <2>2
  <2>6. ASSUME NEW i \in DOMAIN f.code, NEW l \in Goals(f.code[i])
        PROVE  /\ LabelAt(g.code, l) = P[LabelAt(f.code, l)]
               /\ LabelAt(f.code, l) \in Nat /\ LabelAt(g.code, l) \in Nat
    <3>1. LabelAt(g.code, l) = Place(f.code, S, LabelAt(f.code, l)) /\ LabelAt(f.code, l) \in 1 .. N
      BY <1>1, <1>5
    <3>2. LabelAt(f.code, l) \in 1 .. N + 1 /\ LabelAt(f.code, l) \in Nat
      BY <1>1, <3>1
    <3> QED BY <2>1, <2>3, <3>1, <3>2
  <2> QED BY <2>4, <2>5, <2>6
<1> HIDE DEF P
<1>12. ASSUME NEW n \in 0 .. LastStep - 1, ~Over(R[n])
       PROVE  Stays(f, V, P, R[n], R[n + 1]) \/ Follows(f, g, V, P, R[n], R[n + 1])
  <2> DEFINE m == R[n]
             s == R[n + 1]
  <2>1. n \in 0 .. LastStep
    BY LastStepIsNat
  <2>2. Shaped(f, m) /\ m.pc \in 1 .. N + 1 /\ s = Go(f, m) /\ ~Over(m)
    BY <1>6, <1>7, <1>12, <2>1
  <2>3. m.pc \in DOMAIN f.code \ S => Skips(f, V, m, s)
    BY <1>8, <1>12
  <2> HIDE DEF m, s
  <2>4. CASE m.pc \in DOMAIN f.code \ S
    <3>1. s.end = "undefined" \/ (Agrees(f, V, m, s) /\ s.pc = m.pc + 1)
      BY <2>3, <2>4 DEF Skips
    <3>2. P[m.pc + 1] = P[m.pc]
      BY <1>1, <1>11, <2>4
    <3>3. Stays(f, V, P, m, s)
      BY <3>1, <3>2 DEF Stays
    <3> QED BY <3>3 DEF m, s
  <2>5. CASE m.pc \in DOMAIN f.code /\ m.pc \in S
    <3> SUFFICES ASSUME NEW q, Agrees(f, V, m, q), q.pc = P[m.pc]
                 PROVE  Agrees(f, V, s, Go(g, q)) /\ Go(g, q).pc = P[s.pc]
      BY DEF Follows, m, s
    <3> DEFINE insn == f.code[m.pc]
    <3>1. q.pc \in DOMAIN g.code /\ insn = g.code[q.pc] /\ P[m.pc + 1] = P[m.pc] + 1
      BY <1>1, <1>11, <2>5
    <3>2. Complete(insn) /\ Reads(insn, V) /\ insn.kind \in Kinds
      BY <2>5, FunctionParts
    <3>3. \A l \in Goals(insn) : /\ LabelAt(f.code, l) \in Nat /\ LabelAt(g.code, l) \in Nat
                                 /\ LabelAt(g.code, l) = P[LabelAt(f.code, l)]
      BY <1>11, <2>5
    <3>4. ~Over(q)
      BY <2>2 DEF Agrees, Over
    <3>5. s = Step(f, m) /\ Go(g, q) = Step(g, q)
      BY <2>2, <2>5, <3>1, <3>4 DEF Go, Advanced, Over
    <3>6. insn = f.code[m.pc]
      OBVIOUS
    <3> HIDE DEF insn
    <3>7. Agrees(f, V, Step(f, m), Step(g, q)) /\ Parallel(f, g, insn, m, Step(f, m), q, Step(g, q))
      BY <1>4, <2>2, <3>1, <3>2, <3>3, <3>6, StepAgrees
    <3>8. Step(g, q).pc = P[Step(f, m).pc]
      BY <3>1, <3>3, <3>7 DEF Parallel
    <3> QED BY <3>5, <3>7, <3>8
  <2>6. CASE m.pc \notin DOMAIN f.code
    <3>1. m.pc = N + 1
      BY <1>1, <2>2, <2>6
    <3>2. P[m.pc] \notin DOMAIN g.code
      BY <1>10, <1>11, <3>1
    <3>3. Follows(f, g, V, P, m, Go(f, m))
      BY <1>4, <2>2, <2>6, <3>2, EndFollows
    <3> QED BY <2>2, <3>3 DEF m, s
  <2> QED BY <2>4, <2>5, <2>6
<1>13. Simulates(f, g, V, P, memory)
  BY <1>12 DEF Simulates, R
<1>14. g.ty = f.ty /\ P[1] = 1 /\ Trace(f, memory)[LastStep].end = "return"
  BY <1>4, <1>11
<1>15. Outcome(g, memory) = Outcome(f, memory)
  BY <1>13, <1>14, Simulated
<1> QED BY <1>15 DEF g

-----------------------------------------------------------------------------
(* What is asked of a pass: the form of the function stays, and where a run  *)
(* of it returns, one of the new function returns the same.                  *)
Keeps(f, g) ==
  /\ IsFunction(g) /\ LabelsPlaced(g.code)
  /\ ConstantsStand(f) => ConstantsStand(g)
  /\ \A memory : Outcome(f, memory).end = "return" => Outcome(g, memory) = Outcome(f, memory)

LEMMA KeepsOn ==
  ASSUME NEW f, NEW g, NEW h, Keeps(f, g), Keeps(g, h)
  PROVE  Keeps(f, h)
BY DEF Keeps

(* new sets what old sets, and to the same constant if to one.               *)
SetsAlike(new, old) ==
  /\ new.dst = old.dst
  /\ new.kind = "imm" <=> old.kind = "imm"
  /\ old.kind = "imm" => new.imm = old.imm

LEMMA ConstantsStay ==
  ASSUME NEW f, NEW g, g.ty = f.ty, ConstantsStand(f),
         \A i \in DOMAIN g.code : \E j \in DOMAIN f.code : SetsAlike(g.code[i], f.code[j])
  PROVE  ConstantsStand(g)
<1> SUFFICES ASSUME NEW i \in DOMAIN g.code, g.code[i].kind = "imm"
             PROVE  /\ g.code[i].imm = 0 <=> Wrap(g.code[i].imm, g.ty[g.code[i].dst]) = 0
                    /\ \A k \in DOMAIN g.code : g.code[k].dst = g.code[i].dst => g.code[k].kind = "imm"
  BY DEF ConstantsStand
<1>1. PICK j \in DOMAIN f.code : SetsAlike(g.code[i], f.code[j])
  OBVIOUS
<1>2. f.code[j].kind = "imm" /\ f.code[j].dst = g.code[i].dst /\ f.code[j].imm = g.code[i].imm
  BY <1>1 DEF SetsAlike
<1>3. /\ f.code[j].imm = 0 <=> Wrap(f.code[j].imm, f.ty[f.code[j].dst]) = 0
      /\ \A k \in DOMAIN f.code : f.code[k].dst = f.code[j].dst => f.code[k].kind = "imm"
  BY <1>2 DEF ConstantsStand
<1>4. ASSUME NEW k \in DOMAIN g.code, g.code[k].dst = g.code[i].dst
      PROVE  g.code[k].kind = "imm"
  <2>1. PICK l \in DOMAIN f.code : SetsAlike(g.code[k], f.code[l])
    OBVIOUS
  <2> QED BY <1>2, <1>3, <1>4, <2>1 DEF SetsAlike
<1> QED BY <1>2, <1>3, <1>4

LEMMA DeletingKeeps ==
  ASSUME NEW f, IsFunction(f), LabelsPlaced(f.code), NEW S, NEW V \in SUBSET RegsOf(f),
         \A i \in DOMAIN f.code : f.code[i].kind = "label" => i \in S,
         \A i \in DOMAIN f.code : i \in S => Reads(f.code[i], V),
         \A memory : \A n \in 0 .. LastStep - 1 :
           ~Over(Trace(f, memory)[n]) /\ Trace(f, memory)[n].pc \in DOMAIN f.code \ S =>
             Skips(f, V, Trace(f, memory)[n], Trace(f, memory)[n + 1])
  PROVE  /\ Keeps(f, WithCode(f, Only(f.code, S)))
         /\ WithCode(f, Only(f.code, S)).code = Only(f.code, S)
<1> DEFINE g == WithCode(f, Only(f.code, S))
           W == Whole(RegsOf(f))
<1>1. f.code \in Seq(W)
  BY FunctionParts
<1>2. Only(f.code, S) \in Seq(W) /\ LabelsPlaced(Only(f.code, S))
  BY <1>1, Places, LabelsStay
<1>3. IsFunction(g) /\ g.code = Only(f.code, S)
  BY <1>2, FunctionByParts
<1>4. ASSUME NEW memory, Outcome(f, memory).end = "return"
      PROVE  Outcome(g, memory) = Outcome(f, memory)
  <2>1. Trace(f, memory)[LastStep].end = "return"
    BY <1>4, OutcomeIsLast
  <2> QED BY <2>1, Deleting
<1>5. ConstantsStand(f) => ConstantsStand(g)
  <2> SUFFICES ASSUME ConstantsStand(f) PROVE ConstantsStand(g)
    OBVIOUS
  <2>1. ASSUME NEW q \in DOMAIN g.code
        PROVE  \E i \in DOMAIN f.code : SetsAlike(g.code[q], f.code[i])
    <3>1. q \in 1 .. Len(Only(f.code, S)) /\ DOMAIN f.code = 1 .. Len(f.code)
      BY <1>1, <1>2, <1>3, <2>1
    <3>2. PICK i \in 1 .. Len(f.code) : i \in S /\ Place(f.code, S, i) = q
      BY <1>1, <3>1, Places
    <3>3. Only(f.code, S)[Place(f.code, S, i)] = f.code[i]
      BY <1>1, <3>2, Places
    <3>4. g.code[q] = f.code[i] /\ i \in DOMAIN f.code
      BY <1>3, <3>1, <3>2, <3>3
    <3> QED BY <3>4 DEF SetsAlike
  <2>2. g.ty = f.ty
    BY <1>2, FunctionByParts
  <2> HIDE DEF g
  <2> QED BY <2>1, <2>2, ConstantsStay
<1> HIDE DEF g
<1>6. Keeps(f, g)
  BY <1>2, <1>3, <1>4, <1>5 DEF Keeps
<1> QED BY <1>3, <1>6 DEF g

-----------------------------------------------------------------------------
(* Dead code.                                                                *)

LEMMA SweepKeeps ==
  ASSUME NEW f, IsFunction(f), LabelsPlaced(f.code)
  PROVE  /\ Keeps(f, WithCode(f, WithoutDead(f.code)))
         /\ WithCode(f, WithoutDead(f.code)).code = WithoutDead(f.code)
<1> DEFINE S == DOMAIN f.code \ Dead(f.code)
           V == Read(f.code)
<1>1. V \in SUBSET RegsOf(f)
  BY FunctionParts DEF Read, Reads
<1>2. \A i \in DOMAIN f.code : f.code[i].kind = "label" => i \in S
  BY DEF Dead, HasSideEffects
<1>3. \A i \in DOMAIN f.code : i \in S => Reads(f.code[i], V)
  BY DEF Read, Reads
<1>4. ASSUME NEW memory, NEW n \in 0 .. LastStep - 1, ~Over(Trace(f, memory)[n]),
             Trace(f, memory)[n].pc \in DOMAIN f.code \ S
      PROVE  Skips(f, V, Trace(f, memory)[n], Trace(f, memory)[n + 1])
  <2> DEFINE m == Trace(f, memory)[n]
             s == Trace(f, memory)[n + 1]
             insn == f.code[m.pc]
  <2>1. n \in 0 .. LastStep
    BY LastStepIsNat
  <2>2. Shaped(f, m)
    BY <2>1, RunIsShaped
  <2>3. s = Go(f, m)
    BY TraceByStep
  <2>4. s = Step(f, m)
    BY <1>4, <2>3 DEF Go, Advanced, Over
  <2>5. m.pc \in DOMAIN f.code /\ insn.dst \notin V /\ ~HasSideEffects(insn)
    BY <1>4 DEF Dead
  <2>6. insn.kind \in Kinds
    BY <2>5, FunctionParts
  <2>7. insn.kind \in Computing
    BY <2>5, <2>6 DEF Kinds, HasSideEffects, Computing
  <2>8. insn = f.code[m.pc]
    OBVIOUS
  <2> HIDE DEF m, s, insn, V
  <2>9. CASE Traps(f, m, insn)
    <3>1. Parts(s, m.pc, m.regs, m.mem, m.out, "undefined")
      BY <2>2, <2>4, <2>7, <2>8, <2>9, StepParts
    <3> QED BY <3>1 DEF Parts, Skips, m, s
  <2>10. CASE ~Traps(f, m, insn)
    <3> DEFINE x == Computed(f, m, insn)
    <3>1. s = SetReg(f, m, insn.dst, x)
      BY <2>2, <2>4, <2>7, <2>8, <2>10, StepParts
    <3> HIDE DEF x
    <3>2. Shaped(f, s) /\ s.pc = m.pc + 1 /\ s.mem = m.mem /\ s.out = m.out /\ s.end = m.end
      BY <2>2, <3>1, SetRegParts
    <3>3. \A w \in RegsOf(f) : s.regs[w] = IF w = insn.dst THEN Wrap(x, f.ty[insn.dst]) ELSE m.regs[w]
      BY <2>2, <3>1, SetRegParts
    <3>4. \A w \in V : s.regs[w] = m.regs[w]
      BY <1>1, <2>5, <3>3
    <3>5. Agrees(f, V, m, s)
      BY <2>2, <3>2, <3>4 DEF Agrees
    <3> QED BY <3>2, <3>5 DEF Skips, m, s
  <2> QED BY <2>9, <2>10
<1> HIDE DEF S, V
<1>5. Keeps(f, WithCode(f, Only(f.code, S))) /\ WithCode(f, Only(f.code, S)).code = Only(f.code, S)
  BY <1>1, <1>2, <1>3, <1>4, DeletingKeeps
<1> QED BY <1>5 DEF S, WithoutDead

(* Sweep after sweep. *)
SweepStep(code, T, k) == IF k = 0 THEN code ELSE WithoutDead(T[k - 1])
IsSweeps(code, T, N) == T = [k \in 0 .. N |-> SweepStep(code, T, k)]

LEMMA SweepStepLocal ==
  ASSUME NEW code, NEW T, NEW U, NEW k, k = 0 \/ T[k - 1] = U[k - 1]
  PROVE  SweepStep(code, T, k) = SweepStep(code, U, k)
BY DEF SweepStep

LEMMA SweepsExist ==
  ASSUME NEW code, NEW M \in Nat
  PROVE  \A N \in 0 .. M : \E T : IsSweeps(code, T, N)
<1> DEFINE Good == {N \in 0 .. M : \E T : IsSweeps(code, T, N)}
<1>1. 0 \in Good
  <2> DEFINE T == [k \in 0 .. 0 |-> SweepStep(code, <<>>, k)]
  <2>1. \A k \in 0 .. 0 : SweepStep(code, T, k) = SweepStep(code, <<>>, k)
    BY SweepStepLocal
  <2>2. IsSweeps(code, T, 0)
    BY <2>1 DEF IsSweeps
  <2> HIDE DEF T
  <2> QED BY <2>2
<1>2. ASSUME NEW n \in 0 .. M - 1, n \in Good
      PROVE  n + 1 \in Good
  <2>1. PICK T : IsSweeps(code, T, n)
    BY <1>2
  <2> DEFINE U == [k \in 0 .. n + 1 |-> SweepStep(code, T, k)]
  <2>2. T = [k \in 0 .. n |-> SweepStep(code, T, k)]
    BY <2>1 DEF IsSweeps
  <2>3. n \in Nat /\ n + 1 \in 0 .. M
    OBVIOUS
  <2>4. \A k \in 0 .. n : U[k] = T[k]
    BY <2>2, <2>3
  <2>5. \A k \in 0 .. n + 1 : SweepStep(code, U, k) = SweepStep(code, T, k)
    <3> SUFFICES ASSUME NEW k \in 0 .. n + 1
                 PROVE  SweepStep(code, U, k) = SweepStep(code, T, k)
      OBVIOUS
    <3>1. k = 0 \/ k - 1 \in 0 .. n
      BY <2>3
    <3> HIDE DEF U
    <3> QED BY <2>4, <3>1, SweepStepLocal
  <2>6. U = [k \in 0 .. n + 1 |-> SweepStep(code, U, k)]
    BY <2>5
  <2> HIDE DEF U
  <2>7. IsSweeps(code, U, n + 1)
    BY <2>6 DEF IsSweeps
  <2> QED BY <2>3, <2>7
<1> HIDE DEF Good
<1>3. \A N \in 0 .. M : N \in Good
  BY <1>1, <1>2, Stepwise
<1> QED BY <1>3 DEF Good

LEMMA WithCodeTwice ==
  ASSUME NEW f, IsFunction(f), NEW a, NEW b
  PROVE  WithCode(WithCode(f, a), b) = WithCode(f, b)
<1>1. DOMAIN f = {"ty", "code"}
  BY DEF IsFunction
<1> QED BY <1>1 DEF WithCode

LEMMA WithOwnCode ==
  ASSUME NEW f, IsFunction(f)
  PROVE  WithCode(f, f.code) = f
<1>1. f \in [ty : Seq(Types \cup {BoolTy}), code : Seq(Insns(RegsOf(f)))]
  BY DEF IsFunction
<1> QED BY <1>1 DEF WithCode

LEMMA DceKeeps ==
  ASSUME NEW f, IsFunction(f), LabelsPlaced(f.code)
  PROVE  Keeps(f, Dce(f).fn)
<1> DEFINE N == Len(f.code)
           c == CHOOSE T : IsSweeps(f.code, T, N)
           Good == {k \in 0 .. N : Keeps(f, WithCode(f, c[k])) /\ WithCode(f, c[k]).code = c[k]}
<1>1. N \in Nat /\ N \in 0 .. N
  BY FunctionParts
<1>2. Dce(f).fn = WithCode(f, c[N])
  BY DEF Dce, Times, IsSweeps, SweepStep
<1>3. IsSweeps(f.code, c, N)
  <2>1. \E T : IsSweeps(f.code, T, N)
    <3> HIDE DEF N
    <3> QED BY <1>1, SweepsExist
  <2> QED BY <2>1
<1> HIDE DEF c, N
<1>4. \A k \in 0 .. N : c[k] = SweepStep(f.code, c, k)
  BY <1>3 DEF IsSweeps
<1>5. 0 \in Good
  <2>1. c[0] = f.code
    BY <1>1, <1>4 DEF SweepStep
  <2>2. Keeps(f, f)
    BY DEF Keeps
  <2>3. WithCode(f, c[0]) = f
    BY <2>1, WithOwnCode
  <2> QED BY <1>1, <2>1, <2>2, <2>3
<1>6. ASSUME NEW k \in 0 .. N - 1, k \in Good
      PROVE  k + 1 \in Good
  <2> DEFINE g == WithCode(f, c[k])
             h == WithCode(g, WithoutDead(g.code))
  <2>1. k + 1 \in 0 .. N /\ k + 1 # 0 /\ k + 1 - 1 = k
    BY <1>1
  <2>2. Keeps(f, g) /\ g.code = c[k]
    BY <1>6
  <2>3. c[k + 1] = WithoutDead(c[k])
    BY <1>4, <2>1 DEF SweepStep
  <2>4. h = WithCode(f, c[k + 1])
    BY <2>2, <2>3, WithCodeTwice
  <2> HIDE DEF g
  <2>5. IsFunction(g) /\ LabelsPlaced(g.code)
    BY <2>2 DEF Keeps
  <2>6. Keeps(g, h) /\ h.code = WithoutDead(g.code)
    BY <2>5, SweepKeeps
  <2> HIDE DEF h
  <2>7. Keeps(f, h)
    BY <2>2, <2>6, KeepsOn
  <2> QED BY <2>1, <2>2, <2>3, <2>4, <2>6, <2>7
<1> HIDE DEF Good
<1>7. \A k \in 0 .. N : k \in Good
  BY <1>1, <1>5, <1>6, Stepwise
<1>8. N \in Good
  BY <1>1, <1>7
<1> QED BY <1>2, <1>8 DEF Good

-----------------------------------------------------------------------------
(* Control flow: what is not reached, and jumps to the next instruction.     *)

LEMMA RunsReach ==
  ASSUME NEW f, IsFunction(f), LabelsPlaced(f.code), NEW memory
  PROVE  \A n \in 0 .. LastStep : Over(Trace(f, memory)[n]) \/ Trace(f, memory)[n].pc \notin Unreachable(f.code)
<1> DEFINE R == Trace(f, memory)
           U == Unreachable(f.code)
           Good == {n \in 0 .. LastStep : Over(R[n]) \/ R[n].pc \notin U}
<1>1. R[0] = Start(f, memory) /\ \A n \in 0 .. LastStep - 1 : R[n + 1] = Go(f, R[n])
  BY TraceByStep
<1>2. \A n \in 0 .. LastStep : Shaped(f, R[n]) /\ R[n].pc \in 1 .. Len(f.code) + 1
  BY RunIsShaped
<1>3. 1 \notin U
  BY DEF Unreachable
<1>4. \A i \in DOMAIN f.code : f.code[i].kind = "label" => i \notin U
  <2> SUFFICES ASSUME NEW i \in DOMAIN f.code, f.code[i].kind = "label", i \in U PROVE FALSE
    OBVIOUS
  <2>1. PICK j \in 1 .. i - 1 : \A k \in j + 1 .. i : f.code[k].kind # "label"
    BY DEF Unreachable
  <2>2. i \in Nat
    BY FunctionParts
  <2>3. i \in j + 1 .. i
    BY <2>1, <2>2
  <2> QED BY <2>1, <2>3
<1>5. \A i \in DOMAIN f.code : i \notin U /\ f.code[i].kind \notin {"jmp", "ret"} => i + 1 \notin U
  <2> SUFFICES ASSUME NEW i \in DOMAIN f.code, i \notin U, f.code[i].kind \notin {"jmp", "ret"}, i + 1 \in U
               PROVE  FALSE
    OBVIOUS
  <2> DEFINE h == i + 1
  <2>0. h \in Unreachable(f.code)
    OBVIOUS
  <2> HIDE DEF h
  <2>1. PICK j \in 1 .. h - 1 : /\ f.code[j].kind \in {"jmp", "ret"}
                                /\ \A k \in j + 1 .. h : f.code[k].kind # "label"
    BY <2>0 DEF Unreachable
  <2>2. i \in Nat
    BY FunctionParts
  <2>3. j # i
    BY <2>1
  <2>4. j \in 1 .. i - 1 /\ \A k \in j + 1 .. i : k \in j + 1 .. h
    BY <2>1, <2>2, <2>3 DEF h
  <2>5. i \in U
    BY <2>1, <2>4 DEF Unreachable
  <2> QED BY <2>5
<1> HIDE DEF R, U
<1>6. 0 \in Good
  BY <1>1, <1>3, LastStepIsNat, StartIsShaped
<1>7. ASSUME NEW n \in 0 .. LastStep - 1, n \in Good
      PROVE  n + 1 \in Good
  <2> DEFINE m == R[n]
             s == R[n + 1]
  <2>1. n \in 0 .. LastStep /\ n + 1 \in 0 .. LastStep
    BY LastStepIsNat
  <2>2. Shaped(f, m) /\ s = Go(f, m) /\ (Over(m) \/ m.pc \notin U)
    BY <1>1, <1>2, <1>7, <2>1
  <2> HIDE DEF m, s
  <2>3. Over(s) \/ s.pc \notin U
    <3>1. CASE Over(m)
      BY <2>2, <3>1 DEF Go, Advanced, Over
    <3>2. CASE ~Over(m) /\ m.pc \notin DOMAIN f.code
      <4>1. Parts(s, m.pc, m.regs, m.mem, m.out, "return")
        BY <2>2, <3>2, EndParts
      <4> QED BY <4>1 DEF Parts, Over
    <3>3. CASE ~Over(m) /\ m.pc \in DOMAIN f.code
      <4>1. s = Step(f, m)
        BY <2>2, <3>3 DEF Go, Advanced, Over
      <4>2. Onward(f, f.code[m.pc], m, s)
        BY <2>2, <3>3, <4>1, StepOnward
      <4>3. \A l \in Goals(f.code[m.pc]) : LabelAt(f.code, l) \notin U
        <5> SUFFICES ASSUME NEW l \in Goals(f.code[m.pc]) PROVE LabelAt(f.code, l) \notin U
          OBVIOUS
        <5>1. PlacesOf(f.code, l) # {}
          BY <3>3 DEF LabelsPlaced
        <5>2. LabelAt(f.code, l) \in DOMAIN f.code /\ f.code[LabelAt(f.code, l)].kind = "label"
          BY <5>1, LabelIsPlaced DEF PlacesOf
        <5> QED BY <1>4, <5>2
      <4>4. f.code[m.pc].kind \notin {"jmp", "ret"} => m.pc + 1 \notin U
        BY <1>5, <2>2, <3>3
      <4> QED BY <4>2, <4>3, <4>4 DEF Onward
    <3> QED BY <3>1, <3>2, <3>3
  <2> QED BY <2>1, <2>3 DEF m, s
<1> HIDE DEF Good
<1>8. \A n \in 0 .. LastStep : n \in Good
  BY <1>6, <1>7, LastStepIsNat, Stepwise
<1> QED BY <1>8 DEF Good, R, U

LEMMA ReachedKeeps ==
  ASSUME NEW f, IsFunction(f), LabelsPlaced(f.code)
  PROVE  /\ Keeps(f, WithCode(f, Only(f.code, DOMAIN f.code \ Unreachable(f.code))))
         /\ WithCode(f, Only(f.code, DOMAIN f.code \ Unreachable(f.code))).code
              = Only(f.code, DOMAIN f.code \ Unreachable(f.code))
<1> DEFINE S == DOMAIN f.code \ Unreachable(f.code)
           V == RegsOf(f)
<1>1. \A i \in DOMAIN f.code : f.code[i].kind = "label" => i \in S
  <2> SUFFICES ASSUME NEW i \in DOMAIN f.code, f.code[i].kind = "label", i \in Unreachable(f.code) PROVE FALSE
    OBVIOUS
  <2>1. PICK j \in 1 .. i - 1 : \A k \in j + 1 .. i : f.code[k].kind # "label"
    BY DEF Unreachable
  <2>2. i \in Nat
    BY FunctionParts
  <2>3. i \in j + 1 .. i
    BY <2>1, <2>2
  <2> QED BY <2>1, <2>3
<1>2. \A i \in DOMAIN f.code : i \in S => Reads(f.code[i], V)
  BY FunctionParts
<1>3. ASSUME NEW memory, NEW n \in 0 .. LastStep - 1, ~Over(Trace(f, memory)[n]),
             Trace(f, memory)[n].pc \in DOMAIN f.code \ S
      PROVE  Skips(f, V, Trace(f, memory)[n], Trace(f, memory)[n + 1])
  <2>1. n \in 0 .. LastStep
    BY LastStepIsNat
  <2>2. Trace(f, memory)[n].pc \in Unreachable(f.code)
    BY <1>3
  <2>3. FALSE
    BY <1>3, <2>1, <2>2, RunsReach
  <2> QED BY <2>3
<1>4. V \in SUBSET RegsOf(f)
  OBVIOUS
<1> HIDE DEF S, V
<1>5. Keeps(f, WithCode(f, Only(f.code, S))) /\ WithCode(f, Only(f.code, S)).code = Only(f.code, S)
  BY <1>1, <1>2, <1>3, <1>4, DeletingKeeps
<1> QED BY <1>5 DEF S

LEMMA FollowingLabel ==
  ASSUME NEW code, LabelsPlaced(code), Len(code) \in Nat, DOMAIN code = 1 .. Len(code),
         NEW i \in DOMAIN code, NEW l, LabelFollows(code, i, l)
  PROVE  LabelAt(code, l) = i + 1
<1>1. i + 1 \in DOMAIN code /\ code[i + 1].kind = "label" /\ code[i + 1].label = l
  BY DEF LabelFollows
<1>2. i + 1 \in PlacesOf(code, l)
  BY <1>1 DEF PlacesOf
<1> HIDE DEF PlacesOf
<1>3. \A p \in PlacesOf(code, l) : p = LabelAt(code, l)
  BY <1>2, LabelIsPlaced
<1> QED BY <1>2, <1>3

LEMMA DirectKeeps ==
  ASSUME NEW f, IsFunction(f), LabelsPlaced(f.code)
  PROVE  /\ Keeps(f, WithCode(f, Only(f.code, DOMAIN f.code \ IdleJumps(f.code))))
         /\ WithCode(f, Only(f.code, DOMAIN f.code \ IdleJumps(f.code))).code
              = Only(f.code, DOMAIN f.code \ IdleJumps(f.code))
<1> DEFINE S == DOMAIN f.code \ IdleJumps(f.code)
           V == RegsOf(f)
<1>0. \A i \in IdleJumps(f.code) : i \in DOMAIN f.code /\ f.code[i].kind = "jmp"
                                   /\ LabelFollows(f.code, i, f.code[i].label)
  BY DEF IdleJumps
<1>1. \A i \in DOMAIN f.code : f.code[i].kind = "label" => i \in S
  BY <1>0
<1>2. \A i \in DOMAIN f.code : i \in S => Reads(f.code[i], V)
  BY FunctionParts
<1>3. ASSUME NEW memory, NEW n \in 0 .. LastStep - 1, ~Over(Trace(f, memory)[n]),
             Trace(f, memory)[n].pc \in DOMAIN f.code \ S
      PROVE  Skips(f, V, Trace(f, memory)[n], Trace(f, memory)[n + 1])
  <2> DEFINE m == Trace(f, memory)[n]
             s == Trace(f, memory)[n + 1]
             insn == f.code[m.pc]
  <2>1. n \in 0 .. LastStep
    BY LastStepIsNat
  <2>2. Shaped(f, m) /\ s = Go(f, m)
    BY <2>1, RunIsShaped, TraceByStep
  <2>3. s = Step(f, m)
    BY <1>3, <2>2 DEF Go, Advanced, Over
  <2>4. m.pc \in DOMAIN f.code /\ insn.kind = "jmp" /\ LabelFollows(f.code, m.pc, insn.label)
    BY <1>0, <1>3
  <2>5. insn.label # None
    BY <2>4, FunctionParts DEF Complete
  <2>6. LabelAt(f.code, insn.label) = m.pc + 1
    <3>1. Len(f.code) \in Nat /\ DOMAIN f.code = 1 .. Len(f.code)
      BY FunctionParts
    <3> QED BY <2>4, <3>1, FollowingLabel
  <2>7. insn = f.code[m.pc]
    OBVIOUS
  <2> HIDE DEF m, s, insn, V
  <2>8. Dest(f, m, insn) = m.pc + 1
    BY <2>4, <2>5, <2>6 DEF Dest, Target
  <2>9. Parts(s, m.pc + 1, m.regs, m.mem, m.out, m.end)
    BY <2>2, <2>3, <2>4, <2>7, <2>8, StepParts
  <2>10. Parts(m, m.pc, m.regs, m.mem, m.out, m.end) /\ Agrees(f, V, m, m)
    BY <2>2 DEF Parts, Shaped, Agrees
  <2>11. m.pc \in Nat /\ m.pc + 1 \in Nat
    BY <2>2 DEF Shaped
  <2>12. Agrees(f, V, m, s)
    BY <2>9, <2>10, <2>11, AgreesByParts
  <2> QED BY <2>9, <2>12 DEF Skips, Parts, m, s
<1>4. V \in SUBSET RegsOf(f)
  OBVIOUS
<1> HIDE DEF S, V
<1>5. Keeps(f, WithCode(f, Only(f.code, S))) /\ WithCode(f, Only(f.code, S)).code = Only(f.code, S)
  BY <1>1, <1>2, <1>3, <1>4, DeletingKeeps
<1> QED BY <1>5 DEF S

-----------------------------------------------------------------------------
(* Control flow: branches that go where they went.                           *)

(* new, in place of the branch old at i, goes to the same instruction: from  *)
(* any state, and from any that a run comes to.                              *)
Replaces(old, new) ==
  old.kind = "br" /\ new.kind \in {"br", "jmp"} /\ new.dst = old.dst /\ Goals(new) \subseteq Goals(old)

SameWay(f, i, old, new) ==
  /\ Replaces(old, new)
  /\ \A m : Shaped(f, m) /\ m.pc = i => Dest(f, m, new) = Dest(f, m, old)

SameWayInRuns(f, i, old, new) ==
  /\ Replaces(old, new)
  /\ \A memory : \A n \in 0 .. LastStep - 1 :
       ~Over(Trace(f, memory)[n]) /\ Trace(f, memory)[n].pc = i =>
         Dest(f, Trace(f, memory)[n], new) = Dest(f, Trace(f, memory)[n], old)

LEMMA SameWayAlways ==
  ASSUME NEW f, IsFunction(f), LabelsPlaced(f.code), NEW i, NEW old, NEW new, SameWay(f, i, old, new)
  PROVE  SameWayInRuns(f, i, old, new)
<1>1. ASSUME NEW memory, NEW n \in 0 .. LastStep - 1, Trace(f, memory)[n].pc = i
      PROVE  Dest(f, Trace(f, memory)[n], new) = Dest(f, Trace(f, memory)[n], old)
  <2>1. n \in 0 .. LastStep
    BY LastStepIsNat
  <2>2. Shaped(f, Trace(f, memory)[n])
    BY <2>1, RunIsShaped
  <2> QED BY <1>1, <2>2 DEF SameWay
<1> QED BY <1>1 DEF SameWay, SameWayInRuns

LEMMA LabelsSame ==
  ASSUME NEW code, NEW new, DOMAIN new = DOMAIN code, LabelsPlaced(code),
         \A i \in DOMAIN code : /\ new[i].kind = "label" <=> code[i].kind = "label"
                                /\ code[i].kind = "label" => new[i].label = code[i].label
                                /\ Goals(new[i]) \subseteq Goals(code[i])
  PROVE  /\ LabelsPlaced(new)
         /\ \A i \in DOMAIN code : \A l \in Goals(code[i]) :
              LabelAt(new, l) = LabelAt(code, l) /\ LabelAt(code, l) \in DOMAIN code
<1>1. \A l : PlacesOf(new, l) = PlacesOf(code, l)
  BY DEF PlacesOf
<1>2. ASSUME NEW i \in DOMAIN new
      PROVE  /\ \A l \in Goals(new[i]) : PlacesOf(new, l) # {}
             /\ new[i].kind = "label" => PlacesOf(new, new[i].label) = {i}
  <2>1. \A l \in Goals(code[i]) : PlacesOf(code, l) # {}
    BY DEF LabelsPlaced
  <2>2. code[i].kind = "label" => PlacesOf(code, code[i].label) = {i}
    BY DEF LabelsPlaced
  <2>3. \A l \in Goals(new[i]) : l \in Goals(code[i])
    OBVIOUS
  <2>4. \A l \in Goals(new[i]) : PlacesOf(new, l) # {}
    BY <1>1, <2>1, <2>3
  <2>5. new[i].kind = "label" => PlacesOf(new, new[i].label) = {i}
    BY <1>1, <2>2
  <2> QED BY <2>4, <2>5
<1>3. LabelsPlaced(new)
  BY <1>2 DEF LabelsPlaced
<1>4. ASSUME NEW i \in DOMAIN code, NEW l \in Goals(code[i])
      PROVE  LabelAt(new, l) = LabelAt(code, l) /\ LabelAt(code, l) \in DOMAIN code
  <2>1. PlacesOf(code, l) # {}
    BY DEF LabelsPlaced
  <2>2. LabelAt(code, l) \in PlacesOf(code, l)
    BY <2>1, LabelIsPlaced
  <2>3. LabelAt(code, l) \in PlacesOf(new, l)
    BY <1>1, <2>2
  <2>4. PlacesOf(new, l) # {}
    BY <2>3
  <2>5. LabelAt(code, l) = LabelAt(new, l)
    BY <1>3, <2>3, <2>4, LabelIsPlaced
  <2> QED BY <2>2, <2>5 DEF PlacesOf
<1> QED BY <1>3, <1>4

LEMMA RewritingKeeps ==
  ASSUME NEW f, IsFunction(f), LabelsPlaced(f.code),
         NEW new \in Seq(Whole(RegsOf(f))), DOMAIN new = DOMAIN f.code,
         \A i \in DOMAIN f.code : new[i] = f.code[i] \/ SameWayInRuns(f, i, f.code[i], new[i])
  PROVE  Keeps(f, WithCode(f, new)) /\ WithCode(f, new).code = new
<1> DEFINE g == WithCode(f, new)
           V == RegsOf(f)
           N == Len(f.code)
           P == [i \in 1 .. N + 1 |-> i]
<1>1. IsFunction(g) /\ g.ty = f.ty /\ g.code = new
  BY FunctionByParts
<1>2. N \in Nat /\ DOMAIN f.code = 1 .. N
  BY FunctionParts
<1> HIDE DEF g
<1>3. ASSUME NEW i \in DOMAIN f.code
      PROVE  /\ new[i].kind = "label" <=> f.code[i].kind = "label"
             /\ f.code[i].kind = "label" => new[i].label = f.code[i].label
             /\ Goals(new[i]) \subseteq Goals(f.code[i])
  <2>1. CASE new[i] = f.code[i]
    BY <2>1
  <2>2. CASE SameWayInRuns(f, i, f.code[i], new[i])
    BY <2>2 DEF SameWayInRuns, Replaces
  <2> QED BY <2>1, <2>2
<1>4. LabelsPlaced(new) /\ \A i \in DOMAIN f.code : \A l \in Goals(f.code[i]) :
                             LabelAt(new, l) = LabelAt(f.code, l) /\ LabelAt(f.code, l) \in DOMAIN f.code
  BY <1>3, LabelsSame
<1>5. ASSUME NEW memory, Outcome(f, memory).end = "return"
      PROVE  Outcome(g, memory) = Outcome(f, memory)
  <2> DEFINE R == Trace(f, memory)
  <2>1. \A n \in 0 .. LastStep : Shaped(f, R[n]) /\ R[n].pc \in 1 .. N + 1
    BY RunIsShaped
  <2>2. \A n \in 0 .. LastStep - 1 : R[n + 1] = Go(f, R[n])
    BY TraceByStep
  <2>3. R[LastStep].end = "return"
    BY <1>5, OutcomeIsLast
  <2> HIDE DEF R, N
  <2>4. P[1] = 1 /\ \A i \in 1 .. N + 1 : P[i] = i
    BY <1>2
  <2> HIDE DEF P
  <2>5. ASSUME NEW n \in 0 .. LastStep - 1, ~Over(R[n])
        PROVE  Follows(f, g, V, P, R[n], R[n + 1])
    <3> DEFINE m == R[n]
               s == R[n + 1]
    <3>1. n \in 0 .. LastStep /\ n + 1 \in 0 .. LastStep
      BY LastStepIsNat
    <3>2. Shaped(f, m) /\ s = Go(f, m) /\ ~Over(m) /\ P[m.pc] = m.pc /\ P[s.pc] = s.pc
      BY <2>1, <2>2, <2>4, <2>5, <3>1
    <3>5. \A old, now : SameWayInRuns(f, m.pc, old, now) => Dest(f, m, now) = Dest(f, m, old)
      BY <2>5 DEF SameWayInRuns, R
    <3> HIDE DEF m, s, V
    <3>3. CASE m.pc \notin DOMAIN f.code
      <4>1. P[m.pc] \notin DOMAIN g.code
        BY <1>1, <3>2, <3>3
      <4>2. Follows(f, g, V, P, m, Go(f, m))
        BY <1>1, <3>2, <3>3, <4>1, EndFollows
      <4> QED BY <3>2, <4>2 DEF m, s
    <3>4. CASE m.pc \in DOMAIN f.code
      <4> SUFFICES ASSUME NEW q, Agrees(f, V, m, q), q.pc = m.pc
                   PROVE  Agrees(f, V, s, Go(g, q)) /\ Go(g, q).pc = s.pc
        BY <3>2 DEF Follows, m, s
      <4> DEFINE old == f.code[m.pc]
                 now == new[m.pc]
      <4>1. ~Over(q) /\ Shaped(g, q) /\ Shaped(f, q)
        BY <1>1, <3>2, ShapedAsWell DEF Agrees, Over
      <4>2. s = Step(f, m) /\ Go(g, q) = Step(g, q)
        BY <1>1, <3>2, <3>4, <4>1 DEF Go, Advanced, Over
      <4>3. Complete(old) /\ Reads(old, V) /\ old.kind \in Kinds
        BY <3>4, FunctionParts DEF V
      <4>4. \A l \in Goals(old) : /\ LabelAt(f.code, l) \in Nat /\ LabelAt(g.code, l) \in Nat
                                  /\ LabelAt(g.code, l) = LabelAt(f.code, l)
        BY <1>1, <1>2, <1>4, <3>4
      <4>5. old = f.code[m.pc] /\ now = g.code[q.pc]
        BY <1>1
      <4>6. now = old \/ SameWayInRuns(f, m.pc, old, now)
        BY <3>4
      <4>10. Complete(now) /\ Reads(now, V)
        <5>1. m.pc \in DOMAIN g.code
          BY <1>1, <3>4
        <5> QED BY <1>1, <5>1, FunctionParts DEF V, RegsOf
      <4>7. V \in SUBSET RegsOf(f)
        BY DEF V
      <4> HIDE DEF old, now
      <4>8. CASE now = old
        <5>1. Agrees(f, V, Step(f, m), Step(g, q)) /\ Parallel(f, g, old, m, Step(f, m), q, Step(g, q))
          BY <1>1, <3>2, <4>3, <4>4, <4>5, <4>7, <4>8, StepAgrees
        <5>2. Step(g, q).pc = Step(f, m).pc
          BY <4>4, <5>1 DEF Parallel
        <5> QED BY <4>2, <5>1, <5>2
      <4>9. CASE SameWayInRuns(f, m.pc, old, now)
        <5>1. old.kind = "br" /\ now.kind \in {"br", "jmp"} /\ Goals(now) \subseteq Goals(old)
          BY <4>9 DEF SameWayInRuns, Replaces
        <5>2. Parts(s, Dest(f, m, old), m.regs, m.mem, m.out, m.end)
          BY <3>2, <4>2, <4>5, <5>1, StepParts
        <5>3. Parts(Go(g, q), Dest(g, q, now), q.regs, q.mem, q.out, q.end)
          BY <4>1, <4>2, <4>5, <5>1, StepParts
        <5>4. Dest(g, q, now) = Dest(f, q, now)
          <6>1. Target(q, now) # None => Target(q, now) \in Goals(now)
            BY <5>1 DEF Target, Goals
          <6>2. Target(q, now) # None => LabelAt(g.code, Target(q, now)) = LabelAt(f.code, Target(q, now))
            BY <4>4, <5>1, <6>1
          <6> QED BY <6>2 DEF Dest
        <5>5. Dest(f, q, now) = Dest(f, m, now)
          <6>1. now.kind = "br" => now.src1 # 0 /\ now.src1 \in V
            BY <4>10 DEF Complete, Reads, Sources
          <6>2. now.kind = "br" => q.regs[now.src1] = m.regs[now.src1]
            BY <6>1 DEF Agrees
          <6> QED BY <5>1, <6>2 DEF Dest, Target
        <5>6. Dest(f, m, now) = Dest(f, m, old)
          BY <3>5, <4>9
        <5>7. Dest(f, m, old) \in Nat
          <6>1. Target(m, old) # None => Target(m, old) \in Goals(old)
            BY <5>1 DEF Target, Goals
          <6>2. Target(m, old) # None => LabelAt(f.code, Target(m, old)) \in Nat
            BY <4>4, <6>1
          <6>3. m.pc \in Nat
            BY <3>2 DEF Shaped
          <6>4. m.pc + 1 \in Nat
            BY <6>3
          <6> QED BY <6>2, <6>4 DEF Dest
        <5>8. Parts(Go(g, q), Dest(f, m, old), q.regs, m.mem, m.out, m.end)
          BY <5>3, <5>4, <5>5, <5>6 DEF Agrees
        <5> DEFINE to == Dest(f, m, old)
        <5>9. to \in Nat /\ Parts(s, to, m.regs, m.mem, m.out, m.end) /\ Parts(Go(g, q), to, q.regs, m.mem, m.out, m.end)
          BY <5>2, <5>7, <5>8
        <5> HIDE DEF to
        <5>10. Agrees(f, V, s, Go(g, q))
          BY <5>9, AgreesByParts
        <5> QED BY <5>9, <5>10 DEF Parts
      <4> QED BY <4>6, <4>8, <4>9
    <3> QED BY <3>3, <3>4
  <2>6. Simulates(f, g, V, P, memory)
    BY <2>5 DEF Simulates, R
  <2> HIDE DEF V
  <2>7. g.ty = f.ty /\ P[1] = 1 /\ Trace(f, memory)[LastStep].end = "return"
    BY <1>1, <2>3, <2>4 DEF R
  <2> QED BY <2>6, <2>7, Simulated
<1>7. ConstantsStand(f) => ConstantsStand(g)
  <2> SUFFICES ASSUME ConstantsStand(f) PROVE ConstantsStand(g)
    OBVIOUS
  <2>1. ASSUME NEW i \in DOMAIN g.code
        PROVE  \E j \in DOMAIN f.code : SetsAlike(g.code[i], f.code[j])
    <3>1. i \in DOMAIN f.code /\ g.code[i] = new[i]
      BY <1>1, <2>1
    <3>2. new[i] = f.code[i] \/ Replaces(f.code[i], new[i])
      BY <3>1 DEF SameWayInRuns
    <3> QED BY <3>1, <3>2 DEF SetsAlike, Replaces
  <2> QED BY <1>1, <2>1, ConstantsStay
<1>6. Keeps(f, g)
  BY <1>1, <1>4, <1>5, <1>7 DEF Keeps
<1> QED BY <1>1, <1>6 DEF g

LEMMA MergedKeeps ==
  ASSUME NEW f, IsFunction(f), LabelsPlaced(f.code)
  PROVE  Keeps(f, WithCode(f, MergedArms(f.code))) /\ WithCode(f, MergedArms(f.code)).code = MergedArms(f.code)
<1> DEFINE new == MergedArms(f.code)
           W == Whole(RegsOf(f))
           Same(i) == f.code[i].kind = "br" /\ f.code[i].labelTrue # None /\ f.code[i].labelTrue = f.code[i].labelFalse
<1>1. f.code \in Seq(W) /\ Len(f.code) \in Nat /\ DOMAIN f.code = 1 .. Len(f.code)
  BY FunctionParts
<1>2. DOMAIN new = DOMAIN f.code
      /\ \A i \in DOMAIN f.code : new[i] = IF Same(i) THEN JumpTo(f.code[i], f.code[i].labelTrue) ELSE f.code[i]
  BY DEF MergedArms
<1>3. ASSUME NEW i \in DOMAIN f.code, Same(i)
      PROVE  JumpTo(f.code[i], f.code[i].labelTrue) \in W
  <2> DEFINE insn == f.code[i]
             jump == JumpTo(insn, insn.labelTrue)
  <2>1. insn \in Insns(RegsOf(f)) /\ insn.labelTrue # None
    BY <1>1, <1>3 DEF Whole
  <2> HIDE DEF insn
  <2>2. jump \in Insns(RegsOf(f))
    BY <2>1 DEF JumpTo, Insns, Kinds
  <2>3. jump.kind = "jmp" /\ jump.label # None
    BY <2>1 DEF JumpTo, Insns
  <2> HIDE DEF jump
  <2>4. Complete(jump)
    BY <2>3 DEF Complete, HasSideEffects, UnaryOps, BinaryOps, Compares
  <2> QED BY <2>2, <2>4 DEF Whole, jump, insn
<1>4. ASSUME NEW i \in DOMAIN f.code, Same(i)
      PROVE  SameWay(f, i, f.code[i], JumpTo(f.code[i], f.code[i].labelTrue))
  <2> DEFINE insn == f.code[i]
             jump == JumpTo(insn, insn.labelTrue)
  <2>1. insn.kind = "br" /\ insn.labelTrue # None /\ insn.labelFalse = insn.labelTrue
    BY <1>4
  <2>2. insn \in Insns(RegsOf(f))
    BY <1>1 DEF Whole
  <2> HIDE DEF insn
  <2>3. jump.kind = "jmp" /\ jump.label = insn.labelTrue /\ jump.dst = insn.dst
    BY <2>2 DEF JumpTo, Insns
  <2> HIDE DEF jump
  <2>4. Goals(jump) \subseteq Goals(insn)
    BY <2>1, <2>3 DEF Goals
  <2>5. \A m : Target(m, jump) = Target(m, insn)
    BY <2>1, <2>3 DEF Target
  <2>6. \A m : Dest(f, m, jump) = Dest(f, m, insn)
    BY <2>5 DEF Dest
  <2> QED BY <2>1, <2>3, <2>4, <2>6 DEF SameWay, Replaces, insn, jump
<1> HIDE DEF new, Same
<1>5. \A i \in 1 .. Len(f.code) : new[i] \in W
  <2> SUFFICES ASSUME NEW i \in DOMAIN f.code PROVE new[i] \in W
    BY <1>1
  <2>1. CASE Same(i)
    BY <1>2, <1>3, <2>1
  <2>2. CASE ~Same(i)
    BY <1>1, <1>2, <2>2
  <2> QED BY <2>1, <2>2
<1>6. new \in Seq(W)
  <2> HIDE DEF W
  <2>1. new = [i \in 1 .. Len(f.code) |-> new[i]]
    BY <1>1, <1>2 DEF new, MergedArms
  <2> QED BY <1>1, <1>5, <2>1
<1>7. \A i \in DOMAIN f.code : new[i] = f.code[i] \/ SameWayInRuns(f, i, f.code[i], new[i])
  BY <1>2, <1>4, SameWayAlways
<1>8. Keeps(f, WithCode(f, new)) /\ WithCode(f, new).code = new
  BY <1>2, <1>6, <1>7, RewritingKeeps
<1> QED BY <1>8 DEF new

LEMMA FallthroughKeeps ==
  ASSUME NEW f, IsFunction(f), LabelsPlaced(f.code)
  PROVE  /\ Keeps(f, WithCode(f, WithoutFallthroughArms(f.code)))
         /\ WithCode(f, WithoutFallthroughArms(f.code)).code = WithoutFallthroughArms(f.code)
<1> DEFINE new == WithoutFallthroughArms(f.code)
           W == Whole(RegsOf(f))
           Falls(i) == f.code[i].kind = "br" /\ f.code[i].labelFalse # None
                       /\ LabelFollows(f.code, i, f.code[i].labelFalse)
           Cut(insn) == [insn EXCEPT !.labelFalse = None]
<1>1. f.code \in Seq(W) /\ Len(f.code) \in Nat /\ DOMAIN f.code = 1 .. Len(f.code)
  BY FunctionParts
<1>2. DOMAIN new = DOMAIN f.code
      /\ \A i \in DOMAIN f.code : new[i] = IF Falls(i) THEN Cut(f.code[i]) ELSE f.code[i]
  BY DEF WithoutFallthroughArms
<1>3. ASSUME NEW i \in DOMAIN f.code, Falls(i)
      PROVE  Cut(f.code[i]) \in W
  <2> DEFINE insn == f.code[i]
             short == Cut(insn)
  <2>1. insn \in Insns(RegsOf(f)) /\ Complete(insn) /\ insn.kind = "br"
    BY <1>1, <1>3 DEF Whole
  <2> HIDE DEF insn
  <2>2. short \in Insns(RegsOf(f))
    BY <2>1 DEF Insns
  <2>3. short.kind = "br" /\ short.src1 = insn.src1
    BY <2>1 DEF Insns
  <2> HIDE DEF short
  <2>4. Complete(short)
    BY <2>1, <2>3 DEF Complete, HasSideEffects, UnaryOps, BinaryOps, Compares
  <2> QED BY <2>2, <2>4 DEF Whole, short, insn
<1>4. ASSUME NEW i \in DOMAIN f.code, Falls(i)
      PROVE  SameWay(f, i, f.code[i], Cut(f.code[i]))
  <2> DEFINE insn == f.code[i]
             short == Cut(insn)
  <2>1. insn.kind = "br" /\ insn.labelFalse # None /\ LabelFollows(f.code, i, insn.labelFalse)
    BY <1>4
  <2>2. LabelAt(f.code, insn.labelFalse) = i + 1
    BY <1>1, <2>1, FollowingLabel
  <2>3. insn \in Insns(RegsOf(f))
    BY <1>1 DEF Whole
  <2> HIDE DEF insn
  <2>4. short.kind = "br" /\ short.src1 = insn.src1 /\ short.labelTrue = insn.labelTrue /\ short.labelFalse = None
        /\ short.dst = insn.dst
    BY <2>1, <2>3 DEF Insns
  <2> HIDE DEF short
  <2>5. Goals(short) \subseteq Goals(insn)
    BY <2>1, <2>4 DEF Goals
  <2>6. ASSUME NEW m, Shaped(f, m), m.pc = i
        PROVE  Dest(f, m, short) = Dest(f, m, insn)
    <3>1. CASE m.regs[insn.src1] # 0
      <4>1. Target(m, short) = Target(m, insn)
        BY <2>1, <2>4, <3>1 DEF Target
      <4> QED BY <4>1 DEF Dest
    <3>2. CASE m.regs[insn.src1] = 0
      <4>1. Target(m, short) = None /\ Target(m, insn) = insn.labelFalse
        BY <2>1, <2>4, <3>2 DEF Target
      <4> QED BY <2>1, <2>2, <2>6, <4>1 DEF Dest
    <3> QED BY <3>1, <3>2
  <2> QED BY <2>1, <2>4, <2>5, <2>6 DEF SameWay, Replaces, insn, short
<1> HIDE DEF new, Falls, Cut
<1>5. \A i \in 1 .. Len(f.code) : new[i] \in W
  <2> SUFFICES ASSUME NEW i \in DOMAIN f.code PROVE new[i] \in W
    BY <1>1
  <2>1. CASE Falls(i)
    BY <1>2, <1>3, <2>1
  <2>2. CASE ~Falls(i)
    BY <1>1, <1>2, <2>2
  <2> QED BY <2>1, <2>2
<1>6. new \in Seq(W)
  <2> HIDE DEF W
  <2>1. new = [i \in 1 .. Len(f.code) |-> new[i]]
    BY <1>1, <1>2 DEF new, WithoutFallthroughArms
  <2> QED BY <1>1, <1>5, <2>1
<1>7. \A i \in DOMAIN f.code : new[i] = f.code[i] \/ SameWayInRuns(f, i, f.code[i], new[i])
  BY <1>2, <1>4, SameWayAlways
<1>8. Keeps(f, WithCode(f, new)) /\ WithCode(f, new).code = new
  BY <1>2, <1>6, <1>7, RewritingKeeps
<1> QED BY <1>8 DEF new

-----------------------------------------------------------------------------
(* Control flow: branches on constants.                                      *)

(* At d it is known from the block that v holds c, set at j.                 *)
SetAt(code, j, d, v, c) ==
  /\ j \in 1 .. d - 1 /\ code[j].kind = "imm" /\ code[j].dst = v /\ code[j].imm = c
  /\ \A k \in j + 1 .. d - 1 : ~Barrier(code[k]) /\ (code[k].kind = "imm" => code[k].dst # v)

LEMMA RunsHold ==
  ASSUME NEW f, IsFunction(f), LabelsPlaced(f.code), ConstantsStand(f), NEW memory,
         NEW d \in DOMAIN f.code, ~(f.code[d].kind = "label"), NEW j, NEW v, NEW c, SetAt(f.code, j, d, v, c)
  PROVE  \A n \in 0 .. LastStep :
           ~Over(Trace(f, memory)[n]) /\ Trace(f, memory)[n].pc = d => Trace(f, memory)[n].regs[v] = Wrap(c, f.ty[v])
<1> DEFINE R == Trace(f, memory)
           x == Wrap(c, f.ty[v])
           In(m) == m.pc \in j + 1 .. d
           Good == {n \in 0 .. LastStep : Over(R[n]) \/ (In(R[n]) => R[n].regs[v] = x)}
<1>1. R[0] = Start(f, memory) /\ \A n \in 0 .. LastStep - 1 : R[n + 1] = Go(f, R[n])
  BY TraceByStep
<1>2. \A n \in 0 .. LastStep : Shaped(f, R[n]) /\ R[n].pc \in 1 .. Len(f.code) + 1
  BY RunIsShaped
<1>3. Len(f.code) \in Nat /\ DOMAIN f.code = 1 .. Len(f.code) /\ d \in Nat /\ d <= Len(f.code)
  BY FunctionParts
<1>4. /\ j \in Nat /\ 1 <= j /\ j < d /\ j \in DOMAIN f.code
      /\ f.code[j].kind = "imm" /\ f.code[j].dst = v /\ f.code[j].imm = c
  BY <1>3 DEF SetAt
<1>5. \A k \in j + 1 .. d - 1 : ~Barrier(f.code[k]) /\ f.code[k].dst # v
  <2> SUFFICES ASSUME NEW k \in j + 1 .. d - 1 PROVE ~Barrier(f.code[k]) /\ f.code[k].dst # v
    OBVIOUS
  <2>1. k \in DOMAIN f.code
    BY <1>3, <1>4
  <2>2. ~Barrier(f.code[k]) /\ (f.code[k].kind = "imm" => f.code[k].dst # v)
    BY DEF SetAt
  <2>3. f.code[k].dst = v => f.code[k].kind = "imm"
    BY <1>4, <2>1 DEF ConstantsStand
  <2> QED BY <2>2, <2>3
<1>6. \A i \in DOMAIN f.code : f.code[i].kind = "label" => i \notin j + 1 .. d
  <2> SUFFICES ASSUME NEW i \in DOMAIN f.code, f.code[i].kind = "label", i \in j + 1 .. d PROVE FALSE
    OBVIOUS
  <2>1. i # d
    OBVIOUS
  <2>2. i \in j + 1 .. d - 1
    BY <1>3, <1>4, <2>1
  <2> QED BY <1>5, <2>2 DEF Barrier
<1> HIDE DEF R, x
<1>7. 0 \in Good
  <2>1. R[0].pc = 1
    BY <1>1, StartIsShaped
  <2>2. ~In(R[0])
    BY <1>4, <2>1
  <2> QED BY <2>2, LastStepIsNat
<1>8. ASSUME NEW n \in 0 .. LastStep - 1, n \in Good
      PROVE  n + 1 \in Good
  <2> DEFINE m == R[n]
             s == R[n + 1]
  <2>1. n \in 0 .. LastStep /\ n + 1 \in 0 .. LastStep
    BY LastStepIsNat
  <2>2. Shaped(f, m) /\ s = Go(f, m) /\ (Over(m) \/ (In(m) => m.regs[v] = x))
    BY <1>1, <1>2, <1>8, <2>1
  <2> HIDE DEF m, s
  <2>3. Over(s) \/ (In(s) => s.regs[v] = x)
    <3>1. CASE Over(m)
      BY <2>2, <3>1 DEF Go, Advanced, Over
    <3>2. CASE ~Over(m) /\ m.pc \notin DOMAIN f.code
      <4>1. Parts(s, m.pc, m.regs, m.mem, m.out, "return")
        BY <2>2, <3>2, EndParts
      <4> QED BY <4>1 DEF Parts, Over
    <3>3. CASE ~Over(m) /\ m.pc \in DOMAIN f.code
      <4> DEFINE insn == f.code[m.pc]
      <4>1. s = Step(f, m)
        BY <2>2, <3>3 DEF Go, Advanced, Over
      <4>2. Onward(f, insn, m, s)
        BY <2>2, <3>3, <4>1, StepOnward
      <4> SUFFICES ASSUME ~Over(s), In(s) PROVE s.regs[v] = x
        OBVIOUS
      <4>3. \A l \in Goals(insn) : LabelAt(f.code, l) \notin j + 1 .. d
        <5> SUFFICES ASSUME NEW l \in Goals(insn) PROVE LabelAt(f.code, l) \notin j + 1 .. d
          OBVIOUS
        <5>1. PlacesOf(f.code, l) # {}
          BY <3>3 DEF LabelsPlaced
        <5>2. LabelAt(f.code, l) \in DOMAIN f.code /\ f.code[LabelAt(f.code, l)].kind = "label"
          BY <5>1, LabelIsPlaced DEF PlacesOf
        <5> QED BY <1>6, <5>2
      <4>4. s.pc = m.pc + 1
        BY <4>2, <4>3 DEF Onward
      <4>5. m.pc \in Nat /\ insn.kind \in Kinds /\ insn = f.code[m.pc]
        BY <2>2, <3>3, FunctionParts DEF Shaped
      <4>6. m.pc = j \/ m.pc \in j + 1 .. d - 1
        BY <1>3, <1>4, <4>4, <4>5
      <4>7. v \in RegsOf(f)
        <5>1. v # 0
          BY <1>4, FunctionParts DEF Complete, HasSideEffects
        <5>2. f.code[j] \in Insns(RegsOf(f))
          BY <1>3, <1>4 DEF IsFunction
        <5>3. f.code[j].dst \in {0} \cup RegsOf(f)
          BY <5>2 DEF Insns
        <5> QED BY <1>4, <5>1, <5>3
      <4> HIDE DEF insn, In
      <4>8. CASE m.pc = j
        <5>1. insn.kind = "imm" /\ insn.dst = v /\ insn.imm = c
          BY <1>4, <4>5, <4>8
        <5>2. insn.kind \in Computing /\ ~Traps(f, m, insn) /\ Computed(f, m, insn) = c
          BY <5>1 DEF Computing, Traps, Computed, UnaryOps, BinaryOps, Compares
        <5>3. s = SetReg(f, m, v, c)
          BY <2>2, <4>1, <4>5, <5>1, <5>2, StepParts
        <5>4. s.regs[v] = Wrap(c, f.ty[v])
          BY <2>2, <4>7, <5>3, SetRegParts
        <5> QED BY <5>4 DEF x
      <4>9. CASE m.pc \in j + 1 .. d - 1
        <5>1. ~Barrier(insn) /\ insn.dst # v
          BY <1>5, <4>5, <4>9
        <5>2. In(m)
          BY <1>3, <1>4, <4>5, <4>9 DEF In
        <5>3. m.regs[v] = x
          BY <2>2, <3>3, <5>2
        <5>4. insn.kind = "store" \/ insn.kind \in Computing
          BY <4>5, <5>1 DEF Kinds, Computing, Barrier
        <5>5. CASE insn.kind = "store"
          <6>1. Parts(s, m.pc + 1, m.regs, MemStored(f, m, insn), m.out, m.end)
            BY <2>2, <4>1, <4>5, <5>5, StepParts
          <6> QED BY <5>3, <6>1 DEF Parts
        <5>6. CASE insn.kind \in Computing
          <6>1. ~Traps(f, m, insn)
            <7> SUFFICES ASSUME Traps(f, m, insn) PROVE FALSE
              OBVIOUS
            <7>1. Parts(s, m.pc, m.regs, m.mem, m.out, "undefined")
              BY <2>2, <4>1, <4>5, <5>6, StepParts
            <7> QED BY <7>1 DEF Parts, Over
          <6> DEFINE y == Computed(f, m, insn)
          <6>2. s = SetReg(f, m, insn.dst, y)
            BY <2>2, <4>1, <4>5, <5>6, <6>1, StepParts
          <6> HIDE DEF y
          <6>3. s.regs[v] = IF v = insn.dst THEN Wrap(y, f.ty[insn.dst]) ELSE m.regs[v]
            BY <2>2, <4>7, <6>2, SetRegParts
          <6> QED BY <5>1, <5>3, <6>3
        <5> QED BY <5>4, <5>5, <5>6
      <4> QED BY <4>6, <4>8, <4>9
    <3> QED BY <3>1, <3>2, <3>3
  <2> QED BY <2>1, <2>3 DEF m, s
<1> HIDE DEF Good
<1>9. \A n \in 0 .. LastStep : n \in Good
  BY <1>7, <1>8, LastStepIsNat, Stepwise
<1>10. d \in j + 1 .. d
  BY <1>3, <1>4
<1> QED BY <1>9, <1>10 DEF Good, R, x

(* The way a branch on a known constant goes.                                *)
Taken(insn, c) == IF c # 0 THEN insn.labelTrue ELSE insn.labelFalse

KnownBranch(f, d, j, c) ==
  d \in DOMAIN f.code /\ f.code[d].kind = "br" /\ SetAt(f.code, j, d, f.code[d].src1, c)

LEMMA TakenInRuns ==
  ASSUME NEW f, IsFunction(f), LabelsPlaced(f.code), ConstantsStand(f), NEW d, NEW j, NEW c, KnownBranch(f, d, j, c)
  PROVE  \A memory : \A n \in 0 .. LastStep - 1 :
           ~Over(Trace(f, memory)[n]) /\ Trace(f, memory)[n].pc = d =>
             Target(Trace(f, memory)[n], f.code[d]) = Taken(f.code[d], c)
<1> SUFFICES ASSUME NEW memory, NEW n \in 0 .. LastStep - 1, ~Over(Trace(f, memory)[n]), Trace(f, memory)[n].pc = d
             PROVE  Target(Trace(f, memory)[n], f.code[d]) = Taken(f.code[d], c)
  OBVIOUS
<1>0. /\ n \in 0 .. LastStep
      /\ d \in DOMAIN f.code /\ f.code[d].kind = "br" /\ SetAt(f.code, j, d, f.code[d].src1, c)
  BY LastStepIsNat DEF KnownBranch
<1> DEFINE m == Trace(f, memory)[n]
           insn == f.code[d]
           v == insn.src1
<1>1. m.regs[v] = Wrap(c, f.ty[v])
  <2>1. ~(insn.kind = "label") /\ SetAt(f.code, j, d, v, c) /\ ~Over(m) /\ m.pc = d
    BY <1>0
  <2>2. \A k \in 0 .. LastStep :
          ~Over(Trace(f, memory)[k]) /\ Trace(f, memory)[k].pc = d => Trace(f, memory)[k].regs[v] = Wrap(c, f.ty[v])
    <3> DEFINE w == v
    <3>1. SetAt(f.code, j, d, w, c) /\ d \in DOMAIN f.code
      BY <1>0
    <3> HIDE DEF w
    <3>2. \A k \in 0 .. LastStep :
            ~Over(Trace(f, memory)[k]) /\ Trace(f, memory)[k].pc = d => Trace(f, memory)[k].regs[w] = Wrap(c, f.ty[w])
      BY <2>1, <3>1, RunsHold
    <3> QED BY <3>2 DEF w
  <2> QED BY <1>0, <2>1, <2>2
<1>2. d \in Nat /\ DOMAIN f.code = 1 .. Len(f.code) /\ Len(f.code) \in Nat
  BY <1>0, FunctionParts
<1>3. j \in DOMAIN f.code /\ f.code[j].kind = "imm" /\ f.code[j].dst = v /\ f.code[j].imm = c
  BY <1>0, <1>2 DEF SetAt
<1>4. c = 0 <=> Wrap(c, f.ty[v]) = 0
  BY <1>3 DEF ConstantsStand
<1>5. insn.kind = "br"
  BY <1>0
<1> HIDE DEF m, insn
<1> QED BY <1>1, <1>4, <1>5 DEF Target, Taken, m, insn

(* Removing one instruction, by place.                                       *)
LEMMA PlaceStays ==
  ASSUME NEW X, NEW code \in Seq(X), NEW S, NEW i \in 1 .. Len(code), i \notin S
  PROVE  Place(code, S, i + 1) = Place(code, S, i)
<1> DEFINE K == Kept(code, S)
           N == Len(code)
<1>1. \A k \in 1 .. N : K[k] = IF k \in S THEN Append(K[k - 1], code[k]) ELSE K[k - 1]
  BY KeptByStep
<1>2. N \in Nat /\ i \in 1 .. N
  OBVIOUS
<1> HIDE DEF N
<1>3. K[i] = K[i - 1] /\ i + 1 - 1 = i
  BY <1>1, <1>2
<1>4. Place(code, S, i) = Len(K[i - 1]) + 1 /\ Place(code, S, i + 1) = Len(K[i]) + 1
  BY <1>3 DEF Place, K
<1> QED BY <1>3, <1>4

AllBut(code, d) == DOMAIN code \ {d}

LEMMA RemovedIs ==
  ASSUME NEW X, NEW code \in Seq(X), NEW d \in DOMAIN code
  PROVE  /\ Without(code, d) \in Seq(X)
         /\ Len(Without(code, d)) = Len(code) - 1
         /\ \A i \in 1 .. d - 1 : Without(code, d)[i] = code[i]
         /\ Only(code, AllBut(code, d)) = Without(code, d)
<1> DEFINE N == Len(code)
           S == AllBut(code, d)
           O == Only(code, S)
           W == Without(code, d)
           P == [i \in 1 .. N + 1 |-> Place(code, S, i)]
<1>1. N \in Nat /\ DOMAIN code = 1 .. N /\ d \in Nat /\ 1 <= d /\ d <= N
  OBVIOUS
<1>2. /\ W \in Seq(X) /\ Len(W) = N - 1
      /\ \A i \in 1 .. N - 1 : W[i] = IF i < d THEN code[i] ELSE code[i + 1]
  <2>1. W = SubSeq(code, 1, d - 1) \o SubSeq(code, d + 1, N)
    BY DEF Without, RemoveAt
  <2>2. SubSeq(code, 1, d - 1) \in Seq(X) /\ Len(SubSeq(code, 1, d - 1)) = d - 1
        /\ \A i \in 1 .. d - 1 : SubSeq(code, 1, d - 1)[i] = code[i]
    BY <1>1
  <2>3. SubSeq(code, d + 1, N) \in Seq(X) /\ Len(SubSeq(code, d + 1, N)) = N - d
        /\ \A i \in 1 .. N - d : SubSeq(code, d + 1, N)[i] = code[d + i]
    BY <1>1
  <2> DEFINE a == SubSeq(code, 1, d - 1)
             b == SubSeq(code, d + 1, N)
  <2> HIDE DEF a, b, W, N
  <2>4. /\ W = a \o b /\ a \in Seq(X) /\ b \in Seq(X) /\ Len(a) = d - 1 /\ Len(b) = N - d
        /\ \A i \in 1 .. d - 1 : a[i] = code[i]
        /\ \A i \in 1 .. N - d : b[i] = code[d + i]
    BY <2>1, <2>2, <2>3 DEF a, b
  <2>5. W \in Seq(X) /\ Len(W) = Len(a) + Len(b)
        /\ \A i \in 1 .. Len(a) + Len(b) : W[i] = IF i <= Len(a) THEN a[i] ELSE b[i - Len(a)]
    BY <2>4
  <2>6. ASSUME NEW i \in 1 .. N - 1
        PROVE  W[i] = IF i < d THEN code[i] ELSE code[i + 1]
    <3>1. W[i] = IF i <= d - 1 THEN a[i] ELSE b[i - (d - 1)]
      BY <1>1, <2>4, <2>5
    <3>2. CASE i < d
      BY <1>1, <2>4, <3>1, <3>2
    <3>3. CASE ~(i < d)
      <4>1. i - (d - 1) \in 1 .. N - d /\ d + (i - (d - 1)) = i + 1 /\ ~(i <= d - 1)
        BY <1>1, <3>3
      <4>2. b[i - (d - 1)] = code[d + (i - (d - 1))]
        BY <2>4, <4>1
      <4> QED BY <3>1, <3>3, <4>1, <4>2
    <3> QED BY <3>2, <3>3
  <2> QED BY <1>1, <2>4, <2>5, <2>6
<1>3. /\ O \in Seq(X) /\ Place(code, S, 1) = 1 /\ Place(code, S, N + 1) = Len(O) + 1
      /\ \A i \in 1 .. N : IF i \in S
                           THEN /\ O[Place(code, S, i)] = code[i]
                                /\ Place(code, S, i + 1) = Place(code, S, i) + 1
                           ELSE Place(code, S, i + 1) = Place(code, S, i)
  <2> HIDE DEF N, O, W, P
  <2>1. /\ Only(code, S) \in Seq(X) /\ Place(code, S, 1) = 1
        /\ Place(code, S, Len(code) + 1) = Len(Only(code, S)) + 1
    BY Places
  <2>2. ASSUME NEW i \in 1 .. Len(code)
        PROVE  IF i \in S
               THEN O[Place(code, S, i)] = code[i] /\ Place(code, S, i + 1) = Place(code, S, i) + 1
               ELSE Place(code, S, i + 1) = Place(code, S, i)
    <3> HIDE DEF S
    <3>1. CASE i \in S
      BY <3>1, Places DEF O
    <3>2. CASE i \notin S
      BY <3>2, PlaceStays
    <3> QED BY <3>1, <3>2
  <2> QED BY <2>1, <2>2 DEF N, O
<1> HIDE DEF N, O, W
<1>4. /\ P[1] = 1 /\ P[N + 1] = Len(O) + 1
      /\ \A i \in 1 .. N : IF i = d THEN P[i + 1] = P[i] ELSE O[P[i]] = code[i] /\ P[i + 1] = P[i] + 1
  <2>1. \A i \in 1 .. N + 1 : P[i] = Place(code, S, i)
    OBVIOUS
  <2>2. 1 \in 1 .. N + 1 /\ N + 1 \in 1 .. N + 1 /\ \A i \in 1 .. N : i \in 1 .. N + 1 /\ i + 1 \in 1 .. N + 1
    BY <1>1
  <2>3. \A i \in 1 .. N : i \in S <=> i # d
    BY <1>1 DEF AllBut
  <2> HIDE DEF P
  <2> QED BY <1>3, <2>1, <2>2, <2>3
<1> HIDE DEF P
<1>5. \A i \in 0 .. N : P[i + 1] = IF i + 1 <= d THEN i + 1 ELSE i
  <2> DEFINE Good == {i \in 0 .. N : P[i + 1] = IF i + 1 <= d THEN i + 1 ELSE i}
  <2>1. 0 \in Good
    BY <1>1, <1>4
  <2>2. ASSUME NEW i \in 0 .. N - 1, i \in Good
        PROVE  i + 1 \in Good
    <3> DEFINE k == i + 1
    <3>1. k \in 1 .. N /\ k \in 0 .. N /\ k \in Nat /\ i = k - 1
      BY <1>1
    <3>2. P[k] = IF k <= d THEN k ELSE k - 1
      BY <2>2, <3>1
    <3> HIDE DEF k
    <3>3. IF k = d THEN P[k + 1] = P[k] ELSE P[k + 1] = P[k] + 1
      BY <1>4, <3>1
    <3>4. P[k + 1] = IF k + 1 <= d THEN k + 1 ELSE k
      BY <1>1, <3>1, <3>2, <3>3
    <3> QED BY <3>1, <3>4 DEF k
  <2> HIDE DEF Good
  <2>3. \A i \in 0 .. N : i \in Good
    BY <1>1, <2>1, <2>2, Stepwise
  <2> QED BY <2>3 DEF Good
<1>6. Len(O) = N - 1
  <2>1. N \in 0 .. N /\ ~(N + 1 <= d) /\ Len(O) \in Nat
    BY <1>1, <1>3
  <2>2. P[N + 1] = N
    BY <1>5, <2>1
  <2> QED BY <1>1, <1>4, <2>1, <2>2
<1>7. ASSUME NEW q \in 1 .. N - 1
      PROVE  O[q] = W[q]
  <2>1. CASE q < d
    <3>1. q - 1 \in 0 .. N /\ q - 1 + 1 = q /\ q \in 1 .. N /\ q # d /\ q <= d
      BY <1>1, <2>1
    <3>2. P[q] = q
      BY <1>5, <3>1
    <3>3. O[P[q]] = code[q]
      BY <1>4, <3>1
    <3> QED BY <1>2, <2>1, <3>2, <3>3
  <2>2. CASE ~(q < d)
    <3>1. q \in 0 .. N /\ q + 1 \in 1 .. N /\ q + 1 # d /\ ~(q + 1 <= d)
      BY <1>1, <2>2
    <3>2. P[q + 1] = q
      BY <1>5, <3>1
    <3>3. O[P[q + 1]] = code[q + 1]
      BY <1>4, <3>1
    <3> QED BY <1>2, <2>2, <3>2, <3>3
  <2> QED BY <2>1, <2>2
<1>8. O = W
  <2>1. O = [q \in 1 .. N - 1 |-> O[q]]
    BY <1>3, <1>6
  <2>2. W = [q \in 1 .. N - 1 |-> W[q]]
    BY <1>2
  <2> QED BY <1>7, <2>1, <2>2
<1>9. \A i \in 1 .. d - 1 : W[i] = code[i]
  BY <1>1, <1>2
<1> QED BY <1>2, <1>8, <1>9 DEF O, W, N

(* The loop: what is known where it stands.                                  *)
Known(code, d, const) ==
  \A v \in DOMAIN const : const[v] = {} \/ \E c, j : const[v] = {c} /\ SetAt(code, j, d, v, c)

FoldedSoFar(f, s) ==
  /\ Keeps(f, WithCode(f, s.code)) /\ WithCode(f, s.code).code = s.code
  /\ s.at \in 1 .. Len(s.code) + 1
  /\ DOMAIN s.const = RegsOf(f)
  /\ Known(s.code, s.at, s.const)

(* One step down the list. *)
LEMMA KnownOnward ==
  ASSUME NEW code, NEW d \in Nat, 1 <= d, NEW const, Known(code, d, const),
         code[d].kind = "imm" => code[d].dst \in DOMAIN const
  PROVE  Known(code, d + 1, Noted(code[d], const)) /\ DOMAIN Noted(code[d], const) = DOMAIN const
<1> DEFINE after == Noted(code[d], const)
<1>1. DOMAIN after = DOMAIN const
  BY DEF Noted
<1>2. ASSUME NEW v \in DOMAIN const, after[v] # {}
      PROVE  \E c, j : after[v] = {c} /\ SetAt(code, j, d + 1, v, c)
  <2>1. ~Barrier(code[d])
    BY <1>2 DEF Noted
  <2>2. CASE code[d].kind = "imm" /\ code[d].dst = v
    <3> DEFINE c == code[d].imm
    <3>1. after[v] = {c}
      BY <2>1, <2>2 DEF Noted
    <3>2. d \in 1 .. d + 1 - 1 /\ \A k : k \notin d + 1 .. d + 1 - 1
      OBVIOUS
    <3>3. SetAt(code, d, d + 1, v, c)
      BY <2>2, <3>2 DEF SetAt
    <3> QED BY <3>1, <3>3
  <2>3. CASE ~(code[d].kind = "imm" /\ code[d].dst = v)
    <3>1. after[v] = const[v]
      BY <2>1, <2>3 DEF Noted
    <3>2. PICK c, j : const[v] = {c} /\ SetAt(code, j, d, v, c)
      BY <1>2, <3>1 DEF Known
    <3>3. j \in 1 .. d - 1 /\ code[j].kind = "imm" /\ code[j].dst = v /\ code[j].imm = c
          /\ \A k \in j + 1 .. d - 1 : ~Barrier(code[k]) /\ (code[k].kind = "imm" => code[k].dst # v)
      BY <3>2 DEF SetAt
    <3>4. j \in 1 .. d + 1 - 1 /\ \A k \in j + 1 .. d + 1 - 1 : k = d \/ k \in j + 1 .. d - 1
      BY <3>3
    <3>5. SetAt(code, j, d + 1, v, c)
      BY <2>1, <2>3, <3>3, <3>4 DEF SetAt
    <3> QED BY <3>1, <3>2, <3>5
  <2> QED BY <2>2, <2>3
<1> QED BY <1>1, <1>2 DEF Known

(* Only what is above counts. *)
LEMMA KnownAbove ==
  ASSUME NEW code, NEW new, NEW d \in Nat, NEW const, Known(code, d, const),
         \A i \in 1 .. d - 1 : new[i] = code[i]
  PROVE  Known(new, d, const)
<1> SUFFICES ASSUME NEW v \in DOMAIN const, const[v] # {}
             PROVE  \E c, j : const[v] = {c} /\ SetAt(new, j, d, v, c)
  BY DEF Known
<1>1. PICK c, j : const[v] = {c} /\ SetAt(code, j, d, v, c)
  BY DEF Known
<1>2. j \in 1 .. d - 1 /\ code[j].kind = "imm" /\ code[j].dst = v /\ code[j].imm = c
      /\ \A k \in j + 1 .. d - 1 : ~Barrier(code[k]) /\ (code[k].kind = "imm" => code[k].dst # v)
  BY <1>1 DEF SetAt
<1>3. \A k \in j + 1 .. d - 1 : k \in 1 .. d - 1
  BY <1>2
<1>4. SetAt(new, j, d, v, c)
  BY <1>2, <1>3 DEF SetAt
<1> QED BY <1>1, <1>4

(* The instruction just above the cursor adds nothing new. *)
LEMMA KnownAgain ==
  ASSUME NEW code, NEW d \in Nat, NEW const, Known(code, d, const), d # 1,
         NEW w, w \in DOMAIN const, const[w] # {}, code[d - 1].kind = "imm" => code[d - 1].dst \in DOMAIN const
  PROVE  Known(code, d, Noted(code[d - 1], const)) /\ DOMAIN Noted(code[d - 1], const) = DOMAIN const
<1> DEFINE insn == code[d - 1]
           after == Noted(insn, const)
<1>1. DOMAIN after = DOMAIN const
  BY DEF Noted
<1>2. ASSUME NEW v \in DOMAIN const, after[v] # {}
      PROVE  \E c, j : after[v] = {c} /\ SetAt(code, j, d, v, c)
  <2>1. ~Barrier(insn)
    BY <1>2 DEF Noted
  <2>2. CASE insn.kind = "imm" /\ insn.dst = v
    <3> DEFINE c == insn.imm
    <3>1. after[v] = {c}
      BY <2>1, <2>2 DEF Noted
    <3>2. PICK c2, j2 : SetAt(code, j2, d, w, c2)
      BY DEF Known
    <3>3. j2 \in 1 .. d - 1
      BY <3>2 DEF SetAt
    <3>4. d - 1 \in 1 .. d - 1 /\ \A k : k \notin d - 1 + 1 .. d - 1
      BY <3>3
    <3>5. SetAt(code, d - 1, d, v, c)
      BY <2>2, <3>4 DEF SetAt
    <3> QED BY <3>1, <3>5
  <2>3. CASE ~(insn.kind = "imm" /\ insn.dst = v)
    <3>1. after[v] = const[v]
      BY <2>1, <2>3 DEF Noted
    <3> QED BY <1>2, <3>1 DEF Known
  <2> QED BY <2>2, <2>3
<1> QED BY <1>1, <1>2 DEF Known

LEMMA JumpIsWhole ==
  ASSUME NEW regs, NEW insn \in Whole(regs), insn.kind = "br", NEW l \in {insn.labelTrue, insn.labelFalse}, l # None
  PROVE  /\ JumpTo(insn, l) \in Whole(regs)
         /\ JumpTo(insn, l).kind = "jmp" /\ JumpTo(insn, l).label = l
         /\ Replaces(insn, JumpTo(insn, l))
<1> DEFINE jump == JumpTo(insn, l)
<1>1. insn \in Insns(regs)
  BY DEF Whole
<1>2. jump \in Insns(regs)
  BY <1>1 DEF JumpTo, Insns, Kinds
<1>3. jump.kind = "jmp" /\ jump.label = l /\ jump.dst = insn.dst
  BY <1>1 DEF JumpTo, Insns
<1> HIDE DEF jump
<1>4. Complete(jump)
  BY <1>3 DEF Complete, HasSideEffects, UnaryOps, BinaryOps, Compares
<1>5. Replaces(insn, jump)
  BY <1>3 DEF Replaces, Goals
<1> QED BY <1>2, <1>3, <1>4, <1>5 DEF Whole, jump

(* A branch that is known to go somewhere becomes a jump there. *)
LEMMA KnownJumpKeeps ==
  ASSUME NEW f, IsFunction(f), LabelsPlaced(f.code), ConstantsStand(f),
         NEW d, NEW j, NEW c, KnownBranch(f, d, j, c), Taken(f.code[d], c) # None
  PROVE  LET new == [f.code EXCEPT ![d] = JumpTo(f.code[d], Taken(f.code[d], c))]
         IN Keeps(f, WithCode(f, new)) /\ WithCode(f, new).code = new /\ Len(new) = Len(f.code)
<1> DEFINE insn == f.code[d]
           l == Taken(insn, c)
           jump == JumpTo(insn, l)
           new == [f.code EXCEPT ![d] = jump]
           W == Whole(RegsOf(f))
<1>1. f.code \in Seq(W) /\ Len(f.code) \in Nat /\ DOMAIN f.code = 1 .. Len(f.code)
  BY FunctionParts
<1>2. insn \in W /\ insn.kind = "br" /\ l \in {insn.labelTrue, insn.labelFalse} /\ l # None
      /\ d \in DOMAIN f.code
  BY <1>1 DEF Taken, KnownBranch
<1>3. jump \in W /\ jump.kind = "jmp" /\ jump.label = l /\ Replaces(insn, jump)
  <2> DEFINE i == insn
             t == l
  <2>1. i \in W /\ i.kind = "br" /\ t \in {i.labelTrue, i.labelFalse} /\ t # None
    BY <1>2
  <2> HIDE DEF i, t, W
  <2>2. JumpTo(i, t) \in W /\ JumpTo(i, t).kind = "jmp" /\ JumpTo(i, t).label = t /\ Replaces(i, JumpTo(i, t))
    BY <2>1, JumpIsWhole DEF W
  <2> QED BY <2>2 DEF i, t
<1>4. ASSUME NEW memory, NEW n \in 0 .. LastStep - 1, ~Over(Trace(f, memory)[n]), Trace(f, memory)[n].pc = d
      PROVE  Dest(f, Trace(f, memory)[n], jump) = Dest(f, Trace(f, memory)[n], insn)
  <2>2. Target(Trace(f, memory)[n], f.code[d]) = Taken(f.code[d], c)
    BY <1>4, TakenInRuns
  <2>3. Target(Trace(f, memory)[n], jump) = l
    BY <1>3 DEF Target
  <2> QED BY <2>2, <2>3 DEF Dest
<1> HIDE DEF jump, W
<1>5. new \in Seq(W) /\ DOMAIN new = DOMAIN f.code /\ Len(new) = Len(f.code)
      /\ \A i \in DOMAIN f.code : new[i] = IF i = d THEN jump ELSE f.code[i]
  BY <1>1, <1>2, <1>3
<1>6. SameWayInRuns(f, d, f.code[d], new[d])
  BY <1>2, <1>3, <1>4, <1>5 DEF SameWayInRuns
<1> HIDE DEF new
<1>7. \A i \in DOMAIN f.code : new[i] = f.code[i] \/ SameWayInRuns(f, i, f.code[i], new[i])
  BY <1>5, <1>6
<1>8. Keeps(f, WithCode(f, new)) /\ WithCode(f, new).code = new
  BY <1>5, <1>7, RewritingKeeps DEF W
<1> QED BY <1>5, <1>8 DEF new, jump

(* One that is known to go on goes away. *)
LEMMA KnownFallKeeps ==
  ASSUME NEW f, IsFunction(f), LabelsPlaced(f.code), ConstantsStand(f),
         NEW d, NEW j, NEW c, KnownBranch(f, d, j, c), Taken(f.code[d], c) = None
  PROVE  Keeps(f, WithCode(f, Without(f.code, d))) /\ WithCode(f, Without(f.code, d)).code = Without(f.code, d)
<1> DEFINE S == DOMAIN f.code \ {d}
           V == RegsOf(f)
           W == Whole(V)
<1>0. d \in DOMAIN f.code /\ f.code[d].kind = "br"
  BY DEF KnownBranch
<1>1. f.code \in Seq(W)
  BY FunctionParts
<1>2. \A i \in DOMAIN f.code : f.code[i].kind = "label" => i \in S
  BY <1>0
<1>3. \A i \in DOMAIN f.code : i \in S => Reads(f.code[i], V)
  BY FunctionParts
<1>4. ASSUME NEW memory, NEW n \in 0 .. LastStep - 1, ~Over(Trace(f, memory)[n]),
             Trace(f, memory)[n].pc \in DOMAIN f.code \ S
      PROVE  Skips(f, V, Trace(f, memory)[n], Trace(f, memory)[n + 1])
  <2> DEFINE m == Trace(f, memory)[n]
             s == Trace(f, memory)[n + 1]
             insn == f.code[d]
  <2>1. n \in 0 .. LastStep
    BY LastStepIsNat
  <2>2. Shaped(f, m) /\ s = Go(f, m)
    BY <2>1, RunIsShaped, TraceByStep
  <2>3. s = Step(f, m)
    BY <1>4, <2>2 DEF Go, Advanced, Over
  <2>4. m.pc = d /\ insn.kind = "br" /\ insn = f.code[m.pc]
    BY <1>0, <1>4
  <2>5. Target(m, insn) = None
    <3>1. Target(m, insn) = Taken(insn, c)
      BY <1>4, <2>4, TakenInRuns
    <3> QED BY <3>1
  <2> HIDE DEF m, s, insn, V
  <2>6. Dest(f, m, insn) = m.pc + 1
    BY <2>5 DEF Dest
  <2>7. Parts(s, m.pc + 1, m.regs, m.mem, m.out, m.end)
    BY <2>2, <2>3, <2>4, <2>6, StepParts
  <2>8. Parts(m, m.pc, m.regs, m.mem, m.out, m.end) /\ Agrees(f, V, m, m)
    BY <2>2 DEF Parts, Shaped, Agrees
  <2>9. m.pc \in Nat /\ m.pc + 1 \in Nat
    BY <2>2 DEF Shaped
  <2>10. Agrees(f, V, m, s)
    BY <2>7, <2>8, <2>9, AgreesByParts
  <2> QED BY <2>7, <2>10 DEF Skips, Parts, m, s
<1>5. V \in SUBSET RegsOf(f)
  OBVIOUS
<1>6. Only(f.code, S) = Without(f.code, d)
  BY <1>0, <1>1, RemovedIs DEF AllBut
<1> HIDE DEF S, V
<1>7. Keeps(f, WithCode(f, Only(f.code, S))) /\ WithCode(f, Only(f.code, S)).code = Only(f.code, S)
  BY <1>2, <1>3, <1>4, <1>5, DeletingKeeps
<1> QED BY <1>6, <1>7

(* One turn of the loop. *)
LEMMA FoldedTurn ==
  ASSUME NEW f, IsFunction(f), LabelsPlaced(f.code), ConstantsStand(f), NEW s, FoldedSoFar(f, s)
  PROVE  FoldedSoFar(f, FoldNext(s))
<1> DEFINE g == WithCode(f, s.code)
           insn == s.code[s.at]
           known == s.const[insn.src1]
           target == IF known # {0} THEN insn.labelTrue ELSE insn.labelFalse
           unknown == [v \in DOMAIN s.const |-> {}]
           next == FoldNext(s)
<1>1. /\ Keeps(f, g) /\ g.code = s.code
      /\ s.at \in 1 .. Len(s.code) + 1
      /\ DOMAIN s.const = RegsOf(f)
      /\ Known(s.code, s.at, s.const)
  BY DEF FoldedSoFar
<1>2. IsFunction(g) /\ LabelsPlaced(g.code) /\ ConstantsStand(g)
  BY <1>1 DEF Keeps
<1>3. RegsOf(g) = RegsOf(f) /\ \A code : WithCode(g, code) = WithCode(f, code)
  <2>1. DOMAIN f = {"ty", "code"}
    BY DEF IsFunction
  <2>2. g.ty = f.ty
    BY <2>1 DEF WithCode
  <2>3. \A code : WithCode(g, code) = WithCode(f, code)
    BY WithCodeTwice
  <2> QED BY <2>2, <2>3 DEF RegsOf
<1> HIDE DEF g
<1>4. /\ s.code \in Seq(Whole(RegsOf(f))) /\ Len(s.code) \in Nat /\ DOMAIN s.code = 1 .. Len(s.code)
      /\ \A i \in DOMAIN s.code : /\ s.code[i].kind = "imm" => s.code[i].dst \in RegsOf(f)
                                  /\ s.code[i].kind = "br" => s.code[i].src1 \in RegsOf(f)
  <2>1. g.code \in Seq(Whole(RegsOf(g))) /\ Len(g.code) \in Nat /\ DOMAIN g.code = 1 .. Len(g.code)
    BY <1>2, FunctionParts
  <2>2. s.code \in Seq(Whole(RegsOf(f))) /\ Len(s.code) \in Nat /\ DOMAIN s.code = 1 .. Len(s.code)
    BY <1>1, <1>3, <2>1
  <2>3. ASSUME NEW i \in DOMAIN s.code
        PROVE  /\ s.code[i].kind = "imm" => s.code[i].dst \in RegsOf(f)
               /\ s.code[i].kind = "br" => s.code[i].src1 \in RegsOf(f)
    <3> DEFINE x == s.code[i]
    <3>1. x \in Whole(RegsOf(f))
      BY <2>2
    <3> HIDE DEF x
    <3>2. Complete(x) /\ x.dst \in {0} \cup RegsOf(f) /\ x.src1 \in {0} \cup RegsOf(f)
      BY <3>1 DEF Whole, Insns
    <3>3. x.kind = "imm" => x.dst # 0
      BY <3>2 DEF Complete, HasSideEffects
    <3>4. x.kind = "br" => x.src1 # 0
      BY <3>2 DEF Complete
    <3> QED BY <3>2, <3>3, <3>4 DEF x
  <2> QED BY <2>2, <2>3
<1>5. CASE s.at > Len(s.code)
  <2>1. next = s
    BY <1>5 DEF FoldNext
  <2> QED BY <2>1
<1>6. CASE s.at \in DOMAIN s.code /\ ~(insn.kind = "br" /\ known # {})
  <2> DEFINE const == Noted(insn, s.const)
  <2>1. next = [at |-> s.at + 1, const |-> const, code |-> s.code]
    BY <1>4, <1>6 DEF FoldNext
  <2>2. s.at \in Nat /\ 1 <= s.at /\ s.at + 1 \in 1 .. Len(s.code) + 1
    BY <1>4, <1>6
  <2>3. insn.kind = "imm" => insn.dst \in DOMAIN s.const
    BY <1>1, <1>4, <1>6
  <2>4. Known(s.code, s.at + 1, const) /\ DOMAIN const = DOMAIN s.const
    BY <1>1, <2>2, <2>3, KnownOnward
  <2> HIDE DEF const, next
  <2>5. next.at = s.at + 1 /\ next.const = const /\ next.code = s.code
    BY <2>1
  <2> QED BY <1>1, <2>2, <2>4, <2>5 DEF FoldedSoFar, g, next
<1>7. CASE s.at \in DOMAIN s.code /\ insn.kind = "br" /\ known # {}
  <2>1. insn.src1 \in DOMAIN s.const /\ s.at \in Nat /\ 1 <= s.at /\ s.at <= Len(s.code)
    BY <1>1, <1>4, <1>7
  <2>2. PICK c, j : known = {c} /\ SetAt(s.code, j, s.at, insn.src1, c)
    BY <1>1, <1>7, <2>1 DEF Known
  <2>3. target = Taken(insn, c)
    BY <2>2 DEF Taken
  <2>4. KnownBranch(g, s.at, j, c)
    BY <1>1, <1>7, <2>2 DEF KnownBranch
  <2>5. s.at # 1
    <3>1. j \in 1 .. s.at - 1
      BY <2>2 DEF SetAt
    <3> QED BY <3>1
  <2>6. Known(s.code, s.at, s.const) /\ DOMAIN s.const = RegsOf(f)
    BY <1>1
  <2>7. CASE target # None
    <3> DEFINE code == [s.code EXCEPT ![s.at] = JumpTo(insn, target)]
    <3>1. next = [at |-> s.at + 1, const |-> unknown, code |-> code]
      BY <1>4, <1>7, <2>1, <2>7 DEF FoldNext
    <3>2. code = [g.code EXCEPT ![s.at] = JumpTo(g.code[s.at], Taken(g.code[s.at], c))]
      BY <1>1, <2>3
    <3>3. Taken(g.code[s.at], c) # None
      BY <1>1, <2>3, <2>7
    <3> HIDE DEF code, next, target, unknown
    <3>4. Keeps(g, WithCode(g, code)) /\ WithCode(g, code).code = code /\ Len(code) = Len(g.code)
      BY <1>2, <2>4, <3>2, <3>3, KnownJumpKeeps
    <3>5. Keeps(f, WithCode(f, code)) /\ WithCode(f, code).code = code /\ Len(code) = Len(s.code)
      BY <1>1, <1>3, <3>4, KeepsOn
    <3>6. next.at = s.at + 1 /\ next.const = unknown /\ next.code = code
      BY <3>1
    <3>7. DOMAIN unknown = RegsOf(f) /\ Known(code, s.at + 1, unknown)
      BY <2>6 DEF unknown, Known
    <3>8. s.at + 1 \in 1 .. Len(code) + 1
      BY <1>4, <2>1, <3>5
    <3> QED BY <3>5, <3>6, <3>7, <3>8 DEF FoldedSoFar, next
  <2>8. CASE target = None
    <3> DEFINE code == Without(s.code, s.at)
               const == Noted(s.code[s.at - 1], s.const)
    <3>1. next = [at |-> s.at, const |-> const, code |-> code]
      BY <1>4, <1>7, <2>1, <2>5, <2>8 DEF FoldNext
    <3>2. Taken(g.code[s.at], c) = None
      BY <1>1, <2>3, <2>8
    <3>3. Keeps(g, WithCode(g, Without(g.code, s.at)))
          /\ WithCode(g, Without(g.code, s.at)).code = Without(g.code, s.at)
      <4> HIDE DEF code, const, next, target, unknown, insn, known
      <4> QED BY <1>2, <2>4, <3>2, KnownFallKeeps
    <3>4. Keeps(f, WithCode(f, code)) /\ WithCode(f, code).code = code
      <4> HIDE DEF next, target, unknown, insn, known, const
      <4> QED BY <1>1, <1>3, <3>3, KeepsOn
    <3>5. Len(code) = Len(s.code) - 1 /\ \A i \in 1 .. s.at - 1 : code[i] = s.code[i]
      <4> HIDE DEF next, target, unknown, insn, known, const
      <4> QED BY <1>4, <1>7, RemovedIs
    <3>6. s.at - 1 \in DOMAIN s.code /\ s.at \in 1 .. Len(code) + 1
      BY <1>4, <2>1, <2>5, <3>5
    <3>7. Known(s.code, s.at, const) /\ DOMAIN const = RegsOf(f)
      <4>1. s.code[s.at - 1].kind = "imm" => s.code[s.at - 1].dst \in DOMAIN s.const
        BY <1>1, <1>4, <3>6
      <4>2. s.const[insn.src1] # {}
        BY <1>7
      <4> HIDE DEF code, next, target, unknown, insn, known
      <4> QED BY <2>1, <2>5, <2>6, <4>1, <4>2, KnownAgain
    <3> HIDE DEF code, const, next, target, unknown, insn, known
    <3>8. Known(code, s.at, const)
      BY <2>1, <3>5, <3>7, KnownAbove
    <3>9. next.at = s.at /\ next.const = const /\ next.code = code
      BY <3>1
    <3> QED BY <3>4, <3>6, <3>7, <3>8, <3>9 DEF FoldedSoFar, next
  <2> QED BY <2>7, <2>8
<1>8. s.at > Len(s.code) \/ s.at \in DOMAIN s.code
  BY <1>1, <1>4
<1> HIDE DEF insn, known, next
<1> QED BY <1>5, <1>6, <1>7, <1>8

(* Turn after turn. *)
FoldStep(start, T, k) == IF k = 0 THEN start ELSE FoldNext(T[k - 1])
IsFolds(start, T, N) == T = [k \in 0 .. N |-> FoldStep(start, T, k)]

LEMMA FoldStepLocal ==
  ASSUME NEW start, NEW T, NEW U, NEW k, k = 0 \/ T[k - 1] = U[k - 1]
  PROVE  FoldStep(start, T, k) = FoldStep(start, U, k)
BY DEF FoldStep

LEMMA FoldsExist ==
  ASSUME NEW start, NEW M \in Nat
  PROVE  \A N \in 0 .. M : \E T : IsFolds(start, T, N)
<1> DEFINE Good == {N \in 0 .. M : \E T : IsFolds(start, T, N)}
<1>1. 0 \in Good
  <2> DEFINE T == [k \in 0 .. 0 |-> FoldStep(start, <<>>, k)]
  <2>1. \A k \in 0 .. 0 : FoldStep(start, T, k) = FoldStep(start, <<>>, k)
    BY FoldStepLocal
  <2>2. IsFolds(start, T, 0)
    BY <2>1 DEF IsFolds
  <2> HIDE DEF T
  <2> QED BY <2>2
<1>2. ASSUME NEW n \in 0 .. M - 1, n \in Good
      PROVE  n + 1 \in Good
  <2>1. PICK T : IsFolds(start, T, n)
    BY <1>2
  <2> DEFINE U == [k \in 0 .. n + 1 |-> FoldStep(start, T, k)]
  <2>2. T = [k \in 0 .. n |-> FoldStep(start, T, k)]
    BY <2>1 DEF IsFolds
  <2>3. n \in Nat /\ n + 1 \in 0 .. M
    OBVIOUS
  <2>4. \A k \in 0 .. n : U[k] = T[k]
    BY <2>2, <2>3
  <2>5. \A k \in 0 .. n + 1 : FoldStep(start, U, k) = FoldStep(start, T, k)
    <3> SUFFICES ASSUME NEW k \in 0 .. n + 1
                 PROVE  FoldStep(start, U, k) = FoldStep(start, T, k)
      OBVIOUS
    <3>1. k = 0 \/ k - 1 \in 0 .. n
      BY <2>3
    <3> HIDE DEF U
    <3> QED BY <2>4, <3>1, FoldStepLocal
  <2>6. U = [k \in 0 .. n + 1 |-> FoldStep(start, U, k)]
    BY <2>5
  <2> HIDE DEF U
  <2>7. IsFolds(start, U, n + 1)
    BY <2>6 DEF IsFolds
  <2> QED BY <2>3, <2>7
<1> HIDE DEF Good
<1>3. \A N \in 0 .. M : N \in Good
  BY <1>1, <1>2, Stepwise
<1> QED BY <1>3 DEF Good

LEMMA FoldKeeps ==
  ASSUME NEW f, IsFunction(f), LabelsPlaced(f.code), ConstantsStand(f)
  PROVE  Keeps(f, WithCode(f, FoldBranches(f))) /\ WithCode(f, FoldBranches(f)).code = FoldBranches(f)
<1> DEFINE N == Len(f.code)
           start == [at |-> 1, const |-> NothingKnown(f), code |-> f.code]
           t == CHOOSE T : IsFolds(start, T, N)
           Good == {k \in 0 .. N : FoldedSoFar(f, t[k])}
<1>1. N \in Nat /\ N \in 0 .. N
  BY FunctionParts
<1>2. FoldBranches(f) = t[N].code
  BY DEF FoldBranches, Times, IsFolds, FoldStep
<1>3. IsFolds(start, t, N)
  <2>1. \E T : IsFolds(start, T, N)
    <3> HIDE DEF N, start
    <3> QED BY <1>1, FoldsExist
  <2> QED BY <2>1
<1>4. FoldedSoFar(f, start)
  <2>1. start.at = 1 /\ start.const = NothingKnown(f) /\ start.code = f.code
    OBVIOUS
  <2> HIDE DEF start
  <2>2. Keeps(f, WithCode(f, f.code)) /\ WithCode(f, f.code).code = f.code
    BY WithOwnCode DEF Keeps
  <2>3. DOMAIN NothingKnown(f) = RegsOf(f) /\ Known(f.code, 1, NothingKnown(f))
    BY DEF NothingKnown, Known
  <2>4. 1 \in 1 .. Len(f.code) + 1
    BY <1>1
  <2> QED BY <2>1, <2>2, <2>3, <2>4 DEF FoldedSoFar
<1> HIDE DEF t, N, start
<1>5. \A k \in 0 .. N : t[k] = FoldStep(start, t, k)
  BY <1>3 DEF IsFolds
<1>6. 0 \in Good
  <2>1. t[0] = start
    BY <1>1, <1>5 DEF FoldStep
  <2> QED BY <1>1, <1>4, <2>1
<1>7. ASSUME NEW k \in 0 .. N - 1, k \in Good
      PROVE  k + 1 \in Good
  <2>1. k + 1 \in 0 .. N /\ k + 1 # 0 /\ k + 1 - 1 = k
    BY <1>1
  <2>2. FoldedSoFar(f, t[k])
    BY <1>7
  <2>3. t[k + 1] = FoldNext(t[k])
    BY <1>5, <2>1 DEF FoldStep
  <2>4. FoldedSoFar(f, FoldNext(t[k]))
    BY <2>2, FoldedTurn
  <2> QED BY <2>1, <2>3, <2>4
<1> HIDE DEF Good
<1>8. \A k \in 0 .. N : k \in Good
  BY <1>1, <1>6, <1>7, Stepwise
<1>9. N \in Good
  BY <1>1, <1>8
<1>10. FoldedSoFar(f, t[N])
  BY <1>9 DEF Good
<1> QED BY <1>2, <1>10 DEF FoldedSoFar

LEMMA CfgSimplifyKeeps ==
  ASSUME NEW f, IsFunction(f), LabelsPlaced(f.code), ConstantsStand(f) \/ FoldBranches(f) = f.code
  PROVE  Keeps(f, CfgSimplify(f).fn)
<1> DEFINE folded == FoldBranches(f)
           reached == Only(folded, DOMAIN folded \ Unreachable(folded))
           direct == Only(reached, DOMAIN reached \ IdleJumps(reached))
           merged == MergedArms(direct)
           code == WithoutFallthroughArms(merged)
<1>1. CfgSimplify(f).fn = WithCode(f, code)
  BY DEF CfgSimplify
<1>2. Keeps(f, WithCode(f, reached)) /\ WithCode(f, reached).code = reached
  <2> DEFINE g == WithCode(f, folded)
             h == WithCode(g, reached)
  <2>1. Keeps(f, g) /\ g.code = folded /\ h = WithCode(f, reached)
    <3>1. CASE ConstantsStand(f)
      BY <3>1, FoldKeeps, WithCodeTwice
    <3>2. CASE folded = f.code
      <4>1. g = f /\ Keeps(f, f)
        BY <3>2, WithOwnCode DEF Keeps
      <4> QED BY <3>2, <4>1
    <3> QED BY <3>1, <3>2
  <2> HIDE DEF g, folded
  <2>2. IsFunction(g) /\ LabelsPlaced(g.code)
    BY <2>1 DEF Keeps
  <2>3. Keeps(g, h) /\ h.code = reached
    BY <2>1, <2>2, ReachedKeeps
  <2> HIDE DEF h, reached
  <2> QED BY <2>1, <2>3, KeepsOn
<1>3. Keeps(f, WithCode(f, direct)) /\ WithCode(f, direct).code = direct
  <2> DEFINE g == WithCode(f, reached)
             h == WithCode(g, direct)
  <2>1. Keeps(f, g) /\ g.code = reached /\ h = WithCode(f, direct)
    BY <1>2, WithCodeTwice
  <2> HIDE DEF g, reached
  <2>2. IsFunction(g) /\ LabelsPlaced(g.code)
    BY <2>1 DEF Keeps
  <2>3. Keeps(g, h) /\ h.code = direct
    BY <2>1, <2>2, DirectKeeps
  <2> HIDE DEF h, direct
  <2> QED BY <2>1, <2>3, KeepsOn
<1> HIDE DEF reached, direct
<1>4. Keeps(f, WithCode(f, merged)) /\ WithCode(f, merged).code = merged
  <2> DEFINE g == WithCode(f, direct)
             h == WithCode(g, merged)
  <2>1. Keeps(f, g) /\ g.code = direct /\ h = WithCode(f, merged)
    BY <1>3, WithCodeTwice
  <2> HIDE DEF g
  <2>2. IsFunction(g) /\ LabelsPlaced(g.code)
    BY <2>1 DEF Keeps
  <2>3. Keeps(g, h) /\ h.code = merged
    BY <2>1, <2>2, MergedKeeps
  <2> HIDE DEF h, merged
  <2> QED BY <2>1, <2>3, KeepsOn
<1> HIDE DEF merged
<1>5. Keeps(f, WithCode(f, code))
  <2> DEFINE g == WithCode(f, merged)
             h == WithCode(g, code)
  <2>1. Keeps(f, g) /\ g.code = merged /\ h = WithCode(f, code)
    BY <1>4, WithCodeTwice
  <2> HIDE DEF g
  <2>2. IsFunction(g) /\ LabelsPlaced(g.code)
    BY <2>1 DEF Keeps
  <2>3. Keeps(g, h)
    BY <2>1, <2>2, FallthroughKeeps
  <2> HIDE DEF h, code
  <2> QED BY <2>1, <2>3, KeepsOn
<1> HIDE DEF code
<1> QED BY <1>1, <1>5

-----------------------------------------------------------------------------
(* The passes that tidy up.                                                  *)

Tidying == {"cfg_simplify", "dce", "verifier"}

(* Control-flow simplification, dead-code elimination and the verifier keep  *)
(* every instruction complete, every label placed and every constant apart,  *)
(* and what the function does on every memory on which it returns: for every *)
(* function that keeps its constants apart, and every one that has no branch *)
(* on a constant left to fold.                                               *)
THEOREM TidyingKeeps ==
  ASSUME NEW f, IsFunction(f), LabelsPlaced(f.code), NEW name \in Tidying,
         ConstantsStand(f) \/ FoldBranches(f) = f.code
  PROVE  Keeps(f, Run(name, f).fn)
<1>1. CASE name = "cfg_simplify"
  <2>1. Run(name, f) = CfgSimplify(f)
    BY <1>1 DEF Run
  <2> QED BY <1>1, <2>1, CfgSimplifyKeeps
<1>2. CASE name = "dce"
  <2>1. Run(name, f) = Dce(f)
    BY <1>2 DEF Run
  <2> QED BY <2>1, DceKeeps
<1>3. CASE name = "verifier"
  <2>1. Run(name, f).fn = f
    BY <1>3 DEF Run
  <2> QED BY <2>1 DEF Keeps
<1> QED BY <1>1, <1>2, <1>3 DEF Tidying

LEMMA SameOutcomeKept ==
  ASSUME NEW f, NEW g, Keeps(f, g), NEW w, NEW memory, w.end # "", SameOutcome(w, Outcome(f, memory))
  PROVE  SameOutcome(w, Outcome(g, memory))
<1>1. w.end = "undefined" \/ (w.end = "return" /\ Outcome(f, memory) = w)
  BY DEF SameOutcome
<1>2. CASE w.end = "undefined"
  BY <1>2 DEF SameOutcome
<1>3. CASE w.end = "return" /\ Outcome(f, memory) = w
  <2>1. Outcome(g, memory) = w
    BY <1>3 DEF Keeps
  <2> QED BY <1>3, <2>1 DEF SameOutcome
<1> QED BY <1>1, <1>2, <1>3

(* So a step of the pass manager with one of them keeps the property, on     *)
(* inputs whose runs come to an end.  BehaviourPreserved says of a function  *)
(* that it keeps its constants apart, which one whose && or ?: merges        *)
(* constants does not.                                                       *)
THEOREM TidyingKeepsBehaviour ==
  ASSUME BehaviourPreserved, RunPass, Pipeline[pass] \in Tidying,
         \A m \in Inputs : wanted[m].end # ""
  PROVE  BehaviourPreserved'
<1>1. /\ IsFunction(fn) /\ LabelsPlaced(fn.code) /\ ConstantsStand(fn)
      /\ \A m \in Inputs : SameOutcome(wanted[m], Outcome(fn, m))
  BY DEF BehaviourPreserved
<1>2. fn' = Run(Pipeline[pass], fn).fn /\ wanted' = wanted
  BY DEF RunPass
<1>3. Keeps(fn, fn')
  BY <1>1, <1>2, TidyingKeeps
<1>4. \A m \in Inputs : SameOutcome(wanted[m], Outcome(fn', m))
  BY <1>1, <1>3, SameOutcomeKept
<1>5. IsFunction(fn') /\ LabelsPlaced(fn'.code) /\ ConstantsStand(fn')
  BY <1>1, <1>3 DEF Keeps
<1> QED BY <1>2, <1>4, <1>5 DEF BehaviourPreserved
=============================================================================
