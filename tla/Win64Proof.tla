----------------------------- MODULE Win64Proof -----------------------------
(* A Microsoft x64 call delivers its arguments and returns, for any call: the *)
(* frame of the callee is laid out in regions that are apart, so that every   *)
(* word stays as it was written until the code reads it back.                 *)
EXTENDS Win64, FiniteSetTheorems, WellFoundedInduction, TLAPS

(* Every set of naturals has a least element. *)
LEMMA LeastNumber ==
  ASSUME NEW S \in SUBSET Nat, S # {}
  PROVE  \E n \in S : \A p \in S : n <= p
<1> DEFINE R == OpToRel(<, Nat)
<1>1. \A x, y \in Nat : <<y, x>> \in R <=> y < x
  BY DEF OpToRel
<1>2. IsWellFoundedOn(R, Nat)
  BY NatLessThanWellFounded
<1> HIDE DEF R
<1>3. PICK n \in S : \A p \in S : ~(<<p, n>> \in R)
  BY <1>2, WFMin
<1>4. ASSUME NEW p \in S
      PROVE  n <= p
  <2>1. ~(p < n)
    BY <1>1, <1>3
  <2> QED BY <2>1
<1> QED BY <1>4

(* A concatenation, item by item. *)
LEMMA Concatenated ==
  ASSUME NEW S, NEW s \in Seq(S), NEW t \in Seq(S)
  PROVE  /\ s \o t \in Seq(S) /\ Len(s \o t) = Len(s) + Len(t) /\ Len(s) \in Nat /\ Len(t) \in Nat
         /\ DOMAIN (s \o t) = 1 .. Len(s) + Len(t)
         /\ \A i \in 1 .. Len(s) : (s \o t)[i] = s[i]
         /\ \A i \in 1 .. Len(t) : (s \o t)[Len(s) + i] = t[i]
OBVIOUS

-----------------------------------------------------------------------------
(* The call does not change, nor does what its text determines. *)

LEMMA ShapeKept ==
  ASSUME msCall' = msCall
  PROVE  /\ Params64' = Params64 /\ Locals64' = Locals64 /\ Laid' = Laid /\ Extra' = Extra
         /\ (Hidden64' <=> Hidden64) /\ (Variadic64' <=> Variadic64)
<1>1. Params64' = Params64 /\ Extra' = Extra /\ (Hidden64' <=> Hidden64) /\ (Variadic64' <=> Variadic64)
  BY DEF Params64, Hidden64, Extra, Variadic64
<1> QED BY <1>1 DEF Locals64, Laid, Variadic64

LEMMA LayoutKept ==
  ASSUME msCall' = msCall
  PROVE  Bottom' = Bottom /\ Layout64' = Layout64
<1>1. Bottom' = Bottom
  BY ShapeKept DEF Bottom
<1>2. \A p : Top(p)' = Top(p)
  BY ShapeKept DEF Top
<1> QED BY <1>1, <1>2, ShapeKept DEF Layout64, ParamOffset

-----------------------------------------------------------------------------
(* The types of a call. *)

(* What a call is made of. *)
LEMMA CallTyped ==
  ASSUME msCall \in Win64Calls
  PROVE  /\ Len(msCall.args) \in Nat /\ DOMAIN msCall.args = 1 .. Len(msCall.args)
         /\ \A a \in DOMAIN msCall.args : msCall.args[a] \in Types64 /\ msCall.args[a].class # "void"
         /\ msCall.named \in 0 .. Len(msCall.args) /\ (~msCall.variadic => msCall.named = Len(msCall.args))
         /\ msCall.ret \in Types64
         /\ Len(msCall.locals) \in Nat /\ DOMAIN msCall.locals = 1 .. Len(msCall.locals)
         /\ \A l \in DOMAIN msCall.locals : msCall.locals[l] \in [size : Nat, align : Nat \ {0}]
         /\ msCall.spills \in Nat /\ msCall.mask \in SUBSET (1 .. 5) /\ msCall.first \in Nat \ {0}
         /\ msCall.target \in 0 .. 7
         /\ \A a \in DOMAIN msCall.args : msCall.target \in 1 .. 6 => a + msCall.first - 1 # msCall.target
<1>1. IsMsCall(msCall)
  BY Win64CallsAreTyped
<1> DEFINE T == {ty \in Types64 : ty.class # "void"}
           L == [size : Nat, align : Nat \ {0}]
<1>2. msCall.args \in Seq(T) /\ msCall.locals \in Seq(L)
  BY <1>1 DEF IsMsCall
<1> HIDE DEF L
<1>3. /\ Len(msCall.args) \in Nat /\ DOMAIN msCall.args = 1 .. Len(msCall.args)
      /\ \A a \in DOMAIN msCall.args : msCall.args[a] \in T
  BY <1>2
<1>4. /\ Len(msCall.locals) \in Nat /\ DOMAIN msCall.locals = 1 .. Len(msCall.locals)
      /\ \A l \in DOMAIN msCall.locals : msCall.locals[l] \in L
  BY <1>2
<1> QED BY <1>1, <1>3, <1>4 DEF IsMsCall, L

(* A value has at most eight bytes unless it is passed by reference. *)
LEMMA SmallTypes ==
  ASSUME NEW ty \in Types64
  PROVE  /\ ty.size \in Nat /\ ty.align \in Nat \ {0}
         /\ ty.class \in {"int", "float", "agg", "void"}
         /\ (ty.class = "void" \/ win64_returns_by_reference(ty) \/ ty.size \in 1 .. 8)
BY DEF Types64, win64_returns_by_reference

LEMMA ParamsTyped ==
  ASSUME msCall \in Win64Calls
  PROVE  /\ Extra \in 0 .. 1 /\ (Hidden64 <=> Extra = 1)
         /\ Len(Params64) = msCall.named + Extra /\ DOMAIN Params64 = 1 .. msCall.named + Extra
         /\ (Hidden64 => Params64[1] = [arg |-> 0, ty |-> PointerType])
         /\ \A p \in 1 + Extra .. msCall.named + Extra :
              /\ p - Extra \in 1 .. msCall.named
              /\ Params64[p] = [arg |-> p - Extra, ty |-> msCall.args[p - Extra]]
         /\ \A p \in DOMAIN Params64 : Params64[p].ty \in Types64 /\ Params64[p].ty.class # "void"
<1> DEFINE hidden == [arg |-> 0, ty |-> PointerType]
           A == [a \in 1 .. msCall.named |-> [arg |-> a, ty |-> msCall.args[a]]]
           S == {hidden} \cup {A[a] : a \in 1 .. msCall.named}
<1>1. msCall.named \in Nat /\ msCall.named <= Len(msCall.args) /\ Len(msCall.args) \in Nat
  BY CallTyped
<1>2. Extra \in 0 .. 1 /\ (Hidden64 <=> Extra = 1)
  BY DEF Extra
<1>3. A \in Seq(S) /\ Len(A) = msCall.named
  <2>1. A \in [1 .. msCall.named -> S]
    OBVIOUS
  <2>2. DOMAIN A = 1 .. msCall.named
    OBVIOUS
  <2> HIDE DEF A, S
  <2> QED BY <1>1, <2>1, <2>2
<1>4. PICK H \in Seq(S) : Params64 = H \o A /\ Len(H) = Extra /\ (Hidden64 => H[1] = hidden)
  <2>1. CASE Hidden64
    <3>1. <<hidden>> \in Seq(S) /\ Len(<<hidden>>) = 1 /\ <<hidden>>[1] = hidden
      OBVIOUS
    <3>2. Params64 = <<hidden>> \o A
      BY <2>1 DEF Params64
    <3> HIDE DEF hidden, A, S
    <3> QED BY <1>2, <2>1, <3>1, <3>2
  <2>2. CASE ~Hidden64
    <3>1. << >> \in Seq(S) /\ Len(<< >>) = 0
      OBVIOUS
    <3>2. Params64 = << >> \o A
      BY <2>2 DEF Params64
    <3>3. Extra = 0
      BY <1>2, <2>2
    <3> HIDE DEF hidden, A, S
    <3> QED BY <2>2, <3>1, <3>2, <3>3
  <2> QED BY <2>1, <2>2
<1>5. /\ Len(Params64) = msCall.named + Extra /\ DOMAIN Params64 = 1 .. msCall.named + Extra
      /\ \A p \in 1 .. msCall.named + Extra : Params64[p] = IF p <= Extra THEN H[p] ELSE A[p - Extra]
  <2> HIDE DEF A, S
  <2> QED BY <1>1, <1>2, <1>3, <1>4
<1>6. ASSUME NEW p \in 1 + Extra .. msCall.named + Extra
      PROVE  /\ p - Extra \in 1 .. msCall.named
             /\ Params64[p] = [arg |-> p - Extra, ty |-> msCall.args[p - Extra]]
  <2>1. p - Extra \in 1 .. msCall.named /\ p \in 1 .. msCall.named + Extra /\ ~(p <= Extra)
    BY <1>1, <1>2
  <2>2. Params64[p] = A[p - Extra]
    BY <1>5, <2>1
  <2> QED BY <2>1, <2>2
<1>7. Hidden64 => Params64[1] = [arg |-> 0, ty |-> PointerType]
  BY <1>1, <1>2, <1>4, <1>5
<1>8. ASSUME NEW p \in DOMAIN Params64
      PROVE  Params64[p].ty \in Types64 /\ Params64[p].ty.class # "void"
  <2>1. CASE p <= Extra
    <3>1. Params64[p] = [arg |-> 0, ty |-> PointerType]
      BY <1>2, <1>5, <1>7, <2>1
    <3> QED BY <3>1 DEF PointerType, Types64
  <2>2. CASE ~(p <= Extra)
    <3>1. p \in 1 + Extra .. msCall.named + Extra
      BY <1>1, <1>2, <1>5, <2>2
    <3>2. p - Extra \in 1 .. msCall.named /\ Params64[p] = [arg |-> p - Extra, ty |-> msCall.args[p - Extra]]
      BY <1>6, <3>1, Zenon
    <3>3. p - Extra \in 1 .. Len(msCall.args)
      BY <1>1, <1>2, <3>2
    <3>4. Params64[p].ty = msCall.args[p - Extra]
      BY <3>2
    <3> QED BY <3>3, <3>4, CallTyped
  <2> QED BY <2>1, <2>2
<1> HIDE DEF A, S
<1> QED BY <1>2, <1>5, <1>6, <1>7, <1>8

-----------------------------------------------------------------------------
(* The frame. *)

(* The tail of the sequence laid out below %rbp. *)
LEMMA LocalsTyped ==
  ASSUME msCall \in Win64Calls
  PROVE  /\ Len(Locals64) \in Nat /\ DOMAIN Locals64 = 1 .. Len(Locals64)
         /\ \A l \in DOMAIN Locals64 : Locals64[l].size \in Nat /\ Locals64[l].align \in Nat \ {0}
         /\ AllocaBottom \in DOMAIN Locals64 /\ Locals64[AllocaBottom].size = 8
         /\ (Variadic64 => VaArea64 \in DOMAIN Locals64 /\ Locals64[VaArea64].size = 8)
<1> DEFINE L == [size : Nat, align : Nat \ {0}]
           n == Len(msCall.locals)
           first == [size |-> 8, align |-> 8]
           second == [size |-> 8, align |-> 1]
<1>1. msCall.locals \in Seq(L) /\ n \in Nat
  <2>1. IsMsCall(msCall)
    BY Win64CallsAreTyped
  <2>2. msCall.locals \in Seq(L)
    BY <2>1 DEF IsMsCall
  <2> HIDE DEF L
  <2> QED BY <2>2
<1>2. first \in L /\ second \in L /\ first.size = 8 /\ second.size = 8
  OBVIOUS
<1>3. /\ <<first>> \in Seq(L) /\ Len(<<first>>) = 1 /\ <<first>>[1] = first
      /\ <<second>> \in Seq(L) /\ Len(<<second>>) = 1 /\ <<second>>[1] = second
  <2> HIDE DEF L, first, second
  <2> QED BY <1>2
<1> DEFINE s == msCall.locals \o <<first>>
<1>4. s \in Seq(L) /\ Len(s) = n + 1 /\ s[n + 1] = first
  <2> HIDE DEF L, first, second
  <2> QED BY <1>1, <1>3
<1>5. /\ Locals64 \in Seq(L) /\ Locals64[n + 1] = first /\ n + 1 \in 1 .. Len(Locals64)
      /\ (Variadic64 => Locals64[n + 2] = second /\ n + 2 \in 1 .. Len(Locals64))
  <2>1. CASE Variadic64
    <3>1. Locals64 = s \o <<second>>
      BY <2>1 DEF Locals64
    <3>2. \A i \in 1 .. n + 1 : Locals64[i] = s[i]
      <4> HIDE DEF L, s, first, second
      <4> QED BY <1>3, <1>4, <3>1, Concatenated
    <3>3. /\ Locals64 \in Seq(L) /\ Len(Locals64) = n + 2 /\ Locals64[n + 2] = second
      <4>1. n + 1 + 1 = n + 2 /\ 1 \in 1 .. Len(<<second>>)
        BY <1>1
      <4> HIDE DEF L, s, first, second, n
      <4>2. Locals64 \in Seq(L) /\ Len(Locals64) = n + 1 + 1 /\ Locals64[n + 1 + 1] = <<second>>[1]
        BY <1>3, <1>4, <3>1, <4>1, Concatenated
      <4> QED BY <1>3, <4>1, <4>2
    <3>4. n + 1 \in 1 .. n + 2 /\ n + 2 \in 1 .. n + 2 /\ n + 1 \in 1 .. n + 1
      BY <1>1
    <3> HIDE DEF L, s, first, second, n
    <3> QED BY <1>4, <3>2, <3>3, <3>4
  <2>2. CASE ~Variadic64
    <3>1. Locals64 = s \o << >>
      BY <2>2 DEF Locals64
    <3>2. Locals64 = s
      <4> HIDE DEF L, s
      <4> QED BY <1>4, <3>1
    <3>3. Locals64 \in Seq(L) /\ Locals64[n + 1] = first /\ n + 1 \in 1 .. Len(Locals64)
      <4> HIDE DEF L, s, first, second
      <4> QED BY <1>1, <1>4, <3>2
    <3> HIDE DEF L, s, first, second, n
    <3> QED BY <2>2, <3>3, Zenon
  <2> QED BY <2>1, <2>2
<1>6. Len(Locals64) \in Nat /\ DOMAIN Locals64 = 1 .. Len(Locals64) /\ \A l \in DOMAIN Locals64 : Locals64[l] \in L
  <2> HIDE DEF L
  <2> QED BY <1>5
<1>7. AllocaBottom = n + 1 /\ VaArea64 = n + 2
  BY <1>1 DEF AllocaBottom, VaArea64
<1> HIDE DEF n
<1> QED BY <1>2, <1>5, <1>6, <1>7

LEMMA LaidTyped ==
  ASSUME msCall \in Win64Calls
  PROVE  /\ Len(Laid) = Len(Params64) + Len(Locals64) /\ Len(Laid) \in Nat
         /\ \A n : n \in DOMAIN Laid <=> n \in 1 .. Len(Laid)
         /\ \A p \in DOMAIN Params64 :
               /\ p \in DOMAIN Laid
               /\ win64_returns_by_reference(Params64[p].ty) => Laid[p] = Params64[p].ty
         /\ \A l \in DOMAIN Locals64 : Len(Params64) + l \in DOMAIN Laid /\ Laid[Len(Params64) + l] = Locals64[l]
         /\ \A n \in DOMAIN Laid : Laid[n].size \in Nat /\ Laid[n].align \in Nat \ {0}
<1> DEFINE N == Len(Params64)
           copy(p) == IF win64_returns_by_reference(Params64[p].ty) THEN Params64[p].ty ELSE NoCopy
           copies == [p \in DOMAIN Params64 |-> copy(p)]
           V == {copy(p) : p \in DOMAIN Params64} \cup {Locals64[l] : l \in DOMAIN Locals64}
<1>1. N \in Nat /\ DOMAIN Params64 = 1 .. N
  BY ParamsTyped, CallTyped
<1>2. copies \in Seq(V) /\ Len(copies) = N /\ \A p \in 1 .. N : copies[p] = copy(p)
  <2>1. copies \in [1 .. N -> V] /\ DOMAIN copies = 1 .. N /\ \A p \in 1 .. N : copies[p] = copy(p)
    BY <1>1
  <2> HIDE DEF copies, copy, V
  <2> QED BY <1>1, <2>1
<1>3. Locals64 \in Seq(V)
  <2>1. Locals64 \in Seq([size : Nat, align : Nat \ {0}])
    <3>1. msCall.locals \in Seq([size : Nat, align : Nat \ {0}])
      BY Win64CallsAreTyped DEF IsMsCall
    <3> DEFINE L == [size : Nat, align : Nat \ {0}]
    <3>2. <<[size |-> 8, align |-> 8]>> \in Seq(L) /\ <<[size |-> 8, align |-> 1]>> \in Seq(L) /\ << >> \in Seq(L)
      OBVIOUS
    <3> HIDE DEF L
    <3>3. \A s, t \in Seq(L) : s \o t \in Seq(L)
      OBVIOUS
    <3> DEFINE alloca == <<[size |-> 8, align |-> 8]>>
               area == IF Variadic64 THEN <<[size |-> 8, align |-> 1]>> ELSE << >>
    <3>4. alloca \in Seq(L) /\ area \in Seq(L)
      BY <3>2
    <3>5. Locals64 = (msCall.locals \o alloca) \o area
      BY DEF Locals64
    <3>6. msCall.locals \in Seq(L)
      BY <3>1 DEF L
    <3> HIDE DEF alloca, area
    <3>7. Locals64 \in Seq(L)
      <4>1. msCall.locals \o alloca \in Seq(L)
        BY <3>3, <3>4, <3>6
      <4>2. (msCall.locals \o alloca) \o area \in Seq(L)
        BY <3>3, <3>4, <4>1
      <4> QED BY <3>5, <4>2
    <3> QED BY <3>7 DEF L
  <2>2. \A l \in 1 .. Len(Locals64) : Locals64[l] \in V
    <3>1. DOMAIN Locals64 = 1 .. Len(Locals64)
      BY LocalsTyped
    <3> QED BY <3>1
  <2> DEFINE n == Len(Locals64)
             L == [size : Nat, align : Nat \ {0}]
  <2> HIDE DEF V, L
  <2>3. Locals64 \in [1 .. n -> L] /\ n \in Nat
    <3>1. Locals64 \in Seq(L)
      BY <2>1 DEF L
    <3> QED BY <3>1
  <2> HIDE DEF n
  <2>4. Locals64 \in [1 .. n -> V]
    BY <2>2, <2>3 DEF n
  <2> QED BY <2>3, <2>4
<1>4. Laid = copies \o Locals64
  BY DEF Laid
<1>5. /\ Len(Laid) = N + Len(Locals64) /\ DOMAIN Laid = 1 .. Len(Laid) /\ Len(Laid) \in Nat
      /\ \A p \in 1 .. N : Laid[p] = copy(p)
      /\ \A l \in 1 .. Len(Locals64) : Laid[N + l] = Locals64[l]
      /\ \A n \in 1 .. Len(Laid) : n \in 1 .. N \/ n - N \in 1 .. Len(Locals64)
  <2> HIDE DEF copies, copy, V
  <2> HIDE DEF N
  <2>3. /\ Len(Laid) = Len(copies) + Len(Locals64) /\ DOMAIN Laid = 1 .. Len(copies) + Len(Locals64)
        /\ \A p \in 1 .. Len(copies) : Laid[p] = copies[p]
        /\ \A l \in 1 .. Len(Locals64) : Laid[Len(copies) + l] = Locals64[l]
    <3> DEFINE whole == copies \o Locals64
    <3>1. copies \in Seq(V) /\ Locals64 \in Seq(V)
      BY <1>2, <1>3
    <3>2. /\ Len(whole) = Len(copies) + Len(Locals64) /\ DOMAIN whole = 1 .. Len(copies) + Len(Locals64)
          /\ \A p \in 1 .. Len(copies) : whole[p] = copies[p]
          /\ \A l \in 1 .. Len(Locals64) : whole[Len(copies) + l] = Locals64[l]
      BY <3>1, Concatenated
    <3>3. Laid = whole
      BY <1>4
    <3> HIDE DEF whole
    <3> QED BY <3>2, <3>3
  <2>1. /\ Len(Laid) = N + Len(Locals64) /\ DOMAIN Laid = 1 .. Len(Laid)
        /\ \A p \in 1 .. N : Laid[p] = copies[p]
        /\ \A l \in 1 .. Len(Locals64) : Laid[N + l] = Locals64[l]
    BY <1>2, <2>3
  <2>2. \A n \in 1 .. N + Len(Locals64) : n \in 1 .. N \/ n - N \in 1 .. Len(Locals64)
    BY <1>1, LocalsTyped
  <2> QED BY <1>1, <1>2, <2>1, <2>2, LocalsTyped
<1>6. ASSUME NEW n \in DOMAIN Laid
      PROVE  Laid[n].size \in Nat /\ Laid[n].align \in Nat \ {0}
  <2>1. CASE n \in 1 .. N
    <3>1. Params64[n].ty \in Types64
      BY <1>1, <2>1, ParamsTyped
    <3> QED BY <1>5, <2>1, <3>1, SmallTypes DEF NoCopy
  <2>2. CASE n - N \in 1 .. Len(Locals64)
    <3>1. PICK l \in 1 .. Len(Locals64) : l = n - N
      BY <2>2
    <3>2. n = N + l
      BY <1>1, <1>5, <3>1, LocalsTyped
    <3> QED BY <1>5, <3>1, <3>2, LocalsTyped
  <2> QED BY <1>5, <2>1, <2>2
<1>7. \A p \in 1 .. N : p \in 1 .. Len(Laid)
  BY <1>1, <1>5, LocalsTyped
<1>8. \A l \in 1 .. Len(Locals64) : N + l \in 1 .. Len(Laid)
  BY <1>1, <1>5, LocalsTyped
<1> HIDE DEF N
<1> QED BY <1>1, <1>5, <1>6, <1>7, <1>8, LocalsTyped DEF N

LEMMA LaidDomain ==
  ASSUME msCall \in Win64Calls
  PROVE  DOMAIN Laid = 1 .. Len(Laid) /\ Len(Laid) \in Nat
BY LaidTyped

LEMMA CopyLaid ==
  ASSUME msCall \in Win64Calls, NEW p \in DOMAIN Params64
  PROVE  /\ p \in DOMAIN Laid /\ Laid[p].size \in Nat
         /\ win64_returns_by_reference(Params64[p].ty) => Laid[p] = Params64[p].ty
<1>1. p \in DOMAIN Laid
  BY LaidTyped
<1>2. win64_returns_by_reference(Params64[p].ty) => Laid[p] = Params64[p].ty
  BY LaidTyped
<1>3. \A n \in DOMAIN Laid : Laid[n].size \in Nat
  BY LaidTyped
<1> QED BY <1>1, <1>2, <1>3

LEMMA AlignUpIsAbove ==
  ASSUME NEW n \in Nat, NEW a \in Nat \ {0}
  PROVE  AlignUp(n, a) \in Nat /\ AlignUp(n, a) >= n
<1> DEFINE q == (n + a - 1) \div a
<1>1. q \in Nat /\ (n + a - 1) % a \in 0 .. a - 1 /\ n + a - 1 = (a * q) + ((n + a - 1) % a)
  OBVIOUS
<1>2. a * q \in Nat /\ a * q >= n /\ q * a = a * q
  <2> HIDE DEF q
  <2> QED BY <1>1
<1> QED BY <1>2 DEF AlignUp

(* To a multiple of 16. *)
LEMMA AlignUpTo16 ==
  ASSUME NEW n \in Nat
  PROVE  AlignUp(n, 16) \in Nat /\ AlignUp(n, 16) >= n /\ AlignUp(n, 16) % 16 = 0
BY DEF AlignUp

Bottoms(n, f) ==
  f = [m \in 0 .. n |-> IF m = 0 THEN FirstBottom ELSE Below(f[m - 1], Laid[m])]

(* The recursion of the layout has a solution. *)
LEMMA BottomsExist ==
  ASSUME NEW n \in Nat
  PROVE  \E f : Bottoms(n, f)
<1> DEFINE Without == {k \in Nat : ~\E f : Bottoms(k, f)}
<1> SUFFICES ASSUME Without # {} PROVE FALSE
  OBVIOUS
<1>1. PICK k \in Without : \A p \in Without : k <= p
  BY LeastNumber
<1>2. k # 0
  <2>1. Bottoms(0, [m \in 0 .. 0 |-> FirstBottom])
    BY DEF Bottoms
  <2> QED BY <1>1, <2>1
<1>3. PICK f : Bottoms(k - 1, f)
  <2>1. k - 1 \in Nat /\ ~(k <= k - 1)
    BY <1>1, <1>2
  <2> QED BY <1>1, <2>1
<1> DEFINE g == [m \in 0 .. k |-> IF m = k THEN Below(f[k - 1], Laid[k]) ELSE f[m]]
<1>4. ASSUME NEW m \in 0 .. k
      PROVE  g[m] = IF m = 0 THEN FirstBottom ELSE Below(g[m - 1], Laid[m])
  <2>1. CASE m = 0
    BY <1>2, <1>3, <2>1 DEF Bottoms
  <2>2. CASE m = k
    BY <1>1, <1>2, <2>2
  <2>3. CASE m # 0 /\ m # k
    <3>1. m \in 0 .. k - 1 /\ m - 1 \in 0 .. k /\ m - 1 # k
      BY <1>1, <2>3
    <3>2. f[m] = Below(f[m - 1], Laid[m])
      BY <1>3, <2>3, <3>1 DEF Bottoms
    <3> QED BY <2>3, <3>1, <3>2
  <2> QED BY <2>1, <2>2, <2>3
<1>5. g = [m \in 0 .. k |-> IF m = 0 THEN FirstBottom ELSE Below(g[m - 1], Laid[m])]
  BY <1>4
<1> HIDE DEF g
<1>6. Bottoms(k, g)
  BY <1>5 DEF Bottoms
<1> QED BY <1>1, <1>6

LEMMA BottomDefined ==
  ASSUME msCall \in Win64Calls
  PROVE  /\ Bottom[0] = 56
         /\ \A n \in 1 .. Len(Laid) : Bottom[n] = Below(Bottom[n - 1], Laid[n])
<1>1. Len(Laid) \in Nat
  BY LaidTyped
<1>2. PICK f : f = (CHOOSE g : Bottoms(Len(Laid), g))
  OBVIOUS
<1>3. Bottoms(Len(Laid), f)
  BY <1>1, <1>2, BottomsExist
<1>4. Bottom = f
  BY <1>2 DEF Bottom, Bottoms
<1>5. 0 \in 0 .. Len(Laid) /\ \A n \in 1 .. Len(Laid) : n \in 0 .. Len(Laid) /\ n # 0
  BY <1>1
<1> QED BY <1>3, <1>4, <1>5 DEF Bottoms, FirstBottom

(* Each object is below what was laid out before it, and all are below the   *)
(* callee-saved registers.                                                   *)
LEMMA BottomsDescend ==
  ASSUME msCall \in Win64Calls
  PROVE  /\ \A n \in 0 .. Len(Laid) : Bottom[n] \in Nat /\ Bottom[n] >= 56
         /\ \A n \in 1 .. Len(Laid) : Bottom[n] >= Bottom[n - 1] + Laid[n].size
<1>1. Len(Laid) \in Nat /\ \A n \in 1 .. Len(Laid) : Laid[n].size \in Nat /\ Laid[n].align \in Nat \ {0}
  BY LaidTyped
<1>2. ASSUME NEW n \in 1 .. Len(Laid), Bottom[n - 1] \in Nat
      PROVE  Bottom[n] \in Nat /\ Bottom[n] >= Bottom[n - 1] + Laid[n].size
  <2>1. Bottom[n] = AlignUp(Bottom[n - 1], Laid[n].align) + Laid[n].size
    BY BottomDefined DEF Below
  <2>2. AlignUp(Bottom[n - 1], Laid[n].align) \in Nat /\ AlignUp(Bottom[n - 1], Laid[n].align) >= Bottom[n - 1]
    BY <1>1, <1>2, AlignUpIsAbove
  <2> QED BY <1>1, <1>2, <2>1, <2>2
<1> DEFINE Bad == {n \in 0 .. Len(Laid) : ~(Bottom[n] \in Nat /\ Bottom[n] >= 56)}
<1>3. Bad = {}
  <2> SUFFICES ASSUME Bad # {} PROVE FALSE
    OBVIOUS
  <2>1. PICK n \in Bad : \A p \in Bad : n <= p
    <3>1. Bad \in SUBSET Nat
      BY <1>1
    <3> HIDE DEF Bad
    <3> QED BY <3>1, LeastNumber
  <2>2. n # 0
    BY <2>1, BottomDefined
  <2>3. n \in 1 .. Len(Laid) /\ n - 1 \in 0 .. Len(Laid) /\ ~(n <= n - 1)
    BY <1>1, <2>1, <2>2
  <2>4. Bottom[n - 1] \in Nat /\ Bottom[n - 1] >= 56
    BY <2>1, <2>3
  <2>5. Bottom[n] \in Nat /\ Bottom[n] >= Bottom[n - 1] + Laid[n].size /\ Laid[n].size \in Nat
    BY <1>1, <1>2, <2>3, <2>4
  <2> QED BY <2>1, <2>4, <2>5
<1>4. ASSUME NEW n \in 1 .. Len(Laid)
      PROVE  Bottom[n] >= Bottom[n - 1] + Laid[n].size
  <2>1. n - 1 \in 0 .. Len(Laid)
    BY <1>1
  <2>2. Bottom[n - 1] \in Nat
    BY <1>3, <2>1
  <2> QED BY <1>2, <2>2
<1> QED BY <1>3, <1>4

(* Any two objects are apart. *)
LEMMA BottomsApart ==
  ASSUME msCall \in Win64Calls
  PROVE  \A n \in 1 .. Len(Laid) : \A m \in 0 .. n - 1 :
           Bottom[n] >= Bottom[m] + Laid[n].size
<1>1. Len(Laid) \in Nat /\ \A n \in 1 .. Len(Laid) : Laid[n].size \in Nat
  BY LaidTyped
<1> SUFFICES ASSUME NEW m \in 0 .. Len(Laid),
                    NEW n0 \in 1 .. Len(Laid), m \in 0 .. n0 - 1, ~(Bottom[n0] >= Bottom[m] + Laid[n0].size)
             PROVE  FALSE
  BY <1>1
<1> DEFINE Bad == {n \in m .. Len(Laid) : ~(Bottom[n] >= Bottom[m])}
<1>2. Bad = {}
  <2> SUFFICES ASSUME Bad # {} PROVE FALSE
    OBVIOUS
  <2>1. PICK n \in Bad : \A p \in Bad : n <= p
    <3>1. Bad \in SUBSET Nat
      BY <1>1
    <3> HIDE DEF Bad
    <3> QED BY <3>1, LeastNumber
  <2>2. Bottom[m] \in Nat /\ Bottom[n] \in Nat
    BY <1>1, <2>1, BottomsDescend
  <2>3. n # m
    BY <2>1, <2>2
  <2>4. n \in 1 .. Len(Laid) /\ n - 1 \in m .. Len(Laid) /\ n - 1 \in 0 .. Len(Laid) /\ ~(n <= n - 1)
    BY <1>1, <2>1, <2>3
  <2>5. Bottom[n - 1] >= Bottom[m]
    BY <2>1, <2>4
  <2>6. Bottom[n] >= Bottom[n - 1] + Laid[n].size /\ Bottom[n - 1] \in Nat /\ Laid[n].size \in Nat
    BY <1>1, <2>4, BottomsDescend
  <2>7. ~(Bottom[n] >= Bottom[m])
    BY <2>1
  <2> HIDE DEF Bad
  <2>8. Bottom[n] >= Bottom[m]
    BY <2>2, <2>5, <2>6
  <2> QED BY <2>7, <2>8
<1>3. n0 - 1 \in m .. Len(Laid) /\ n0 - 1 \in 0 .. Len(Laid)
  BY <1>1
<1>4. Bottom[n0 - 1] >= Bottom[m]
  BY <1>2, <1>3
<1>5. /\ Bottom[n0] >= Bottom[n0 - 1] + Laid[n0].size
      /\ Bottom[n0 - 1] \in Nat /\ Bottom[m] \in Nat /\ Bottom[n0] \in Nat /\ Laid[n0].size \in Nat
  <2>1. n0 \in 0 .. Len(Laid)
    BY <1>1
  <2>2. /\ \A n \in 0 .. Len(Laid) : Bottom[n] \in Nat
        /\ \A n \in 1 .. Len(Laid) : Bottom[n] >= Bottom[n - 1] + Laid[n].size
    BY BottomsDescend
  <2> QED BY <1>1, <1>3, <2>1, <2>2
<1>6. \A a, b, c, d \in Nat : a >= b + d /\ b >= c => a >= c + d
  OBVIOUS
<1>7. Bottom[n0] >= Bottom[m] + Laid[n0].size
  BY <1>4, <1>5, <1>6
<1> QED BY <1>7

-----------------------------------------------------------------------------
(* Where things are. *)

(* %rbp in the callee, and the slot of the argument at position s. *)
Base == -TotalAlloc - 16
Slot(s) == Base + 16 + 8 * (s - 1)

LEMMA CallerArea ==
  ASSUME msCall \in Win64Calls
  PROVE  /\ TotalArgs \in Nat /\ TotalArgs = Len(msCall.args) + Extra
         /\ TotalAlloc \in Nat /\ TotalAlloc % 16 = 0 /\ TotalAlloc >= 32
         /\ TotalAlloc >= 32 + 8 * (TotalArgs - 4)
         /\ Base \in Int /\ Base % 16 = 0
<1>1. TotalArgs \in Nat /\ TotalArgs = Len(msCall.args) + Extra
  BY CallTyped, ParamsTyped DEF TotalArgs
<1> DEFINE n == SHADOW + (IF TotalArgs > REG_MAX THEN TotalArgs - REG_MAX ELSE 0) * 8
<1>2. n \in Nat /\ n >= 32 /\ n >= 32 + 8 * (TotalArgs - 4)
  BY <1>1 DEF SHADOW, REG_MAX
<1>3. TotalAlloc = AlignUp(n, 16)
  BY DEF TotalAlloc
<1> HIDE DEF n
<1>4. TotalAlloc \in Nat /\ TotalAlloc % 16 = 0 /\ TotalAlloc >= n
  BY <1>2, <1>3, AlignUpTo16
<1>5. Base \in Int /\ Base % 16 = 0
  <2>1. \A t \in Nat : t % 16 = 0 => (-t - 16) \in Int /\ (-t - 16) % 16 = 0
    OBVIOUS
  <2>2. PICK t : t = TotalAlloc
    OBVIOUS
  <2>3. t \in Nat /\ t % 16 = 0 /\ Base = -t - 16
    BY <1>4, <2>2 DEF Base
  <2> QED BY <2>1, <2>3
<1>6. TotalAlloc >= 32 /\ TotalAlloc >= 32 + 8 * (TotalArgs - 4)
  <2>1. TotalAlloc \in Nat /\ TotalAlloc >= n
    BY <1>4
  <2> QED BY <1>1, <1>2, <2>1
<1> QED BY <1>1, <1>4, <1>5, <1>6

(* Locals and copies of aggregates are below the callee-saved registers,     *)
(* other parameters above the return address, the second one and those after *)
(* it above the slot of the first.                                           *)
LEMMA FrameApart ==
  ASSUME msCall \in Win64Calls
  PROVE  /\ Layout64.size \in Nat /\ Layout64.size % 16 = 0
         /\ Layout64.spillBase \in Nat /\ Layout64.spillBase >= 56 /\ Layout64.size >= Layout64.spillBase
         /\ \A l \in DOMAIN Locals64 :
              /\ Layout64.local[l] = -Bottom[Len(Params64) + l] /\ Layout64.local[l] \in Int
              /\ Layout64.local[l] + Locals64[l].size <= -56
         /\ \A p \in DOMAIN Params64 :
              /\ win64_returns_by_reference(Params64[p].ty) =>
                   /\ Layout64.param[p] = -Bottom[p] /\ Layout64.param[p] \in Int
                   /\ Layout64.param[p] + Params64[p].ty.size <= -56
              /\ ~win64_returns_by_reference(Params64[p].ty) =>
                   /\ Layout64.param[p] = (IF p <= REG_MAX THEN 16 + (p - 1) * 8 ELSE Top(p))
                   /\ Layout64.param[p] \in Int /\ Layout64.param[p] >= 16 /\ (p > 1 => Layout64.param[p] >= 24)
<1> DEFINE base == AlignUp(Bottom[Len(Laid)], 16)
<1>1. /\ Len(Laid) \in Nat /\ Bottom[Len(Laid)] \in Nat /\ Bottom[Len(Laid)] >= 56
  <2>1. Len(Laid) \in Nat /\ Len(Laid) \in 0 .. Len(Laid)
    BY LaidTyped
  <2> QED BY <2>1, BottomsDescend
<1>2. base \in Nat /\ base >= 56
  <2> DEFINE b == Bottom[Len(Laid)]
  <2> HIDE DEF b
  <2>1. b \in Nat /\ b >= 56
    BY <1>1 DEF b
  <2>2. AlignUp(b, 16) \in Nat /\ AlignUp(b, 16) >= b
    BY <2>1, AlignUpTo16
  <2> QED BY <2>1, <2>2 DEF b
<1>3. /\ Layout64.size \in Nat /\ Layout64.size % 16 = 0
      /\ Layout64.spillBase \in Nat /\ Layout64.spillBase >= 56 /\ Layout64.size >= Layout64.spillBase
  <2>1. base + 8 * msCall.spills \in Nat /\ base + 8 * msCall.spills >= base
    BY <1>2, CallTyped
  <2>2. Layout64.spillBase = base /\ Layout64.size = AlignUp(base + 8 * msCall.spills, 16)
    BY DEF Layout64
  <2> HIDE DEF base
  <2>3. /\ AlignUp(base + 8 * msCall.spills, 16) \in Nat /\ AlignUp(base + 8 * msCall.spills, 16) % 16 = 0
        /\ AlignUp(base + 8 * msCall.spills, 16) >= base + 8 * msCall.spills
    BY <2>1, AlignUpTo16
  <2> QED BY <1>2, <2>1, <2>2, <2>3
<1>4. ASSUME NEW l \in DOMAIN Locals64
      PROVE  /\ Layout64.local[l] = -Bottom[Len(Params64) + l] /\ Layout64.local[l] \in Int
             /\ Layout64.local[l] + Locals64[l].size <= -56
  <2>1. Layout64.local[l] = -Bottom[Len(Params64) + l]
    BY DEF Layout64
  <2> DEFINE n == Len(Params64) + l
  <2>2. n \in 1 .. Len(Laid) /\ Laid[n] = Locals64[l] /\ Laid[n].size \in Nat
    BY LaidTyped
  <2>3. n - 1 \in 0 .. Len(Laid) /\ n \in 0 .. Len(Laid)
    BY <1>1, <2>2
  <2> HIDE DEF n
  <2>4. Bottom[n] \in Nat /\ Bottom[n - 1] \in Nat /\ Bottom[n - 1] >= 56 /\ Bottom[n] >= Bottom[n - 1] + Laid[n].size
    BY <2>2, <2>3, BottomsDescend
  <2>5. -Bottom[n] \in Int /\ -Bottom[n] + Laid[n].size <= -56
    BY <2>2, <2>4
  <2> QED BY <2>1, <2>2, <2>5 DEF n
<1>5. ASSUME NEW p \in DOMAIN Params64, win64_returns_by_reference(Params64[p].ty)
      PROVE  /\ Layout64.param[p] = -Bottom[p] /\ Layout64.param[p] \in Int
             /\ Layout64.param[p] + Params64[p].ty.size <= -56
  <2>1. Layout64.param[p] = -Bottom[p]
    BY <1>5 DEF Layout64, ParamOffset
  <2>2. p \in 1 .. Len(Laid) /\ Laid[p] = Params64[p].ty /\ Laid[p].size \in Nat
    <3>1. p \in DOMAIN Laid /\ Laid[p].size \in Nat
      BY CopyLaid
    <3>2. Laid[p] = Params64[p].ty
      BY <1>5, CopyLaid
    <3> QED BY <3>1, <3>2, LaidDomain
  <2>3. p - 1 \in 0 .. Len(Laid) /\ p \in 0 .. Len(Laid)
    BY <1>1, <2>2
  <2>4. Bottom[p] \in Nat /\ Bottom[p - 1] \in Nat /\ Bottom[p - 1] >= 56 /\ Bottom[p] >= Bottom[p - 1] + Laid[p].size
    BY <2>2, <2>3, BottomsDescend
  <2>5. -Bottom[p] \in Int /\ -Bottom[p] + Laid[p].size <= -56
    BY <2>2, <2>4
  <2> QED BY <2>1, <2>2, <2>5
<1>6. ASSUME NEW p \in DOMAIN Params64, ~win64_returns_by_reference(Params64[p].ty)
      PROVE  /\ Layout64.param[p] = (IF p <= REG_MAX THEN 16 + (p - 1) * 8 ELSE Top(p))
             /\ Layout64.param[p] \in Int /\ Layout64.param[p] >= 16 /\ (p > 1 => Layout64.param[p] >= 24)
  <2>1. Layout64.param[p] = (IF p <= REG_MAX THEN 16 + (p - 1) * 8 ELSE Top(p))
    BY <1>6 DEF Layout64, ParamOffset
  <2>2. p \in Nat /\ p >= 1
    BY ParamsTyped, CallTyped
  <2>3. Top(p) \in Int /\ Top(p) >= 48
    <3> DEFINE S == {q \in REG_MAX + 1 .. p - 1 : ~win64_returns_by_reference(Params64[q].ty)}
    <3>1. IsFiniteSet(REG_MAX + 1 .. p - 1)
      BY <2>2, FS_Interval DEF REG_MAX
    <3>2. IsFiniteSet(S)
      BY <3>1, FS_Subset
    <3> HIDE DEF S
    <3>3. Cardinality(S) \in Nat
      BY <3>2, FS_CardinalityType
    <3> QED BY <3>3 DEF Top, S
  <2> QED BY <2>1, <2>2, <2>3 DEF REG_MAX
<1> QED BY <1>3, <1>4, <1>5, <1>6

(* A copy moves every byte of an aggregate and no other. *)
LEMMA MovesAll ==
  ASSUME NEW size \in Nat
  PROVE  Moved(size) = 0 .. size - 1
<1> DEFINE words == size \div 8
           rest == size % 8
           W == {<<8 * w, 8>> : w \in 0 .. words - 1}
           D == IF rest >= 4 THEN {<<8 * words, 4>>} ELSE {}
           H == IF rest % 4 >= 2 THEN {<<8 * words + 4 * (rest \div 4), 2>>} ELSE {}
           B == IF rest % 2 = 1 THEN {<<size - 1, 1>>} ELSE {}
<1>1. Moves(size) = W \cup D \cup H \cup B
  BY DEF Moves
<1>2. words \in Nat /\ rest \in 0 .. 7 /\ size = 8 * words + rest
  OBVIOUS
<1> HIDE DEF words, rest
<1>3. ASSUME NEW m \in Moves(size), NEW x \in m[1] .. m[1] + m[2] - 1
      PROVE  x \in 0 .. size - 1
  <2>1. CASE m \in W
    <3>1. PICK w \in 0 .. words - 1 : m = <<8 * w, 8>>
      BY <2>1
    <3>2. m[1] = 8 * w /\ m[2] = 8
      BY <3>1
    <3> QED BY <1>2, <1>3, <3>1, <3>2
  <2>2. CASE m \in D
    <3>1. rest >= 4 /\ m[1] = 8 * words /\ m[2] = 4
      BY <2>2
    <3> QED BY <1>2, <1>3, <3>1
  <2>3. CASE m \in H
    <3>1. rest % 4 >= 2 /\ m[1] = 8 * words + 4 * (rest \div 4) /\ m[2] = 2
      BY <2>3
    <3> QED BY <1>2, <1>3, <3>1
  <2>4. CASE m \in B
    <3>1. rest % 2 = 1 /\ m[1] = size - 1 /\ m[2] = 1
      BY <2>4
    <3> QED BY <1>2, <1>3, <3>1
  <2> QED BY <1>1, <2>1, <2>2, <2>3, <2>4
<1>4. ASSUME NEW x \in 0 .. size - 1
      PROVE  \E m \in Moves(size) : x \in m[1] .. m[1] + m[2] - 1
  <2> DEFINE w == x \div 8
  <2>1. w \in Nat /\ x \in 8 * w .. 8 * w + 7
    OBVIOUS
  <2> HIDE DEF w
  <2>2. CASE x < 8 * words
    <3>1. w \in 0 .. words - 1
      BY <1>2, <2>1, <2>2
    <3>2. <<8 * w, 8>> \in Moves(size)
      BY <1>1, <3>1
    <3>3. x \in <<8 * w, 8>>[1] .. <<8 * w, 8>>[1] + <<8 * w, 8>>[2] - 1
      BY <2>1
    <3> QED BY <3>2, <3>3
  <2>3. CASE rest >= 4 /\ x >= 8 * words /\ x < 8 * words + 4
    <3>1. <<8 * words, 4>> \in Moves(size)
      BY <1>1, <2>3
    <3>2. x \in <<8 * words, 4>>[1] .. <<8 * words, 4>>[1] + <<8 * words, 4>>[2] - 1
      BY <1>2, <2>3
    <3> QED BY <3>1, <3>2
  <2>4. CASE rest % 4 >= 2 /\ x >= 8 * words + 4 * (rest \div 4) /\ x < 8 * words + 4 * (rest \div 4) + 2
    <3> DEFINE at == 8 * words + 4 * (rest \div 4)
    <3>1. <<at, 2>> \in Moves(size)
      BY <1>1, <2>4
    <3>2. at \in Nat
      BY <1>2
    <3>3. x >= at /\ x < at + 2
      BY <2>4
    <3> HIDE DEF at
    <3>4. x \in <<at, 2>>[1] .. <<at, 2>>[1] + <<at, 2>>[2] - 1
      BY <3>2, <3>3
    <3> QED BY <3>1, <3>4
  <2>5. CASE rest % 2 = 1 /\ x = size - 1
    <3>1. <<size - 1, 1>> \in Moves(size)
      BY <1>1, <2>5
    <3>2. x \in <<size - 1, 1>>[1] .. <<size - 1, 1>>[1] + <<size - 1, 1>>[2] - 1
      BY <2>5
    <3> QED BY <3>1, <3>2
  <2>6. \/ x < 8 * words
        \/ rest >= 4 /\ x >= 8 * words /\ x < 8 * words + 4
        \/ rest % 4 >= 2 /\ x >= 8 * words + 4 * (rest \div 4) /\ x < 8 * words + 4 * (rest \div 4) + 2
        \/ rest % 2 = 1 /\ x = size - 1
    BY <1>2
  <2> QED BY <2>2, <2>3, <2>4, <2>5, <2>6
<1> QED BY <1>3, <1>4 DEF Moved

-----------------------------------------------------------------------------
(* Registers and bytes. *)

LEMMA RegistersApart ==
  /\ \A n \in 1 .. 6 : pool[n] \in Registers /\ pool[n] \notin {"rcx", "rdx", "r8", "r9", "rax", "r10"}
  /\ \A n \in 1 .. 5 : pool[n] \in Preserved
  /\ \A n, m \in 1 .. 6 : pool[n] = pool[m] => n = m
  /\ \A s \in 1 .. 4 : argreg64[s] \in Registers /\ argreg64[s] \in {"rcx", "rdx", "r8", "r9"}
  /\ \A s, t \in 1 .. 4 : argreg64[s] = argreg64[t] => s = t
  /\ argreg64[1] = "rcx"
  /\ {"rax", "r10", "rcx", "rdx"} \subseteq Registers
<1>1. \A n \in 1 .. 6 : n = 1 \/ n = 2 \/ n = 3 \/ n = 4 \/ n = 5 \/ n = 6
  OBVIOUS
<1>2. \A n \in 1 .. 5 : n \in 1 .. 6
  OBVIOUS
<1>3. \A s \in 1 .. 4 : s = 1 \/ s = 2 \/ s = 3 \/ s = 4
  OBVIOUS
<1>4. /\ pool[1] = "rbx" /\ pool[2] = "r12" /\ pool[3] = "r13" /\ pool[4] = "r14" /\ pool[5] = "r15" /\ pool[6] = "r11"
      /\ argreg64[1] = "rcx" /\ argreg64[2] = "rdx" /\ argreg64[3] = "r8" /\ argreg64[4] = "r9"
  BY DEF pool, argreg64
<1>5. \A n \in 1 .. 6 : pool[n] \in Registers
  BY DEF Registers
<1>6. \A n \in 1 .. 5 : pool[n] \in Preserved
  BY DEF Preserved
<1>7. \A s \in 1 .. 4 : argreg64[s] \in Registers
  BY DEF Registers
<1>8. "rax" \in Registers /\ "r10" \in Registers
  BY DEF Registers
<1>9. "rcx" \in Registers /\ "rdx" \in Registers
  BY <1>4, <1>7
<1>10. \A n \in 1 .. 6 : pool[n] \notin {"rcx", "rdx", "r8", "r9", "rax", "r10"}
  BY <1>1, <1>4
<1>11. \A n, m \in 1 .. 6 : pool[n] = pool[m] => n = m
  BY <1>1, <1>4
<1>12. \A s \in 1 .. 4 : argreg64[s] \in {"rcx", "rdx", "r8", "r9"}
  BY <1>3, <1>4
<1>13. \A s, t \in 1 .. 4 : argreg64[s] = argreg64[t] => s = t
  BY <1>3, <1>4
<1> QED BY <1>4, <1>5, <1>6, <1>7, <1>8, <1>9, <1>10, <1>11, <1>12, <1>13

(* Contents of a memory. *)
Byte(m, x) == IF x \in DOMAIN m THEN m[x] ELSE Junk
Word(m, at) == [k \in 0 .. 7 |-> Byte(m, at + k)]

LEMMA Contents ==
  /\ \A x : ReadByte(x) = Byte(mem, x)
  /\ \A x : ReadWord(x) = Word(mem, x)
BY DEF ReadByte, ReadWord, Byte, Word

LEMMA WordKept ==
  ASSUME NEW m, NEW n, NEW at \in Int, \A x \in at .. at + 7 : Byte(n, x) = Byte(m, x)
  PROVE  Word(n, at) = Word(m, at)
<1>1. \A k \in 0 .. 7 : at + k \in at .. at + 7
  OBVIOUS
<1> QED BY <1>1 DEF Word

(* A word whose bytes are known. *)
LEMMA WordIs ==
  ASSUME NEW m, NEW at \in Int, NEW what, NEW x, \A k \in 0 .. 7 : Byte(m, at + k) = <<what, x, k>>
  PROVE  Word(m, at) = Object(what, x)
BY DEF Word, Object

(* What a call determines stays as it is. *)
LEMMA CallerKept ==
  ASSUME msCall' = msCall
  PROVE  /\ TotalAlloc' = TotalAlloc /\ Base' = Base /\ TotalArgs' = TotalArgs
         /\ \A n : Held(n)' = Held(n)
         /\ \A s : Slot(s)' = Slot(s)
         /\ \A a : ValueOf(a)' = ValueOf(a) /\ HomeOf(a)' = HomeOf(a)
<1>1. TotalAlloc' = TotalAlloc /\ TotalArgs' = TotalArgs
  BY ShapeKept DEF TotalAlloc, TotalArgs
<1>2. \A a : ValueOf(a)' = ValueOf(a) /\ HomeOf(a)' = HomeOf(a)
  BY DEF ValueOf, HomeOf
<1>3. \A n : Held(n)' = Held(n)
  BY DEF Held, ValueOf, HomeOf
<1>4. Base' = Base
  BY <1>1 DEF Base
<1> QED BY <1>1, <1>2, <1>3, <1>4 DEF Slot

-----------------------------------------------------------------------------
(* What holds on the way from the call to the result. *)

Callee == {"params", "body", "return", "epilogue"}
Stages == {"call", "args", "prologue", "result", "done"} \cup Callee

(* The stack pointer at each stage, and the argument or parameter reached. *)
Control ==
  /\ msCall \in Win64Calls /\ step \in Stages
  /\ DOMAIN reg = Registers /\ DOMAIN xmm = 0 .. 3 /\ DOMAIN buffer = 0 .. msCall.ret.size - 1
  /\ step = "call" => sp = 0
  /\ step = "args" => sp = Base + 16 /\ nth \in 1 .. Len(msCall.args) + 1
  /\ step = "prologue" => sp = Base + 8
  /\ step \in Callee => rbp = Base /\ sp = Base - Layout64.size /\ frame = Layout64
  /\ step = "params" => nth \in 1 .. Len(Params64) + 1
  /\ step = "body" => nth \in msCall.named + 1 .. Len(msCall.args) + 1
  /\ step = "result" => sp = Base + 16
  /\ step = "done" => sp = 0

(* The return address and the saved registers are there until they are used. *)
Linked ==
  /\ step \in {"prologue"} \cup Callee => Word(mem, Base + 8) = Object("return", 0)
  /\ step \in Callee => /\ Word(mem, Base) = Object("rbp", 0)
                        /\ \A n \in msCall.mask : Word(mem, Base - 8 * n) = Held(n)

(* The registers of the allocator hold what they held: all of them up to the *)
(* callee, those it does not use throughout.                                 *)
PoolKept ==
  /\ step \in {"call", "args"} => reg[pool[6]] = Held(6)
  /\ \A n \in 1 .. 5 : step \in {"return", "epilogue"} => n \in msCall.mask \/ reg[pool[n]] = Held(n)
  /\ \A n \in 1 .. 5 : step \notin {"return", "epilogue"} => reg[pool[n]] = Held(n)

(* The address of the buffer is in its register, then in the first slot. *)
BufferKnown ==
  Hidden64 =>
    /\ step \in {"args", "prologue", "params"} => reg["rcx"] = Address(0)
    /\ step \in {"body", "return"} \/ (step = "params" /\ nth > 1) => Word(mem, Base + 16) = Address(0)

(* The result is where the convention says. *)
ResultIn(word) == \A k \in 0 .. msCall.ret.size - 1 : word[k] = <<"result", 0, k>>
ResultThere ==
  /\ step \in {"epilogue", "result", "done"} /\ Hidden64 => ResultIn(buffer)
  /\ step \in {"epilogue", "result"} /\ msCall.ret.class = "float" => ResultIn(xmm[0])
  /\ step \in {"epilogue", "result"} /\ ~Hidden64 /\ msCall.ret.class \in {"int", "agg"} => ResultIn(reg["rax"])
  /\ step = "done" /\ ~Hidden64 /\ msCall.ret.class # "void" => ResultIn(dst)

ReturnInv == Control /\ Linked /\ PoolKept /\ BufferKnown /\ ResultThere

LEMMA StartsReady ==
  ASSUME InitWin64
  PROVE  ReturnInv
<1>1. Control
  BY DEF InitWin64, Control, Stages, Callee
<1>2. ASSUME NEW n \in 1 .. 6
      PROVE  reg[pool[n]] = Held(n)
  <2>1. PICK m : m = (CHOOSE i \in 1 .. 6 : pool[n] = pool[i])
    OBVIOUS
  <2>2. pool[n] \in Registers /\ \E i \in 1 .. 6 : pool[n] = pool[i]
    BY RegistersApart
  <2>3. reg[pool[n]] = Held(m)
    BY <2>1, <2>2 DEF InitWin64
  <2>4. m \in 1 .. 6 /\ pool[n] = pool[m]
    BY <2>1, <2>2
  <2>5. m = n
    BY <2>4, RegistersApart
  <2> QED BY <2>3, <2>5
<1>3. PoolKept
  BY <1>2 DEF PoolKept, InitWin64
<1> QED BY <1>1, <1>3 DEF ReturnInv, InitWin64, Linked, BufferKnown, ResultThere, Callee

LEMMA ReserveAreaReturns ==
  ASSUME ReturnInv, ReserveArea
  PROVE  ReturnInv'
<1>1. /\ msCall' = msCall /\ step = "call" /\ step' = "args" /\ nth' = 1 /\ sp' = sp - TotalAlloc
      /\ reg' = (IF Hidden64 THEN [reg EXCEPT !["rcx"] = Address(0)] ELSE reg)
      /\ UNCHANGED <<xmm, buffer>>
  BY DEF ReserveArea
<1>2. Base' = Base /\ \A n : Held(n)' = Held(n)
  BY <1>1, CallerKept
<1>3. msCall \in Win64Calls /\ sp = 0 /\ DOMAIN reg = Registers
  BY <1>1 DEF ReturnInv, Control
<1>4. DOMAIN reg' = Registers /\ \A n \in 1 .. 6 : reg'[pool[n]] = reg[pool[n]]
  BY <1>1, <1>3, RegistersApart
<1>5. Control'
  <2>1. sp' = Base + 16
    BY <1>1, <1>3, CallerArea DEF Base
  <2>2. nth' \in 1 .. Len(msCall.args) + 1
    BY <1>1, <1>3, CallTyped
  <2> QED BY <1>1, <1>2, <1>4, <2>1, <2>2 DEF ReturnInv, Control, Stages, Callee
<1>6. PoolKept'
  BY <1>1, <1>2, <1>4 DEF ReturnInv, PoolKept
<1>7. BufferKnown'
  BY <1>1, <1>3, RegistersApart DEF BufferKnown, Hidden64
<1> QED BY <1>1, <1>5, <1>6, <1>7 DEF ReturnInv, Linked, ResultThere, Callee

LEMMA PassArgReturns ==
  ASSUME ReturnInv, PassArg
  PROVE  ReturnInv'
<1> DEFINE pos == nth - 1 + Extra
<1>1. /\ msCall' = msCall /\ step = "args" /\ step' = "args" /\ nth' = nth + 1 /\ sp' = sp
      /\ nth <= Len(msCall.args) /\ buffer' = buffer
  BY DEF PassArg
<1>2. Base' = Base /\ \A n : Held(n)' = Held(n)
  BY <1>1, CallerKept
<1>3. /\ msCall \in Win64Calls /\ DOMAIN reg = Registers /\ DOMAIN xmm = 0 .. 3
      /\ nth \in 1 .. Len(msCall.args) + 1
  BY <1>1 DEF ReturnInv, Control
<1>4. Extra \in 0 .. 1 /\ (Hidden64 <=> Extra = 1) /\ Len(msCall.args) \in Nat
  BY <1>3, ParamsTyped, CallTyped
<1>5. DOMAIN reg' = Registers /\ DOMAIN xmm' = 0 .. 3
  BY <1>3 DEF PassArg
<1>6. \/ pos < REG_MAX /\ \A r \in Registers : r # argreg64[pos + 1] /\ r # "rax" => reg'[r] = reg[r]
      \/ pos >= REG_MAX /\ \A r \in Registers : r # "rax" => reg'[r] = reg[r]
  BY <1>3 DEF PassArg
<1>7. /\ \A n \in 1 .. 6 : reg'[pool[n]] = reg[pool[n]]
      /\ Hidden64 => reg'["rcx"] = reg["rcx"]
  <2>1. CASE pos < REG_MAX
    <3>1. pos + 1 \in 1 .. 4 /\ (Hidden64 => pos + 1 # 1)
      BY <1>3, <1>4, <2>1 DEF REG_MAX
    <3>2. \A r \in Registers : r # argreg64[pos + 1] /\ r # "rax" => reg'[r] = reg[r]
      <4>1. ~(pos >= REG_MAX)
        BY <1>3, <1>4, <2>1 DEF REG_MAX
      <4> QED BY <1>6, <4>1
    <3> DEFINE t == pos + 1
    <3> HIDE DEF t
    <3>3. t \in 1 .. 4 /\ (Hidden64 => t # 1) /\ \A r \in Registers : r # argreg64[t] /\ r # "rax" => reg'[r] = reg[r]
      BY <3>1, <3>2 DEF t
    <3>4. \A n \in 1 .. 6 : reg'[pool[n]] = reg[pool[n]]
      BY <3>3, RegistersApart
    <3>5. t # 1 => argreg64[t] # "rcx"
      <4>1. 1 \in 1 .. 4
        OBVIOUS
      <4> QED BY <3>3, <4>1, RegistersApart
    <3>6. Hidden64 => reg'["rcx"] = reg["rcx"]
      <4>1. t # 1 => reg'["rcx"] = reg["rcx"]
        BY <3>3, <3>5, RegistersApart
      <4> QED BY <3>3, <4>1
    <3> QED BY <3>4, <3>6
  <2>2. CASE ~(pos < REG_MAX)
    <3>1. \A r \in Registers : r # "rax" => reg'[r] = reg[r]
      BY <1>6, <2>2
    <3> QED BY <3>1, RegistersApart
  <2> QED BY <2>1, <2>2
<1>8. Control'
  <2>1. nth' \in 1 .. Len(msCall.args) + 1
    BY <1>1, <1>3, <1>4
  <2> QED BY <1>1, <1>2, <1>5, <2>1 DEF ReturnInv, Control, Stages, Callee
<1>9. PoolKept'
  BY <1>1, <1>2, <1>7 DEF ReturnInv, PoolKept
<1>10. BufferKnown'
  <2>1. Hidden64 => reg["rcx"] = Address(0)
    BY <1>1 DEF ReturnInv, BufferKnown
  <2>2. Hidden64' => Hidden64
    BY <1>1, ShapeKept
  <2> QED BY <1>1, <1>7, <2>1, <2>2 DEF BufferKnown
<1> QED BY <1>1, <1>8, <1>9, <1>10 DEF ReturnInv, Linked, ResultThere, Callee

LEMMA CallTargetReturns ==
  ASSUME ReturnInv, CallTarget
  PROVE  ReturnInv'
<1>1. /\ msCall' = msCall /\ step = "args" /\ step' = "prologue" /\ sp' = sp - 8 /\ UNCHANGED <<xmm, buffer>>
      /\ \A r \in Registers : r # "r10" => reg'[r] = reg[r]
      /\ DOMAIN reg' = DOMAIN reg
  <2>1. DOMAIN reg = Registers
    BY DEF ReturnInv, Control
  <2> QED BY <2>1 DEF CallTarget
<1>2. Base' = Base /\ \A n : Held(n)' = Held(n)
  BY <1>1, CallerKept
<1>3. msCall \in Win64Calls /\ sp = Base + 16 /\ Base \in Int
  BY <1>1, CallerArea DEF ReturnInv, Control
<1>4. Control'
  <2>1. sp' = Base + 8
    BY <1>1, <1>3
  <2> QED BY <1>1, <1>2, <2>1 DEF ReturnInv, Control, Stages, Callee
<1>5. Linked'
  <2>1. ASSUME NEW k \in 0 .. 7
        PROVE  Byte(mem', Base + 8 + k) = <<"return", 0, k>>
    <3>1. sp - 8 = Base + 8
      BY <1>3
    <3> DEFINE at == Base + 8
               place == at .. at + 8 - 1
    <3>2. mem' = [x \in DOMAIN mem \cup place |-> IF x \in place THEN <<"return", 0, x - at>> ELSE mem[x]]
      BY <3>1 DEF CallTarget, Written
    <3>3. PICK x : x = Base + 8 + k
      OBVIOUS
    <3>4. x \in place /\ x - at = k
      BY <1>3, <3>3
    <3> HIDE DEF place, at
    <3>5. Byte(mem', x) = <<"return", 0, k>>
      BY <3>2, <3>4 DEF Byte
    <3> QED BY <3>3, <3>5
  <2>2. Word(mem', Base + 8) = Object("return", 0)
    BY <1>3, <2>1, WordIs
  <2> QED BY <1>1, <1>2, <2>2 DEF Linked, Callee
<1>6. PoolKept'
  BY <1>1, <1>2, RegistersApart DEF ReturnInv, PoolKept
<1>7. BufferKnown'
  <2>1. Hidden64 => reg["rcx"] = Address(0)
    BY <1>1 DEF ReturnInv, BufferKnown
  <2>2. Hidden64' => Hidden64
    BY <1>1, ShapeKept
  <2> QED BY <1>1, <2>1, <2>2, RegistersApart DEF BufferKnown
<1> QED BY <1>1, <1>4, <1>5, <1>6, <1>7 DEF ReturnInv, ResultThere

(* A register holds eight bytes. *)
LEMMA HeldIsWord ==
  ASSUME NEW n
  PROVE  Held(n) = [k \in 0 .. 7 |-> Held(n)[k]]
<1>1. \A a : ValueOf(a) = [k \in 0 .. 7 |-> ValueOf(a)[k]]
  BY DEF ValueOf, Address, Object, Low
<1>2. \A x : Address(x) = [k \in 0 .. 7 |-> Address(x)[k]]
  BY DEF Address, Object
<1>3. Object("reg", n) = [k \in 0 .. 7 |-> Object("reg", n)[k]]
  BY DEF Object
<1>4. \/ \E a : Held(n) = ValueOf(a)
      \/ Held(n) = Address(TARGET)
      \/ Held(n) = Object("reg", n)
  BY DEF Held
<1> QED BY <1>1, <1>2, <1>3, <1>4

(* What the prologue stores, from the return address down and up. *)
LEMMA PrologueStores ==
  ASSUME ReturnInv, Prologue
  PROVE  /\ rbp' = Base /\ sp' = Base - Layout64.size /\ frame' = Layout64
         /\ \A x \in Base + 8 .. Base + 15 : Byte(mem', x) = Byte(mem, x)
         /\ \A x \in Int : x >= Base + 48 => Byte(mem', x) = Byte(mem, x)
         /\ \A k \in 0 .. 7 : Byte(mem', Base + k) = <<"rbp", 0, k>>
         /\ \A n \in msCall.mask : \A k \in 0 .. 7 : Byte(mem', Base - 8 * n + k) = reg[pool[n]][k]
         /\ Variadic64 => \A s \in 1 .. 4 : \A k \in 0 .. 7 : Byte(mem', Slot(s) + k) = reg[argreg64[s]][k]
<1> DEFINE b == rbp'
           top == frame'.local[AllocaBottom]
           a == b + top
           slots == UNION {b - 8 * n .. b - 8 * n + 7 : n \in msCall.mask}
           Own == b .. b + 8 - 1
           Bot == a .. a + 8 - 1
           Home == b + 16 .. b + 16 + 8 * REG_MAX - 1
           m1 == [x \in DOMAIN mem \cup Own |-> IF x \in Own THEN <<"rbp", 0, x - b>> ELSE mem[x]]
           m2 == [x \in DOMAIN m1 \cup slots |->
                   IF x \in slots THEN reg[pool[(b - 1 - x) \div 8 + 1]][(x - b) % 8] ELSE m1[x]]
           m3 == [x \in DOMAIN m2 \cup Bot |-> IF x \in Bot THEN Address(sp')[x - a] ELSE m2[x]]
           m4 == [x \in DOMAIN m3 \cup Home |->
                   IF x \in Home THEN reg[argreg64[(x - (b + 16)) \div 8 + 1]][(x - (b + 16)) % 8] ELSE m3[x]]
<1>1. msCall \in Win64Calls /\ sp = Base + 8
  BY DEF Prologue, ReturnInv, Control
<1>2. b \in Int /\ b = Base /\ frame' = Layout64 /\ sp' = b - Layout64.size
  <2>1. Base \in Int
    BY <1>1, CallerArea
  <2>2. sp - 8 = Base
    BY <1>1, <2>1
  <2> QED BY <2>1, <2>2 DEF Prologue
<1>3. top \in Int /\ top <= -64
  <2>1. top + 8 <= -56 /\ top \in Int
    BY <1>1, <1>2, FrameApart, LocalsTyped
  <2> QED BY <2>1
<1>5. mem' = IF Variadic64 THEN m4 ELSE m3
  BY DEF Prologue, Written
<1>6. \A x : Byte(m1, x) = IF x \in Own THEN <<"rbp", 0, x - b>> ELSE Byte(mem, x)
  <2> HIDE DEF Own, b
  <2> QED BY DEF Byte
<1> HIDE DEF m1
<1>7. \A x : Byte(m2, x) = IF x \in slots THEN reg[pool[(b - 1 - x) \div 8 + 1]][(x - b) % 8] ELSE Byte(m1, x)
  <2> HIDE DEF slots, b
  <2> QED BY DEF Byte
<1> HIDE DEF m2
<1>8. \A x : x \notin Bot => Byte(m3, x) = Byte(m2, x)
  <2> HIDE DEF Bot, a
  <2> QED BY DEF Byte
<1> HIDE DEF m3
<1>9. \A x : Byte(m4, x) = IF x \in Home THEN reg[argreg64[(x - (b + 16)) \div 8 + 1]][(x - (b + 16)) % 8] ELSE Byte(m3, x)
  <2> HIDE DEF Home, b
  <2> QED BY DEF Byte
<1> HIDE DEF m4
<1>10. \A x \in Int : x < b + 16 \/ x >= b + 48 => Byte(mem', x) = Byte(m3, x)
  <2>1. \A x \in Int : x < b + 16 \/ x >= b + 48 => x \notin Home
    BY <1>2 DEF REG_MAX
  <2> HIDE DEF Home, b
  <2> QED BY <1>5, <1>9, <2>1
<1>11. \A x \in Int : x >= b - 56 /\ (x < b + 16 \/ x >= b + 48) => Byte(mem', x) = Byte(m2, x)
  <2>1. \A x \in Int : x >= b - 56 => x \notin Bot
    BY <1>2, <1>3
  <2> HIDE DEF Bot, a, b
  <2> QED BY <1>8, <1>10, <2>1
<1>12. msCall.mask \in SUBSET (1 .. 5)
  BY <1>1, CallTyped
<1>13. ASSUME NEW x \in Int, x >= b, x < b + 16 \/ x >= b + 48
       PROVE  Byte(mem', x) = Byte(m1, x)
  <2>1. x \notin slots
    BY <1>2, <1>12, <1>13
  <2>2. x >= b - 56
    BY <1>2, <1>13
  <2> HIDE DEF slots, b
  <2> QED BY <1>7, <1>11, <1>13, <2>1, <2>2
<1>14. ASSUME NEW x \in Int, x \in b + 8 .. b + 15 \/ x >= b + 48
       PROVE  Byte(mem', x) = Byte(mem, x)
  <2>1. x \notin Own /\ x >= b /\ (x < b + 16 \/ x >= b + 48)
    BY <1>2, <1>14
  <2> HIDE DEF Own, b
  <2> QED BY <1>6, <1>13, <2>1
<1>15. ASSUME NEW k \in 0 .. 7
       PROVE  Byte(mem', b + k) = <<"rbp", 0, k>>
  <2>1. PICK x : x = b + k
    OBVIOUS
  <2>2. x \in Int /\ x \in Own /\ x - b = k /\ x >= b /\ x < b + 16
    BY <1>2, <2>1
  <2>3. Byte(mem', x) = Byte(m1, x)
    BY <1>13, <2>2
  <2>4. Byte(m1, x) = <<"rbp", 0, k>>
    <3> HIDE DEF Own, b
    <3> QED BY <1>6, <2>2
  <2> QED BY <2>1, <2>3, <2>4
<1>16. ASSUME NEW n \in msCall.mask, NEW k \in 0 .. 7
       PROVE  Byte(mem', b - 8 * n + k) = reg[pool[n]][k]
  <2>1. PICK x : x = b - 8 * n + k
    OBVIOUS
  <2>2. n \in 1 .. 5
    BY <1>12
  <2>3. x \in Int /\ x >= b - 56 /\ x < b /\ x \in b - 8 * n .. b - 8 * n + 7
    BY <1>2, <2>1, <2>2
  <2>4. (b - 1 - x) \div 8 + 1 = n /\ (x - b) % 8 = k
    BY <1>2, <2>1, <2>2
  <2>5. x \in slots
    BY <2>3
  <2>6. Byte(mem', x) = Byte(m2, x)
    BY <1>2, <1>11, <2>3
  <2>7. Byte(m2, x) = reg[pool[n]][k]
    <3> HIDE DEF slots, b
    <3> QED BY <1>7, <2>4, <2>5
  <2> QED BY <2>1, <2>6, <2>7
<1>17. ASSUME Variadic64, NEW s \in 1 .. 4, NEW k \in 0 .. 7
       PROVE  Byte(mem', Slot(s) + k) = reg[argreg64[s]][k]
  <2>1. PICK x : x = Slot(s) + k
    OBVIOUS
  <2>2. x = b + 16 + 8 * (s - 1) + k
    BY <1>2, <2>1 DEF Slot
  <2>3. x \in Home /\ (x - (b + 16)) \div 8 + 1 = s /\ (x - (b + 16)) % 8 = k
    BY <1>2, <2>2 DEF REG_MAX
  <2>4. Byte(mem', x) = Byte(m4, x)
    BY <1>5, <1>17
  <2>5. Byte(m4, x) = reg[argreg64[s]][k]
    <3> HIDE DEF Home, b
    <3> QED BY <1>9, <2>3
  <2> QED BY <2>1, <2>4, <2>5
<1> QED BY <1>2, <1>14, <1>15, <1>16, <1>17

LEMMA PrologueReturns ==
  ASSUME ReturnInv, Prologue
  PROVE  ReturnInv'
<1>1. /\ msCall' = msCall /\ step = "prologue" /\ step' = "params" /\ nth' = 1 /\ UNCHANGED <<xmm, buffer>>
      /\ \A r \in Registers : r # "rax" => reg'[r] = reg[r]
      /\ DOMAIN reg' = DOMAIN reg
  <2>1. DOMAIN reg = Registers
    BY DEF ReturnInv, Control
  <2>2. reg' = IF frame'.size >= 4096 THEN [reg EXCEPT !["rax"] = JunkWord] ELSE reg
    BY DEF Prologue
  <2>3. DOMAIN reg' = DOMAIN reg /\ \A r \in Registers : r # "rax" => reg'[r] = reg[r]
    BY <2>1, <2>2
  <2>4. msCall' = msCall /\ step = "prologue" /\ step' = "params" /\ nth' = 1 /\ UNCHANGED <<xmm, buffer>>
    BY DEF Prologue
  <2> QED BY <2>3, <2>4
<1>2. Base' = Base /\ Layout64' = Layout64 /\ Params64' = Params64 /\ \A n : Held(n)' = Held(n)
  BY <1>1, CallerKept, LayoutKept, ShapeKept
<1>3. msCall \in Win64Calls /\ Base \in Int
  BY <1>1, CallerArea DEF ReturnInv, Control
<1>4. Control'
  <2>1. nth' \in 1 .. Len(Params64) + 1
    BY <1>1, <1>3, ParamsTyped, CallTyped
  <2> QED BY <1>1, <1>2, <2>1, PrologueStores DEF ReturnInv, Control, Stages, Callee
<1>5. Linked'
  <2>1. Word(mem', Base) = Object("rbp", 0)
    BY <1>3, PrologueStores, WordIs
  <2>2. Word(mem', Base + 8) = Object("return", 0)
    <3>1. Word(mem, Base + 8) = Object("return", 0)
      BY <1>1 DEF ReturnInv, Linked
    <3>2. Base + 8 \in Int /\ Base + 8 + 7 = Base + 15
      BY <1>3
    <3> QED BY <3>1, <3>2, PrologueStores, WordKept
  <2>3. ASSUME NEW n \in msCall.mask
        PROVE  Word(mem', Base - 8 * n) = Held(n)
    <3>1. n \in 1 .. 5
      BY <1>3, CallTyped
    <3>2. reg[pool[n]] = Held(n)
      BY <1>1, <3>1 DEF ReturnInv, PoolKept
    <3>3. \A k \in 0 .. 7 : Byte(mem', Base - 8 * n + k) = Held(n)[k]
      BY <3>2, PrologueStores
    <3> QED BY <3>3, HeldIsWord DEF Word
  <2> QED BY <1>1, <1>2, <2>1, <2>2, <2>3 DEF Linked
<1>6. PoolKept'
  BY <1>1, <1>2, RegistersApart DEF ReturnInv, PoolKept, Control
<1>7. BufferKnown'
  <2>1. Hidden64 => reg["rcx"] = Address(0)
    BY <1>1 DEF ReturnInv, BufferKnown
  <2>2. Hidden64' => Hidden64
    BY <1>1, ShapeKept
  <2> QED BY <1>1, <2>1, <2>2, RegistersApart DEF BufferKnown
<1> QED BY <1>1, <1>4, <1>5, <1>6, <1>7 DEF ReturnInv, ResultThere

-----------------------------------------------------------------------------
(* What the callee writes is apart from what it comes back to. *)

LEMMA LinkKept ==
  ASSUME ReturnInv, msCall' = msCall, step \in Callee,
         \A x \in Int : x >= Base - 56 /\ x < Base + 16 => Byte(mem', x) = Byte(mem, x)
  PROVE  Linked'
<1>1. Base' = Base /\ \A n : Held(n)' = Held(n)
  BY CallerKept
<1>2. msCall \in Win64Calls /\ Base \in Int
  BY CallerArea DEF ReturnInv, Control
<1>3. ASSUME NEW at \in Int, at >= Base - 56, at <= Base + 8
      PROVE  Word(mem', at) = Word(mem, at)
  <2>1. \A x \in at .. at + 7 : x \in Int /\ x >= Base - 56 /\ x < Base + 16
    BY <1>2, <1>3
  <2>2. \A x \in at .. at + 7 : Byte(mem', x) = Byte(mem, x)
    BY <2>1
  <2> QED BY <2>2, WordKept
<1>4. Word(mem', Base + 8) = Object("return", 0) /\ Word(mem', Base) = Object("rbp", 0)
  <2>1. Word(mem, Base + 8) = Object("return", 0) /\ Word(mem, Base) = Object("rbp", 0)
    BY DEF ReturnInv, Linked
  <2>2. Base \in Int /\ Base >= Base - 56 /\ Base <= Base + 8 /\ Base + 8 \in Int /\ Base + 8 >= Base - 56
        /\ Base + 8 <= Base + 8
    BY <1>2
  <2> QED BY <1>3, <2>1, <2>2
<1>5. ASSUME NEW n \in msCall.mask
      PROVE  Word(mem', Base - 8 * n) = Held(n)
  <2>1. n \in 1 .. 5
    BY <1>2, CallTyped
  <2>2. Base - 8 * n \in Int /\ Base - 8 * n >= Base - 56 /\ Base - 8 * n <= Base + 8
    BY <1>2, <2>1
  <2>3. Word(mem, Base - 8 * n) = Held(n)
    BY DEF ReturnInv, Linked
  <2> QED BY <1>3, <2>2, <2>3
<1> QED BY <1>1, <1>4, <1>5 DEF Linked

LEMMA BufferKept ==
  ASSUME ReturnInv,
         \A x \in Int : x >= Base + 16 /\ x < Base + 24 => Byte(mem', x) = Byte(mem, x)
  PROVE  Word(mem', Base + 16) = Word(mem, Base + 16)
<1>1. Base \in Int
  BY CallerArea DEF ReturnInv, Control
<1>2. Base + 16 \in Int /\ \A x \in Base + 16 .. Base + 16 + 7 : x \in Int /\ x >= Base + 16 /\ x < Base + 24
  BY <1>1
<1> QED BY <1>2, WordKept

(* The pointer to a copied aggregate and the content of a parameter in a     *)
(* register.                                                                 *)
PointerOf(p) == IF p <= REG_MAX THEN reg[argreg64[p]] ELSE Word(mem, Slot(p))
ContentOf(p) == IF Params64[p].ty.class = "float" THEN xmm[p - 1] ELSE reg[argreg64[p]]

LEMMA TakeParamStores ==
  ASSUME ReturnInv, TakeParam, NEW at, at = Base + Layout64.param[nth], NEW ty, ty = Params64[nth].ty
  PROVE  /\ \A x \in Int : x \notin at .. at + ty.size - 1 => Byte(mem', x) = Byte(mem, x)
         /\ win64_returns_by_reference(ty) =>
              \A k \in 0 .. ty.size - 1 : Byte(mem', at + k) = Pointed(PointerOf(nth), k)
         /\ ~win64_returns_by_reference(ty) /\ nth <= REG_MAX =>
              \A k \in 0 .. ty.size - 1 : Byte(mem', at + k) = ContentOf(nth)[k]
         /\ ~win64_returns_by_reference(ty) /\ nth > REG_MAX => mem' = mem
<1>1. step = "params" /\ nth <= Len(Params64) /\ nth \in 1 .. Len(Params64) + 1
  BY DEF TakeParam, ReturnInv, Control
<1>2. msCall \in Win64Calls /\ rbp = Base /\ frame = Layout64
  BY <1>1 DEF ReturnInv, Control, Callee
<1>3. nth \in DOMAIN Params64 /\ nth \in Nat
  BY <1>1, <1>2, ParamsTyped, CallTyped
<1>4. ty \in Types64 /\ ty.size \in Nat /\ at \in Int
  <2>1. Layout64.param[nth] \in Int
    BY <1>2, <1>3, FrameApart
  <2>2. ty \in Types64
    BY <1>2, <1>3, ParamsTyped
  <2>3. Base \in Int
    BY <1>2, CallerArea
  <2> QED BY <2>1, <2>2, <2>3, SmallTypes
<1>5. ParamAt(nth) = at
  BY <1>2 DEF ParamAt
<1> DEFINE place == at .. at + ty.size - 1
<1>6. CASE win64_returns_by_reference(ty)
  <2> DEFINE pointer == IF nth <= REG_MAX THEN reg[argreg64[nth]] ELSE ReadWord(rbp + 48 + (nth - 1 - REG_MAX) * 8)
             copied == {ParamAt(nth) + k : k \in Moved(ty.size)}
  <2>1. pointer = PointerOf(nth)
    <3>1. CASE nth <= REG_MAX
      BY <3>1 DEF PointerOf
    <3>2. CASE ~(nth <= REG_MAX)
      <4>1. rbp + 48 + (nth - 1 - REG_MAX) * 8 = Slot(nth)
        BY <1>2, <1>3, CallerArea DEF Slot, REG_MAX
      <4> QED BY <3>2, <4>1, Contents DEF PointerOf
    <3> QED BY <3>1, <3>2
  <2>2. mem' = [x \in DOMAIN mem \cup copied |->
                 IF x - ParamAt(nth) \in Moved(ty.size) THEN Pointed(pointer, x - ParamAt(nth)) ELSE mem[x]]
    BY <1>6 DEF TakeParam
  <2> HIDE DEF pointer
  <2>3. copied = place
    <3>1. copied = {at + k : k \in 0 .. ty.size - 1}
      BY <1>4, <1>5, MovesAll
    <3>2. {at + k : k \in 0 .. ty.size - 1} = at .. at + ty.size - 1
      <4>1. \A x \in at .. at + ty.size - 1 : x - at \in 0 .. ty.size - 1 /\ at + (x - at) = x
        BY <1>4
      <4>2. \A k \in 0 .. ty.size - 1 : at + k \in at .. at + ty.size - 1
        BY <1>4
      <4> QED BY <4>1, <4>2
    <3> QED BY <3>1, <3>2
  <2>4. mem' = [x \in DOMAIN mem \cup place |->
                 IF x - at \in 0 .. ty.size - 1 THEN Pointed(PointerOf(nth), x - at) ELSE mem[x]]
    <3>1. Moved(ty.size) = 0 .. ty.size - 1
      BY <1>4, MovesAll
    <3> HIDE DEF copied, place
    <3> QED BY <1>5, <2>1, <2>2, <2>3, <3>1
  <2>5. ASSUME NEW x \in Int, x \notin place
        PROVE  Byte(mem', x) = Byte(mem, x)
    <3>1. x - at \notin 0 .. ty.size - 1
      BY <1>4, <2>5
    <3> HIDE DEF place
    <3> QED BY <2>4, <2>5, <3>1 DEF Byte
  <2>6. ASSUME NEW k \in 0 .. ty.size - 1
        PROVE  Byte(mem', at + k) = Pointed(PointerOf(nth), k)
    <3>1. PICK x : x = at + k
      OBVIOUS
    <3>2. x \in place /\ x - at = k
      BY <1>4, <3>1
    <3> HIDE DEF place
    <3>3. Byte(mem', x) = Pointed(PointerOf(nth), k)
      BY <2>4, <3>2 DEF Byte
    <3> QED BY <3>1, <3>3
  <2> QED BY <1>6, <2>5, <2>6
<1>7. CASE ~win64_returns_by_reference(ty) /\ nth <= REG_MAX
  <2>1. mem' = [x \in DOMAIN mem \cup place |-> IF x \in place THEN ContentOf(nth)[x - at] ELSE mem[x]]
    BY <1>3, <1>5, <1>7 DEF TakeParam, Written, ContentOf, REG_MAX
  <2>2. ASSUME NEW x \in Int, x \notin place
        PROVE  Byte(mem', x) = Byte(mem, x)
    <3> HIDE DEF place
    <3> QED BY <2>1, <2>2 DEF Byte
  <2>3. ASSUME NEW k \in 0 .. ty.size - 1
        PROVE  Byte(mem', at + k) = ContentOf(nth)[k]
    <3>1. PICK x : x = at + k
      OBVIOUS
    <3>2. x \in place /\ x - at = k
      BY <1>4, <3>1
    <3> HIDE DEF place
    <3>3. Byte(mem', x) = ContentOf(nth)[k]
      BY <2>1, <3>2 DEF Byte
    <3> QED BY <3>1, <3>3
  <2> QED BY <1>3, <1>7, <2>2, <2>3 DEF REG_MAX
<1>8. CASE ~win64_returns_by_reference(ty) /\ nth > REG_MAX
  <2>1. mem' = mem
    BY <1>3, <1>8 DEF TakeParam, REG_MAX
  <2> QED BY <1>3, <1>8, <2>1 DEF REG_MAX
<1> QED BY <1>3, <1>6, <1>7, <1>8 DEF REG_MAX

(* Where a parameter is: below the saved registers or above the return       *)
(* address, and not in the slot of the first unless it is the first.         *)
LEMMA ParamApart ==
  ASSUME ReturnInv, NEW p \in DOMAIN Params64
  PROVE  /\ p \in Nat /\ p >= 1 /\ Base \in Int /\ Layout64.param[p] \in Int
         /\ Params64[p].ty \in Types64 /\ Params64[p].ty.size \in Nat /\ Params64[p].ty.class # "void"
         /\ \/ Base + Layout64.param[p] + Params64[p].ty.size <= Base - 56
            \/ Base + Layout64.param[p] >= Base + 16
         /\ p > 1 => \/ Base + Layout64.param[p] + Params64[p].ty.size <= Base - 56
                     \/ Base + Layout64.param[p] >= Base + 24
<1>1. msCall \in Win64Calls /\ Base \in Int
  BY CallerArea DEF ReturnInv, Control
<1>2. p \in Nat /\ p >= 1 /\ Params64[p].ty \in Types64 /\ Params64[p].ty.size \in Nat /\ Params64[p].ty.class # "void"
  <2>1. Len(msCall.args) \in Nat /\ msCall.named \in 0 .. Len(msCall.args)
    BY <1>1, CallTyped
  <2>2. Extra \in 0 .. 1 /\ p \in 1 .. msCall.named + Extra
    BY <1>1, ParamsTyped
  <2>3. Params64[p].ty \in Types64 /\ Params64[p].ty.class # "void"
    BY <1>1, ParamsTyped
  <2> QED BY <2>1, <2>2, <2>3, SmallTypes
<1>3. CASE win64_returns_by_reference(Params64[p].ty)
  <2>1. Layout64.param[p] \in Int /\ Layout64.param[p] + Params64[p].ty.size <= -56
    BY <1>1, <1>3, FrameApart
  <2> QED BY <1>1, <1>2, <2>1
<1>4. CASE ~win64_returns_by_reference(Params64[p].ty)
  BY <1>1, <1>2, <1>4, FrameApart
<1> QED BY <1>3, <1>4

LEMMA TakeParamReturns ==
  ASSUME ReturnInv, TakeParam
  PROVE  ReturnInv'
<1>1. /\ msCall' = msCall /\ step = "params" /\ step' = "params" /\ nth' = nth + 1
      /\ UNCHANGED <<sp, rbp, frame, xmm, buffer>> /\ nth <= Len(Params64)
  BY DEF TakeParam
<1>2. /\ Base' = Base /\ Layout64' = Layout64 /\ Params64' = Params64 /\ (Hidden64' <=> Hidden64)
      /\ \A n : Held(n)' = Held(n)
  BY <1>1, CallerKept, LayoutKept, ShapeKept
<1>3. /\ msCall \in Win64Calls /\ Base \in Int /\ DOMAIN reg = Registers
      /\ nth \in DOMAIN Params64 /\ nth \in 1 .. Len(Params64) /\ Len(Params64) \in Nat
  <2>1. /\ msCall \in Win64Calls /\ DOMAIN reg = Registers /\ nth \in 1 .. Len(Params64) + 1
    BY <1>1 DEF ReturnInv, Control
  <2>2. msCall.named \in Nat
    <3>1. Len(msCall.args) \in Nat /\ msCall.named \in 0 .. Len(msCall.args)
      BY <2>1, CallTyped
    <3> QED BY <3>1
  <2>3. /\ Extra \in 0 .. 1 /\ Len(Params64) = msCall.named + Extra
        /\ DOMAIN Params64 = 1 .. msCall.named + Extra
    BY <2>1, ParamsTyped
  <2>4. Len(Params64) \in Nat /\ nth \in 1 .. Len(Params64) /\ nth \in DOMAIN Params64
    BY <1>1, <2>1, <2>2, <2>3
  <2> QED BY <2>1, <2>4, CallerArea
<1>4. DOMAIN reg' = Registers /\ \A r \in Registers : r # "r10" /\ r # "rax" => reg'[r] = reg[r]
  BY <1>3 DEF TakeParam
<1> DEFINE at == Base + Layout64.param[nth]
           ty == Params64[nth].ty
<1>5. /\ \A x \in Int : x \notin at .. at + ty.size - 1 => Byte(mem', x) = Byte(mem, x)
      /\ ~win64_returns_by_reference(ty) /\ nth <= REG_MAX =>
           \A k \in 0 .. ty.size - 1 : Byte(mem', at + k) = ContentOf(nth)[k]
  BY TakeParamStores
<1>6. /\ at \in Int /\ ty.size \in Nat
      /\ at + ty.size <= Base - 56 \/ at >= Base + 16
      /\ nth > 1 => at + ty.size <= Base - 56 \/ at >= Base + 24
  BY <1>3, ParamApart
<1>7. Control'
  <2>1. nth' \in 1 .. Len(Params64) + 1
    BY <1>1, <1>3
  <2> QED BY <1>1, <1>2, <1>4, <2>1 DEF ReturnInv, Control, Stages, Callee
<1>8. Linked'
  <2>1. \A x \in Int : x >= Base - 56 /\ x < Base + 16 => Byte(mem', x) = Byte(mem, x)
    <3> HIDE DEF at, ty
    <3> QED BY <1>3, <1>5, <1>6
  <2> QED BY <1>1, <2>1, LinkKept DEF Callee
<1>9. PoolKept'
  BY <1>1, <1>2, <1>4, RegistersApart DEF ReturnInv, PoolKept
<1>10. ASSUME Hidden64
       PROVE  Word(mem', Base + 16) = Address(0)
  <2>1. CASE nth > 1
    <3>1. \A x \in Int : x >= Base + 16 /\ x < Base + 24 => Byte(mem', x) = Byte(mem, x)
      <4> HIDE DEF at, ty
      <4> QED BY <1>3, <1>5, <1>6, <2>1
    <3>2. Word(mem, Base + 16) = Address(0)
      BY <1>1, <1>10, <2>1 DEF ReturnInv, BufferKnown
    <3> QED BY <3>1, <3>2, BufferKept
  <2>2. CASE ~(nth > 1)
    <3>1. nth = 1
      BY <1>3, <2>2
    <3>2. Params64[1] = [arg |-> 0, ty |-> PointerType]
      BY <1>3, <1>10, ParamsTyped
    <3>3. /\ ty = PointerType /\ ty.size = 8 /\ ty.class = "int" /\ ~win64_returns_by_reference(ty)
      BY <3>1, <3>2 DEF PointerType, win64_returns_by_reference
    <3>4. at = Base + 16
      <4>1. Layout64.param[1] = 16 + (1 - 1) * 8
        <5>1. Layout64.param[1] = ParamOffset(1)
          BY <1>3, <3>1, Zenon DEF Layout64
        <5>2. ParamOffset(1) = IF 1 <= REG_MAX THEN 16 + (1 - 1) * 8 ELSE Top(1)
          BY <3>2, <3>3 DEF ParamOffset
        <5> QED BY <5>1, <5>2 DEF REG_MAX
      <4> QED BY <3>1, <4>1
    <3>5. ContentOf(1) = Address(0)
      <4>1. reg["rcx"] = Address(0)
        BY <1>1, <1>10 DEF ReturnInv, BufferKnown
      <4> QED BY <3>1, <3>3, <4>1, RegistersApart DEF ContentOf
    <3>6. \A k \in 0 .. 7 : Byte(mem', Base + 16 + k) = Address(0)[k]
      <4>1. \A k \in 0 .. ty.size - 1 : Byte(mem', at + k) = ContentOf(nth)[k]
        BY <1>5, <3>1, <3>3 DEF REG_MAX
      <4> QED BY <3>1, <3>3, <3>4, <3>5, <4>1
    <3> QED BY <3>6 DEF Word, Address, Object
  <2> QED BY <2>1, <2>2
<1>11. BufferKnown'
  <2>1. Hidden64 => reg'["rcx"] = Address(0)
    BY <1>1, <1>4, RegistersApart DEF ReturnInv, BufferKnown
  <2> QED BY <1>1, <1>2, <1>10, <2>1 DEF BufferKnown
<1> QED BY <1>1, <1>7, <1>8, <1>9, <1>11 DEF ReturnInv, ResultThere

-----------------------------------------------------------------------------
(* The list of unnamed arguments. *)

(* Where it is, below the saved registers. *)
VaList == Base + Layout64.local[VaArea64]

LEMMA VaListApart ==
  ASSUME ReturnInv, Variadic64
  PROVE  VaList \in Int /\ VaList + 8 <= Base - 56 /\ Base \in Int
<1>1. msCall \in Win64Calls /\ Base \in Int
  BY CallerArea DEF ReturnInv, Control
<1>2. VaArea64 \in DOMAIN Locals64 /\ Locals64[VaArea64].size = 8
  BY <1>1, LocalsTyped
<1>3. Layout64.local[VaArea64] \in Int /\ Layout64.local[VaArea64] + 8 <= -56
  BY <1>1, <1>2, FrameApart
<1> QED BY <1>1, <1>3 DEF VaList

(* A step that stores an address there, and nothing else. *)
VaListSet(x) ==
  /\ \A y \in Int : y \notin VaList .. VaList + 7 => Byte(mem', y) = Byte(mem, y)
  /\ Word(mem', VaList) = Address(x)

LEMMA VaListStored ==
  ASSUME NEW x, NEW at \in Int, mem' = Written(mem, at, 8, LAMBDA k : Address(x)[k]), at = VaList
  PROVE  VaListSet(x)
<1> DEFINE place == at .. at + 8 - 1
<1>1. mem' = [y \in DOMAIN mem \cup place |-> IF y \in place THEN Address(x)[y - at] ELSE mem[y]]
  BY DEF Written
<1>2. place = VaList .. VaList + 7
  OBVIOUS
<1>3. ASSUME NEW y \in Int, y \notin place
      PROVE  Byte(mem', y) = Byte(mem, y)
  <2> HIDE DEF place
  <2> QED BY <1>1, <1>3 DEF Byte
<1>4. ASSUME NEW k \in 0 .. 7
      PROVE  Byte(mem', at + k) = Address(x)[k]
  <2>1. PICK y : y = at + k
    OBVIOUS
  <2>2. y \in place /\ y - at = k
    BY <2>1
  <2> HIDE DEF place
  <2>3. Byte(mem', y) = Address(x)[k]
    BY <1>1, <2>2 DEF Byte
  <2> QED BY <2>1, <2>3
<1>5. Word(mem', at) = Address(x)
  BY <1>4 DEF Word, Address, Object
<1> QED BY <1>2, <1>3, <1>5 DEF VaListSet

LEMMA StartVaListStores ==
  ASSUME ReturnInv, StartVaList
  PROVE  IF Variadic64 THEN VaListSet(Slot(Len(Params64) + 1)) ELSE mem' = mem
<1>1. step = "params" /\ rbp = Base /\ frame = Layout64 /\ msCall \in Win64Calls
  BY DEF ReturnInv, Control, StartVaList, Callee
<1>2. CASE Variadic64
  <2>1. LocalAt(VaArea64) = VaList /\ VaList \in Int
    BY <1>1, <1>2, VaListApart DEF LocalAt, VaList
  <2>2. rbp + 16 + Len(Params64) * 8 = Slot(Len(Params64) + 1)
    BY <1>1, CallerArea, ParamsTyped, CallTyped DEF Slot
  <2> DEFINE x == rbp + 16 + Len(Params64) * 8
             at == LocalAt(VaArea64)
  <2>3. mem' = Written(mem, at, 8, LAMBDA k : Address(x)[k])
    BY <1>2 DEF StartVaList
  <2> HIDE DEF x, at
  <2>4. VaListSet(x)
    <3>1. at \in Int /\ at = VaList
      BY <2>1 DEF at
    <3> QED BY <2>3, <3>1, VaListStored
  <2> QED BY <1>2, <2>2, <2>4 DEF x
<1>3. CASE ~Variadic64
  BY <1>3 DEF StartVaList
<1> QED BY <1>2, <1>3

LEMMA StartVaListReturns ==
  ASSUME ReturnInv, StartVaList
  PROVE  ReturnInv'
<1>1. /\ msCall' = msCall /\ step = "params" /\ step' = "body" /\ nth' = msCall.named + 1
      /\ UNCHANGED <<sp, rbp, frame, xmm, buffer>> /\ nth = Len(Params64) + 1
      /\ \A r \in Registers : r # "rax" => reg'[r] = reg[r]
      /\ DOMAIN reg' = DOMAIN reg
  <2>1. DOMAIN reg = Registers
    BY DEF ReturnInv, Control
  <2> QED BY <2>1 DEF StartVaList
<1>2. /\ Base' = Base /\ Layout64' = Layout64 /\ Params64' = Params64 /\ (Hidden64' <=> Hidden64)
      /\ \A n : Held(n)' = Held(n)
  BY <1>1, CallerKept, LayoutKept, ShapeKept
<1>3. msCall \in Win64Calls /\ Base \in Int
  BY CallerArea DEF ReturnInv, Control
<1>4. \A x \in Int : x >= Base - 56 => Byte(mem', x) = Byte(mem, x)
  <2>1. CASE Variadic64
    <3>1. VaListSet(Slot(Len(Params64) + 1))
      BY <2>1, StartVaListStores
    <3>2. \A x \in Int : x >= Base - 56 => x \notin VaList .. VaList + 7
      BY <2>1, VaListApart
    <3> QED BY <3>1, <3>2 DEF VaListSet
  <2>2. CASE ~Variadic64
    BY <2>2, StartVaListStores
  <2> QED BY <2>1, <2>2
<1>5. Control'
  <2>1. nth' \in msCall.named + 1 .. Len(msCall.args) + 1
    BY <1>1, <1>3, CallTyped
  <2> QED BY <1>1, <1>2, <2>1 DEF ReturnInv, Control, Stages, Callee
<1>6. Linked'
  BY <1>1, <1>4, LinkKept DEF Callee
<1>7. PoolKept'
  BY <1>1, <1>2, RegistersApart DEF ReturnInv, PoolKept, Control
<1>8. BufferKnown'
  <2>1. ASSUME Hidden64
        PROVE  Word(mem', Base + 16) = Address(0)
    <3>1. Extra = 1 /\ nth > 1
      BY <1>1, <1>3, <2>1, ParamsTyped, CallTyped
    <3>2. Word(mem, Base + 16) = Address(0)
      BY <1>1, <2>1, <3>1 DEF ReturnInv, BufferKnown
    <3>3. \A x \in Int : x >= Base + 16 /\ x < Base + 24 => Byte(mem', x) = Byte(mem, x)
      BY <1>3, <1>4
    <3> QED BY <3>2, <3>3, BufferKept
  <2> QED BY <1>1, <1>2, <2>1 DEF BufferKnown
<1> QED BY <1>1, <1>5, <1>6, <1>7, <1>8 DEF ReturnInv, ResultThere

(* There are arguments to look for only when the call is variadic. *)
LEMMA UnnamedOnly ==
  ASSUME ReturnInv, step = "body", nth <= Len(msCall.args)
  PROVE  Variadic64 /\ nth \in msCall.named + 1 .. Len(msCall.args)
<1>1. msCall \in Win64Calls /\ nth \in msCall.named + 1 .. Len(msCall.args) + 1
  BY DEF ReturnInv, Control
<1>2. /\ msCall.named \in Nat /\ Len(msCall.args) \in Nat
      /\ ~msCall.variadic => msCall.named = Len(msCall.args)
  BY <1>1, CallTyped
<1>3. msCall.named # Len(msCall.args) /\ nth \in msCall.named + 1 .. Len(msCall.args)
  BY <1>1, <1>2
<1> QED BY <1>2, <1>3 DEF Variadic64

LEMMA VaArgStores ==
  ASSUME ReturnInv, VaArg64
  PROVE  Variadic64 /\ VaListSet(Byte(mem, VaList)[2] + 8)
<1>1. step = "body" /\ rbp = Base /\ frame = Layout64 /\ nth <= Len(msCall.args)
  BY DEF ReturnInv, Control, VaArg64, Callee
<1>2. Variadic64
  BY <1>1, UnnamedOnly
<1>3. LocalAt(VaArea64) = VaList /\ VaList \in Int
  BY <1>1, <1>2, VaListApart DEF LocalAt, VaList
<1> DEFINE at == LocalAt(VaArea64)
           x == ReadByte(at)[2]
<1>4. mem' = Written(mem, at, 8, LAMBDA k : Address(x + 8)[k])
  BY DEF VaArg64
<1>5. x = Byte(mem, VaList)[2]
  BY <1>3, Contents
<1> HIDE DEF at, x
<1>6. at \in Int /\ at = VaList
  BY <1>3 DEF at
<1>7. VaListSet(x + 8)
  BY <1>4, <1>6, VaListStored
<1> QED BY <1>2, <1>5, <1>7

LEMMA VaArgReturns ==
  ASSUME ReturnInv, VaArg64
  PROVE  ReturnInv'
<1>1. /\ msCall' = msCall /\ step = "body" /\ step' = "body" /\ nth' = nth + 1
      /\ UNCHANGED <<sp, rbp, frame, reg, xmm, buffer>> /\ nth <= Len(msCall.args)
  BY DEF VaArg64
<1>2. /\ Base' = Base /\ Layout64' = Layout64 /\ Params64' = Params64 /\ (Hidden64' <=> Hidden64)
      /\ \A n : Held(n)' = Held(n)
  BY <1>1, CallerKept, LayoutKept, ShapeKept
<1>3. msCall \in Win64Calls /\ Base \in Int
  BY CallerArea DEF ReturnInv, Control
<1>4. \A x \in Int : x >= Base - 56 => Byte(mem', x) = Byte(mem, x)
  <2>1. Variadic64 /\ VaListSet(Byte(mem, VaList)[2] + 8)
    BY VaArgStores
  <2>2. \A x \in Int : x >= Base - 56 => x \notin VaList .. VaList + 7
    BY <2>1, VaListApart
  <2> QED BY <2>1, <2>2 DEF VaListSet
<1>5. Control'
  <2>1. nth' \in msCall.named + 1 .. Len(msCall.args) + 1
    BY <1>1, <1>3, CallTyped, UnnamedOnly
  <2> QED BY <1>1, <1>2, <2>1 DEF ReturnInv, Control, Stages, Callee
<1>6. Linked'
  BY <1>1, <1>4, LinkKept DEF Callee
<1>7. PoolKept'
  BY <1>1, <1>2 DEF ReturnInv, PoolKept
<1>8. BufferKnown'
  <2>1. ASSUME Hidden64
        PROVE  Word(mem', Base + 16) = Address(0)
    <3>1. Word(mem, Base + 16) = Address(0)
      BY <1>1, <2>1 DEF ReturnInv, BufferKnown
    <3>2. \A x \in Int : x >= Base + 16 /\ x < Base + 24 => Byte(mem', x) = Byte(mem, x)
      BY <1>3, <1>4
    <3> QED BY <3>1, <3>2, BufferKept
  <2> QED BY <1>1, <1>2, <2>1 DEF BufferKnown
<1> QED BY <1>1, <1>5, <1>6, <1>7, <1>8 DEF ReturnInv, ResultThere

(* The body assigns to variables, parameters and spill slots only. *)
LEMMA BodyStores ==
  ASSUME ReturnInv, Body64
  PROVE  /\ \A x \in Int : x >= Base - 56 /\ x < Base + 16 => Byte(mem', x) = Byte(mem, x)
         /\ Hidden64 => \A x \in Int : x >= Base + 16 /\ x < Base + 24 => Byte(mem', x) = Byte(mem, x)
<1> DEFINE P == {ParamAt(p) .. ParamAt(p) + Params64[p].ty.size - 1 : p \in 1 + Extra .. Len(Params64)}
           L == {LocalAt(l) .. LocalAt(l) + Locals64[l].size - 1 : l \in DOMAIN Locals64}
           S == rbp - frame.size .. rbp - frame.spillBase - 1
           assigned == UNION (P \cup L \cup {S})
<1>1. step = "body" /\ rbp = Base /\ frame = Layout64 /\ msCall \in Win64Calls /\ Base \in Int
  BY CallerArea DEF ReturnInv, Control, Body64, Callee
<1>2. \A x : x \notin assigned => Byte(mem', x) = Byte(mem, x)
  <2>1. mem' = [x \in DOMAIN mem \cup assigned |-> IF x \in assigned THEN Junk ELSE mem[x]]
    BY DEF Body64
  <2> HIDE DEF assigned
  <2> QED BY <2>1 DEF Byte
<1>3. ASSUME NEW x \in Int, x >= Base - 56, x < Base + 24, x >= Base + 16 => Hidden64
      PROVE  x \notin assigned
  <2>1. ASSUME NEW p \in 1 + Extra .. Len(Params64)
        PROVE  x \notin ParamAt(p) .. ParamAt(p) + Params64[p].ty.size - 1
    <3>1. /\ p \in DOMAIN Params64 /\ Extra \in 0 .. 1 /\ (Hidden64 <=> Extra = 1)
      BY <1>1, ParamsTyped, CallTyped
    <3>2. ParamAt(p) = Base + Layout64.param[p]
      BY <1>1 DEF ParamAt
    <3> DEFINE at == Base + Layout64.param[p]
               size == Params64[p].ty.size
    <3>3. /\ at \in Int /\ size \in Nat /\ p \in Nat
          /\ at + size <= Base - 56 \/ at >= Base + 16
          /\ p > 1 => at + size <= Base - 56 \/ at >= Base + 24
      BY <3>1, ParamApart
    <3>4. Hidden64 => p > 1
      BY <3>1, <3>3
    <3> HIDE DEF at, size
    <3>5. x \notin at .. at + size - 1
      <4>1. CASE at + size <= Base - 56
        BY <1>1, <1>3, <3>3, <4>1
      <4>2. CASE at >= Base + 24
        BY <1>1, <1>3, <3>3, <4>2
      <4>3. CASE at >= Base + 16 /\ ~(p > 1)
        <5>1. ~(x >= Base + 16)
          BY <1>3, <3>4, <4>3
        <5> QED BY <1>1, <1>3, <3>3, <4>3, <5>1
      <4> QED BY <3>3, <4>1, <4>2, <4>3
    <3> QED BY <3>2, <3>5 DEF at, size
  <2>2. ASSUME NEW l \in DOMAIN Locals64
        PROVE  x \notin LocalAt(l) .. LocalAt(l) + Locals64[l].size - 1
    <3>1. LocalAt(l) = Base + Layout64.local[l]
      BY <1>1 DEF LocalAt
    <3>2. Layout64.local[l] \in Int /\ Locals64[l].size \in Nat /\ Layout64.local[l] + Locals64[l].size <= -56
      BY <1>1, FrameApart, LocalsTyped
    <3> QED BY <1>1, <1>3, <3>1, <3>2
  <2>3. x \notin S
    <3>1. Layout64.size \in Nat /\ Layout64.spillBase \in Nat /\ Layout64.spillBase >= 56
      BY <1>1, FrameApart
    <3> QED BY <1>1, <1>3, <3>1
  <2> HIDE DEF S
  <2> QED BY <2>1, <2>2, <2>3
<1> HIDE DEF assigned
<1>4. \A x \in Int : x >= Base - 56 /\ x < Base + 16 => x < Base + 24 /\ ~(x >= Base + 16)
  BY <1>1
<1>5. \A x \in Int : x >= Base + 16 /\ x < Base + 24 => x >= Base - 56
  BY <1>1
<1> QED BY <1>2, <1>3, <1>4, <1>5

LEMMA BodyReturns ==
  ASSUME ReturnInv, Body64
  PROVE  ReturnInv'
<1>1. /\ msCall' = msCall /\ step = "body" /\ step' = "return"
      /\ UNCHANGED <<sp, rbp, frame, buffer>>
      /\ xmm' = [n \in 0 .. 3 |-> JunkWord]
      /\ reg' = [r \in Registers |-> IF r \in Preserved \ {pool[n] : n \in msCall.mask} THEN reg[r] ELSE JunkWord]
  BY DEF Body64
<1>2. /\ Base' = Base /\ Layout64' = Layout64 /\ Params64' = Params64 /\ (Hidden64' <=> Hidden64)
      /\ \A n : Held(n)' = Held(n)
  BY <1>1, CallerKept, LayoutKept, ShapeKept
<1>3. msCall \in Win64Calls /\ msCall.mask \in SUBSET (1 .. 5)
  BY CallTyped DEF ReturnInv, Control
<1>4. Control'
  <2>1. DOMAIN reg' = Registers /\ DOMAIN xmm' = 0 .. 3
    BY <1>1
  <2>2. UNCHANGED <<msCall, sp, rbp, frame, buffer>> /\ step = "body" /\ step' = "return"
    BY <1>1
  <2> QED BY <1>2, <2>1, <2>2 DEF ReturnInv, Control, Stages, Callee
<1>5. Linked'
  BY <1>1, BodyStores, LinkKept DEF Callee
<1>6. PoolKept'
  <2>1. ASSUME NEW n \in 1 .. 5, n \notin msCall.mask
        PROVE  reg'[pool[n]] = Held(n)
    <3>1. n \in 1 .. 6 /\ msCall.mask \in SUBSET (1 .. 6)
      BY <1>3
    <3>2. pool[n] \in Registers /\ pool[n] \in Preserved \ {pool[m] : m \in msCall.mask}
      BY <2>1, <3>1, RegistersApart
    <3>3. reg'[pool[n]] = reg[pool[n]]
      BY <1>1, <3>2
    <3>4. reg[pool[n]] = Held(n)
      BY <1>1 DEF ReturnInv, PoolKept
    <3> QED BY <3>3, <3>4
  <2>2. step' = "return" /\ msCall' = msCall
    BY <1>1
  <2> QED BY <1>2, <2>1, <2>2 DEF PoolKept
<1>7. BufferKnown'
  <2>1. ASSUME Hidden64
        PROVE  Word(mem', Base + 16) = Address(0)
    <3>1. Word(mem, Base + 16) = Address(0)
      BY <1>1, <2>1 DEF ReturnInv, BufferKnown
    <3> QED BY <2>1, <3>1, BodyStores, BufferKept
  <2>2. step' = "return"
    BY <1>1
  <2> QED BY <1>2, <2>1, <2>2 DEF BufferKnown
<1>8. ResultThere'
  <2>1. step' = "return"
    BY <1>1
  <2> QED BY <2>1 DEF ResultThere
<1> QED BY <1>4, <1>5, <1>6, <1>7, <1>8 DEF ReturnInv

(* The first bytes of the result. *)
LEMMA ResultBytes ==
  ASSUME NEW size \in Nat, size <= 8
  PROVE  \A k \in 0 .. size - 1 : Low(Object("result", 0), size)[k] = <<"result", 0, k>>
<1>1. \A k \in 0 .. size - 1 : k \in 0 .. 7 /\ k < size
  OBVIOUS
<1> QED BY <1>1 DEF Low, Object

LEMMA EmitReturnReturns ==
  ASSUME ReturnInv, EmitReturn
  PROVE  ReturnInv'
<1> DEFINE ty == msCall.ret
           value == Low(Object("result", 0), ty.size)
           pointer == ReadWord(ParamAt(1))
<1>1. /\ msCall' = msCall /\ step = "return" /\ step' = "epilogue"
      /\ UNCHANGED <<sp, rbp, frame, mem>>
  BY DEF EmitReturn
<1>2. /\ Base' = Base /\ Layout64' = Layout64 /\ Params64' = Params64 /\ (Hidden64' <=> Hidden64)
      /\ \A n : Held(n)' = Held(n)
  BY <1>1, CallerKept, LayoutKept, ShapeKept
<1>3. /\ msCall \in Win64Calls /\ ty \in Types64 /\ rbp = Base /\ frame = Layout64
      /\ DOMAIN reg = Registers /\ DOMAIN xmm = 0 .. 3 /\ DOMAIN buffer = 0 .. ty.size - 1
  BY <1>1, CallTyped DEF ReturnInv, Control, Callee
<1>4. /\ ty.size \in Nat /\ ty.class \in {"int", "float", "agg", "void"}
      /\ Hidden64 <=> win64_returns_by_reference(ty)
      /\ Hidden64 => ty.class = "agg"
      /\ ty.class = "void" \/ Hidden64 \/ ty.size \in 1 .. 8
  BY <1>3, SmallTypes DEF Hidden64, win64_returns_by_reference
<1>5. ty.class # "void" /\ ~Hidden64 => ResultIn(value)
  <2>1. ASSUME ty.class # "void", ~Hidden64
        PROVE  ResultIn(value)
    <3>1. ty.size \in Nat /\ ty.size <= 8
      BY <1>4, <2>1
    <3> QED BY <3>1, ResultBytes DEF ResultIn
  <2> QED BY <2>1
<1>6. \/ /\ Hidden64
         /\ buffer' = [k \in DOMAIN buffer |->
                        IF pointer = Address(0) /\ k \in Moved(ty.size) THEN Pointed(Address(RESULT), k) ELSE buffer[k]]
         /\ reg' = [reg EXCEPT !["r10"] = pointer, !["rax"] = pointer, !["rdx"] = JunkWord]
         /\ xmm' = xmm
      \/ ty.class = "float" /\ xmm' = [xmm EXCEPT ![0] = value] /\ UNCHANGED <<reg, buffer>>
      \/ (ty.class = "int" \/ (ty.class = "agg" /\ ~Hidden64)) /\ reg' = [reg EXCEPT !["rax"] = value] /\ UNCHANGED <<xmm, buffer>>
      \/ ty.class = "void" /\ UNCHANGED <<reg, xmm, buffer>>
  BY <1>4 DEF EmitReturn
<1> HIDE DEF value, pointer
<1>7. /\ DOMAIN reg' = Registers /\ DOMAIN xmm' = 0 .. 3 /\ DOMAIN buffer' = 0 .. ty.size - 1
      /\ \A r \in Registers : r \notin {"r10", "rax", "rdx"} => reg'[r] = reg[r]
  <2>1. DOMAIN reg' = Registers /\ \A r \in Registers : r \notin {"r10", "rax", "rdx"} => reg'[r] = reg[r]
    BY <1>3, <1>6
  <2>2. DOMAIN xmm' = 0 .. 3
    BY <1>3, <1>6
  <2>3. DOMAIN buffer' = DOMAIN buffer
    BY <1>6
  <2> QED BY <1>3, <2>1, <2>2, <2>3
<1>8. Control'
  BY <1>1, <1>2, <1>7 DEF ReturnInv, Control, Stages, Callee
<1>9. Linked'
  BY <1>1, LinkKept DEF Callee
<1>10. PoolKept'
  BY <1>1, <1>2, <1>7, RegistersApart DEF ReturnInv, PoolKept
<1>11. Hidden64 => ResultIn(buffer')
  <2> SUFFICES ASSUME Hidden64 PROVE ResultIn(buffer')
    OBVIOUS
  <2>1. Params64[1] = [arg |-> 0, ty |-> PointerType] /\ 1 \in DOMAIN Params64
    BY <1>3, ParamsTyped, CallTyped
  <2>2. ~win64_returns_by_reference(Params64[1].ty)
    BY <2>1 DEF PointerType, win64_returns_by_reference
  <2>3. Layout64.param[1] = 16
    <3>1. Layout64.param[1] = (IF 1 <= REG_MAX THEN 16 + (1 - 1) * 8 ELSE Top(1))
      <4> DEFINE p == 1
      <4>1. p \in DOMAIN Params64 /\ ~win64_returns_by_reference(Params64[p].ty)
        BY <2>1, <2>2
      <4> HIDE DEF p
      <4>2. Layout64.param[p] = (IF p <= REG_MAX THEN 16 + (p - 1) * 8 ELSE Top(p))
        BY <1>3, <4>1, FrameApart
      <4> QED BY <4>2 DEF p
    <3> QED BY <3>1 DEF REG_MAX
  <2>4. ParamAt(1) = Base + 16
    BY <1>3, <2>3 DEF ParamAt
  <2>5. pointer = Address(0)
    BY <1>1, <2>4, Contents DEF ReturnInv, BufferKnown, pointer
  <2>6. buffer' = [k \in DOMAIN buffer |->
                    IF pointer = Address(0) /\ k \in Moved(ty.size) THEN Pointed(Address(RESULT), k) ELSE buffer[k]]
    BY <1>4, <1>6
  <2>7. Moved(ty.size) = 0 .. ty.size - 1
    BY <1>4, MovesAll
  <2>8. \A k : Pointed(Address(RESULT), k) = <<"result", 0, k>>
    BY DEF Pointed, Address, Object, RESULT
  <2>9. \A k \in 0 .. ty.size - 1 : buffer'[k] = <<"result", 0, k>>
    BY <1>3, <2>5, <2>6, <2>7, <2>8
  <2> QED BY <2>9 DEF ResultIn
<1>12. ty.class = "float" => ResultIn(xmm'[0])
  <2>1. ASSUME ty.class = "float"
        PROVE  ResultIn(xmm'[0])
    <3>1. ~Hidden64
      BY <1>4, <2>1
    <3>2. xmm' = [xmm EXCEPT ![0] = value]
      BY <1>6, <2>1, <3>1
    <3>3. xmm'[0] = value
      BY <1>3, <3>2
    <3> QED BY <1>5, <2>1, <3>1, <3>3
  <2> QED BY <2>1
<1>13. ~Hidden64 /\ ty.class \in {"int", "agg"} => ResultIn(reg'["rax"])
  <2>1. ASSUME ~Hidden64, ty.class \in {"int", "agg"}
        PROVE  ResultIn(reg'["rax"])
    <3>1. reg' = [reg EXCEPT !["rax"] = value]
      BY <1>6, <2>1
    <3>2. reg'["rax"] = value
      BY <1>3, <3>1, RegistersApart
    <3> QED BY <1>5, <2>1, <3>2
  <2> QED BY <2>1
<1>14. ResultThere'
  <2>1. \A w : ResultIn(w)' <=> ResultIn(w)
    BY <1>1 DEF ResultIn
  <2>2. ResultIn(buffer)' <=> ResultIn(buffer')
    BY <1>1 DEF ResultIn
  <2>3. ResultIn(xmm[0])' <=> ResultIn(xmm'[0])
    BY <1>1 DEF ResultIn
  <2>4. ResultIn(reg["rax"])' <=> ResultIn(reg'["rax"])
    BY <1>1 DEF ResultIn
  <2> QED BY <1>1, <1>2, <1>11, <1>12, <1>13, <2>2, <2>3, <2>4 DEF ResultThere
<1> QED BY <1>1, <1>8, <1>9, <1>10, <1>14 DEF ReturnInv, BufferKnown

LEMMA EpilogueReturns ==
  ASSUME ReturnInv, Epilogue
  PROVE  ReturnInv'
<1>1. /\ msCall' = msCall /\ step = "epilogue" /\ UNCHANGED <<xmm, buffer>> /\ sp' = rbp + 16
      /\ reg' = [r \in Registers |->
                  IF \E n \in msCall.mask : r = pool[n]
                  THEN ReadWord(rbp - 8 * (CHOOSE n \in msCall.mask : r = pool[n])) ELSE reg[r]]
  BY DEF Epilogue
<1>2. /\ Base' = Base /\ Layout64' = Layout64 /\ Params64' = Params64 /\ (Hidden64' <=> Hidden64)
      /\ \A n : Held(n)' = Held(n)
  BY <1>1, CallerKept, LayoutKept, ShapeKept
<1>3. msCall \in Win64Calls /\ msCall.mask \in SUBSET (1 .. 5) /\ rbp = Base
  BY <1>1, CallTyped DEF ReturnInv, Control, Callee
<1>4. step' = "result"
  <2>1. Word(mem, Base + 8) = Object("return", 0) /\ Word(mem, Base) = Object("rbp", 0)
    BY <1>1 DEF ReturnInv, Linked, Callee
  <2> QED BY <1>3, <2>1, Contents DEF Epilogue
<1>5. ASSUME NEW n \in 1 .. 5
      PROVE  reg'[pool[n]] = Held(n)
  <2>1. n \in 1 .. 6 /\ \A m \in msCall.mask : m \in 1 .. 6
    BY <1>3
  <2>2. CASE n \in msCall.mask
    <3>1. PICK m : m = (CHOOSE i \in msCall.mask : pool[n] = pool[i])
      OBVIOUS
    <3>2. m \in msCall.mask /\ pool[n] = pool[m]
      BY <2>2, <3>1
    <3>3. m = n
      BY <2>1, <3>2, RegistersApart
    <3>4. pool[n] \in Registers /\ \E i \in msCall.mask : pool[n] = pool[i]
      BY <2>1, <2>2, RegistersApart
    <3>5. reg'[pool[n]] = ReadWord(rbp - 8 * m)
      BY <1>1, <3>1, <3>4
    <3>6. Word(mem, Base - 8 * n) = Held(n)
      BY <1>1, <2>2 DEF ReturnInv, Linked, Callee
    <3> QED BY <1>3, <3>3, <3>5, <3>6, Contents
  <2>3. CASE n \notin msCall.mask
    <3>1. pool[n] \in Registers /\ ~\E i \in msCall.mask : pool[n] = pool[i]
      BY <2>1, <2>3, RegistersApart
    <3>2. reg'[pool[n]] = reg[pool[n]]
      BY <1>1, <3>1
    <3>3. reg[pool[n]] = Held(n)
      BY <1>1, <2>3 DEF ReturnInv, PoolKept
    <3> QED BY <3>2, <3>3
  <2> QED BY <2>2, <2>3
<1>6. reg'["rax"] = reg["rax"]
  <2>1. \A n \in msCall.mask : n \in 1 .. 6
    BY <1>3
  <2>2. "rax" \in Registers /\ ~\E n \in msCall.mask : "rax" = pool[n]
    BY <2>1, RegistersApart
  <2> QED BY <1>1, <2>2
<1>7. Control'
  <2>1. DOMAIN reg' = Registers
    BY <1>1
  <2>2. sp' = Base + 16 /\ msCall' = msCall /\ UNCHANGED <<xmm, buffer>>
    BY <1>1, <1>3
  <2> QED BY <1>2, <1>4, <2>1, <2>2 DEF ReturnInv, Control, Stages, Callee
<1>8. PoolKept'
  BY <1>2, <1>4, <1>5 DEF PoolKept
<1>9. ResultThere'
  <2>1. step = "epilogue" /\ msCall' = msCall /\ UNCHANGED <<xmm, buffer>>
    BY <1>1
  <2>2. /\ ResultIn(buffer)' <=> ResultIn(buffer)
        /\ ResultIn(xmm[0])' <=> ResultIn(xmm[0])
        /\ ResultIn(reg["rax"])' <=> ResultIn(reg["rax"])
    BY <1>6, <2>1 DEF ResultIn
  <2> QED BY <1>2, <1>4, <2>1, <2>2 DEF ReturnInv, ResultThere
<1>10. Linked' /\ BufferKnown'
  BY <1>4 DEF Linked, BufferKnown, Callee
<1> QED BY <1>7, <1>8, <1>9, <1>10 DEF ReturnInv

LEMMA TakeResultReturns ==
  ASSUME ReturnInv, TakeResult
  PROVE  ReturnInv'
<1>1. /\ msCall' = msCall /\ step = "result" /\ step' = "done" /\ UNCHANGED <<reg, xmm, buffer>>
      /\ sp' = sp + TotalAlloc
  BY DEF TakeResult
<1>2. /\ Base' = Base /\ (Hidden64' <=> Hidden64) /\ \A n : Held(n)' = Held(n)
  BY <1>1, CallerKept, ShapeKept
<1>3. msCall \in Win64Calls /\ msCall.ret \in Types64 /\ sp = Base + 16
  BY <1>1, CallTyped DEF ReturnInv, Control
<1>4. Control'
  <2>1. sp' = 0
    <3>1. TotalAlloc \in Nat /\ Base = -TotalAlloc - 16
      BY <1>3, CallerArea DEF Base
    <3> QED BY <1>1, <1>3, <3>1
  <2> QED BY <1>1, <1>2, <2>1 DEF ReturnInv, Control, Stages, Callee
<1>5. PoolKept'
  BY <1>1, <1>2 DEF ReturnInv, PoolKept
<1>6. ASSUME ~Hidden64, msCall.ret.class # "void"
      PROVE  ResultIn(dst')
  <2>1. msCall.ret.class \in {"int", "float", "agg"}
    BY <1>3, <1>6, SmallTypes
  <2>2. CASE msCall.ret.class = "float"
    <3>1. dst' = xmm[0]
      BY <1>6, <2>2 DEF TakeResult
    <3>2. ResultIn(xmm[0])
      BY <1>1, <2>2 DEF ReturnInv, ResultThere
    <3> QED BY <3>1, <3>2
  <2>3. CASE msCall.ret.class # "float"
    <3>1. dst' = reg["rax"]
      BY <1>6, <2>3 DEF TakeResult
    <3>2. ResultIn(reg["rax"])
      BY <1>1, <1>6, <2>1, <2>3 DEF ReturnInv, ResultThere
    <3> QED BY <3>1, <3>2
  <2> QED BY <2>2, <2>3
<1>7. ResultThere'
  <2>1. /\ ResultIn(buffer)' <=> ResultIn(buffer)
        /\ ResultIn(dst)' <=> ResultIn(dst')
    BY <1>1 DEF ResultIn
  <2> QED BY <1>1, <1>2, <1>6, <2>1 DEF ReturnInv, ResultThere
<1> QED BY <1>1, <1>4, <1>5, <1>7 DEF ReturnInv, Linked, BufferKnown, Callee

(* Every step keeps the invariant. *)
LEMMA ReturnStep ==
  ASSUME ReturnInv, [NextWin64]_win64Vars
  PROVE  ReturnInv'
<1>1. CASE UNCHANGED win64Vars
  <2>1. msCall' = msCall
    BY <1>1 DEF win64Vars
  <2>2. /\ Base' = Base /\ Layout64' = Layout64 /\ Params64' = Params64 /\ (Hidden64' <=> Hidden64)
        /\ \A n : Held(n)' = Held(n)
    BY <2>1, CallerKept, LayoutKept, ShapeKept
  <2>3. UNCHANGED <<msCall, step, nth, reg, xmm, mem, sp, rbp, frame, buffer, dst>>
    BY <1>1 DEF win64Vars
  <2>4. Control'
    BY <2>2, <2>3 DEF ReturnInv, Control, Stages, Callee
  <2>5. Linked' /\ PoolKept'
    BY <2>2, <2>3 DEF ReturnInv, Linked, PoolKept
  <2>6. BufferKnown'
    BY <2>2, <2>3 DEF ReturnInv, BufferKnown
  <2>7. ResultThere'
    <3>1. /\ ResultIn(buffer)' <=> ResultIn(buffer)
          /\ ResultIn(xmm[0])' <=> ResultIn(xmm[0])
          /\ ResultIn(reg["rax"])' <=> ResultIn(reg["rax"])
          /\ ResultIn(dst)' <=> ResultIn(dst)
      BY <2>3 DEF ResultIn
    <3> QED BY <2>2, <2>3, <3>1 DEF ReturnInv, ResultThere
  <2> QED BY <2>4, <2>5, <2>6, <2>7 DEF ReturnInv
<1>2. CASE ~UNCHANGED win64Vars
  <2>1. NextWin64 /\ ~Returned
    BY <1>2 DEF Returned
  <2> QED BY <2>1, ReserveAreaReturns, PassArgReturns, CallTargetReturns, PrologueReturns, TakeParamReturns,
             StartVaListReturns, VaArgReturns, BodyReturns, EmitReturnReturns, EpilogueReturns, TakeResultReturns
          DEF NextWin64
<1> QED BY <1>1, <1>2

(* For every call the caller goes on as if the call had been an instruction: *)
(* win64_emit_return and win64_emit_epilogue undo what win64_emit_prologue    *)
(* did, whatever the body assigned in between.                               *)
THEOREM CallsAlwaysReturn == Win64Spec => []Win64Returns
<1>1. InitWin64 => ReturnInv
  BY StartsReady
<1>2. ReturnInv /\ [NextWin64]_win64Vars => ReturnInv'
  BY ReturnStep
<1>3. ReturnInv => Win64Returns
  <2> SUFFICES ASSUME ReturnInv PROVE Win64Returns
    OBVIOUS
  <2>1. step # "lost"
    BY DEF ReturnInv, Control, Stages, Callee
  <2>2. step = "body" => sp % 16 = 0
    <3>1. step = "body" => sp = Base - Layout64.size
      BY DEF ReturnInv, Control, Callee
    <3>2. /\ Base \in Int /\ Base % 16 = 0
          /\ Layout64.size \in Nat /\ Layout64.size % 16 = 0
      BY CallerArea, FrameApart DEF ReturnInv, Control
    <3>3. \A b \in Int : \A s \in Nat : b % 16 = 0 /\ s % 16 = 0 => (b - s) % 16 = 0
      OBVIOUS
    <3>4. (Base - Layout64.size) % 16 = 0
      BY <3>2, <3>3
    <3> QED BY <3>1, <3>4
  <2>3. step = "done" => sp = 0 /\ \A n \in 1 .. 5 : reg[pool[n]] = Held(n)
    BY DEF ReturnInv, Control, PoolKept
  <2>4. ASSUME step = "done", Hidden64
        PROVE  \A k \in DOMAIN buffer : buffer[k] = <<"result", 0, k>>
    BY <2>4 DEF ReturnInv, Control, ResultThere, ResultIn
  <2>5. ASSUME step = "done", ~Hidden64, msCall.ret.class # "void"
        PROVE  \A k \in 0 .. msCall.ret.size - 1 : dst[k] = <<"result", 0, k>>
    BY <2>5 DEF ReturnInv, ResultThere, ResultIn
  <2> QED BY <2>1, <2>2, <2>3, <2>4, <2>5 DEF Win64Returns
<1> QED BY <1>1, <1>2, <1>3, PTL DEF Win64Spec

-----------------------------------------------------------------------------
(* What the callee finds. *)

(* The word that stands for an argument: its value, or the address of a      *)
(* large aggregate.                                                          *)
PassedWord(a) ==
  IF win64_returns_by_reference(msCall.args[a]) THEN Address(a) ELSE Low(Object("arg", a), msCall.args[a].size)

(* An argument's register, or its slot. *)
InRegister(a) ==
  /\ reg[argreg64[a + Extra]] = PassedWord(a)
  /\ msCall.args[a].class = "float" => xmm[(a + Extra) - 1] = PassedWord(a)
InSlot(a) == Word(mem, Slot(a + Extra)) = PassedWord(a)

(* Until the callee takes them the arguments are in registers; those at      *)
(* later positions, and all unnamed ones once the callee has stored its      *)
(* registers, are in slots.                                                  *)
InRegisters ==
  \A a \in DOMAIN msCall.args :
    /\ a + Extra <= 4
    /\ (step = "args" /\ a < nth) \/ step \in {"prologue", "params"}
    => InRegister(a)
InSlots ==
  \A a \in DOMAIN msCall.args :
    /\ a + Extra > 4 \/ (a > msCall.named /\ step \in {"params", "body"})
    /\ (step = "args" /\ a < nth) \/ step \in {"prologue", "params", "body"}
    => InSlot(a)

(* A parameter holds its argument. *)
ParamByte(p, k) == IF Params64[p].arg = 0 THEN Address(0)[k] ELSE <<"arg", Params64[p].arg, k>>
Holds(p) ==
  \A k \in 0 .. Params64[p].ty.size - 1 : Byte(mem, Base + Layout64.param[p] + k) = ParamByte(p, k)

(* Those that are copied, from a register or through a pointer. *)
IsCopied(p) == win64_returns_by_reference(Params64[p].ty) \/ p <= 4
Taken64 ==
  \A p \in DOMAIN Params64 :
    IsCopied(p) /\ ((step = "params" /\ p < nth) \/ step = "body") => Holds(p)

(* va_arg is at the slot of the next unnamed argument, those before it were  *)
(* found.                                                                    *)
Found ==
  /\ step \in {"call", "args", "prologue", "params"} => vaArgs = << >>
  /\ step = "body" =>
       /\ vaArgs = [n \in 1 .. nth - msCall.named - 1 |-> vaArgs[n]]
       /\ \A n \in 1 .. nth - msCall.named - 1 :
            ~win64_returns_by_reference(msCall.args[msCall.named + n]) => vaArgs[n] = Value(msCall.named + n)
       /\ Variadic64 => Word(mem, VaList) = Address(Slot(nth + Extra))

(* The function called. *)
TargetKnown == step = "prologue" /\ msCall.target # 0 => reg["r10"] = Address(TARGET)

DeliverInv == InRegisters /\ InSlots /\ Taken64 /\ Found /\ TargetKnown

LEMMA PassedKept ==
  ASSUME msCall' = msCall
  PROVE  /\ \A a : PassedWord(a)' = PassedWord(a) /\ Value(a)' = Value(a)
         /\ \A p : (IsCopied(p)' <=> IsCopied(p)) /\ \A k : ParamByte(p, k)' = ParamByte(p, k)
         /\ VaList' = VaList
<1>1. \A a : PassedWord(a)' = PassedWord(a) /\ Value(a)' = Value(a)
  BY DEF PassedWord, Value
<1>2. \A p : (IsCopied(p)' <=> IsCopied(p)) /\ \A k : ParamByte(p, k)' = ParamByte(p, k)
  BY ShapeKept DEF IsCopied, ParamByte
<1>3. VaArea64' = VaArea64
  BY DEF VaArea64, AllocaBottom
<1>4. VaList' = VaList
  BY <1>3, LayoutKept, CallerKept DEF VaList
<1> QED BY <1>1, <1>2, <1>4

(* The bytes of the word that stands for an argument. *)
LEMMA PassedBytes ==
  ASSUME msCall \in Win64Calls, NEW a \in DOMAIN msCall.args
  PROVE  /\ PassedWord(a) = [k \in 0 .. 7 |-> PassedWord(a)[k]]
         /\ win64_returns_by_reference(msCall.args[a]) =>
              \A k : Pointed(PassedWord(a), k) = <<"arg", a, k>>
         /\ ~win64_returns_by_reference(msCall.args[a]) =>
              /\ msCall.args[a].size \in 1 .. 8
              /\ \A k \in 0 .. msCall.args[a].size - 1 : k \in 0 .. 7 /\ PassedWord(a)[k] = <<"arg", a, k>>
<1>1. PassedWord(a) = [k \in 0 .. 7 |-> PassedWord(a)[k]]
  BY DEF PassedWord, Address, Object, Low
<1>2. a \in Nat /\ a >= 1 /\ msCall.args[a] \in Types64 /\ msCall.args[a].class # "void"
  BY CallTyped
<1>3. ASSUME win64_returns_by_reference(msCall.args[a]), NEW k
      PROVE  Pointed(PassedWord(a), k) = <<"arg", a, k>>
  <2>1. PassedWord(a) = Address(a)
    BY <1>3 DEF PassedWord
  <2>2. Address(a)[0][2] = a
    BY DEF Address, Object
  <2>3. a # RESULT /\ a # 0
    BY <1>2 DEF RESULT
  <2> QED BY <2>1, <2>2, <2>3 DEF Pointed
<1>4. ASSUME ~win64_returns_by_reference(msCall.args[a])
      PROVE  /\ msCall.args[a].size \in 1 .. 8
             /\ \A k \in 0 .. msCall.args[a].size - 1 : k \in 0 .. 7 /\ PassedWord(a)[k] = <<"arg", a, k>>
  <2>1. msCall.args[a].size \in 1 .. 8
    BY <1>2, <1>4, SmallTypes
  <2>2. \A k \in 0 .. msCall.args[a].size - 1 : k \in 0 .. 7 /\ k < msCall.args[a].size
    BY <2>1
  <2> QED BY <1>4, <2>1, <2>2 DEF PassedWord, Low, Object
<1> QED BY <1>1, <1>3, <1>4

(* What the caller loads is that word. *)
LEMMA LoadsPassed ==
  ASSUME ReturnInv, step = "args", NEW a \in DOMAIN msCall.args
  PROVE  LoadedArg(a) = PassedWord(a)
<1>1. /\ msCall \in Win64Calls /\ a \in Nat /\ a >= 1 /\ msCall.first \in Nat /\ msCall.first >= 1
      /\ \A b \in DOMAIN msCall.args : b \in Nat /\ b >= 1
  <2>1. msCall \in Win64Calls
    BY DEF ReturnInv, Control
  <2>2. /\ Len(msCall.args) \in Nat /\ DOMAIN msCall.args = 1 .. Len(msCall.args)
        /\ msCall.first \in Nat \ {0}
    BY <2>1, CallTyped
  <2> QED BY <2>1, <2>2
<1>2. msCall.args[a] \in Types64 /\ msCall.args[a].class # "void"
  BY <1>1, CallTyped
<1>3. LoadVreg(a) = ValueOf(a)
  <2>1. CASE HomeOf(a) <= 6
    <3>1. \A b \in DOMAIN msCall.args : HomeOf(b) = HomeOf(a) => b = a
      BY <1>1, <2>1 DEF HomeOf
    <3>2. HomeOf(a) \in 1 .. 6
      BY <1>1, <2>1 DEF HomeOf
    <3>3. (CHOOSE b \in DOMAIN msCall.args : HomeOf(b) = HomeOf(a)) = a
      BY <3>1
    <3>4. Held(HomeOf(a)) = ValueOf(a)
      BY <3>3 DEF Held
    <3>5. reg[pool[HomeOf(a)]] = Held(HomeOf(a))
      <4>1. CASE HomeOf(a) = 6
        BY <4>1 DEF ReturnInv, PoolKept
      <4>2. CASE HomeOf(a) # 6
        <5>1. HomeOf(a) \in 1 .. 5
          BY <3>2, <4>2
        <5> QED BY <5>1 DEF ReturnInv, PoolKept
      <4> QED BY <4>1, <4>2
    <3> QED BY <2>1, <3>4, <3>5 DEF LoadVreg
  <2>2. CASE ~(HomeOf(a) <= 6)
    BY <2>2 DEF LoadVreg
  <2> QED BY <2>1, <2>2
<1>4. CASE msCall.args[a].class = "agg"
  <2>1. LoadVreg(a) = Address(a)
    BY <1>3, <1>4 DEF ValueOf
  <2>2. \A k : Pointed(Address(a), k) = <<"arg", a, k>>
    <3>1. Address(a)[0][2] = a
      BY DEF Address, Object
    <3>2. a # RESULT /\ a # 0
      BY <1>1 DEF RESULT
    <3> QED BY <3>1, <3>2 DEF Pointed
  <2>3. CASE msCall.args[a].size \in {1, 2, 4, 8}
    <3>1. [k \in 0 .. 7 |-> Pointed(Address(a), k)] = Object("arg", a)
      BY <2>2 DEF Object
    <3>2. LoadedArg(a) = Low([k \in 0 .. 7 |-> Pointed(Address(a), k)], msCall.args[a].size)
      BY <1>4, <2>1, <2>3 DEF LoadedArg
    <3> QED BY <2>3, <3>1, <3>2 DEF PassedWord, win64_returns_by_reference
  <2>4. CASE msCall.args[a].size \notin {1, 2, 4, 8}
    BY <1>4, <2>1, <2>4 DEF LoadedArg, PassedWord, win64_returns_by_reference
  <2> QED BY <2>3, <2>4
<1>5. CASE msCall.args[a].class # "agg"
  BY <1>3, <1>5 DEF LoadedArg, PassedWord, ValueOf, win64_returns_by_reference
<1> QED BY <1>4, <1>5

LEMMA StartsEmpty ==
  ASSUME InitWin64
  PROVE  DeliverInv
BY DEF InitWin64, DeliverInv, InRegisters, InSlots, Taken64, Found, TargetKnown

LEMMA ReserveAreaDelivers ==
  ASSUME ReturnInv, DeliverInv, ReserveArea
  PROVE  DeliverInv'
<1>1. msCall' = msCall /\ step = "call" /\ step' = "args" /\ nth' = 1 /\ vaArgs' = vaArgs
  BY DEF ReserveArea
<1>2. \A a \in DOMAIN msCall.args : ~(a < nth')
  BY <1>1, CallTyped DEF ReturnInv, Control
<1>3. InRegisters' /\ InSlots'
  BY <1>1, <1>2 DEF InRegisters, InSlots
<1>4. Found'
  BY <1>1 DEF DeliverInv, Found
<1> QED BY <1>1, <1>3, <1>4 DEF DeliverInv, Taken64, TargetKnown

(* The slots are apart. *)
LEMMA SlotsApart ==
  ASSUME msCall \in Win64Calls, NEW s \in Int, NEW t \in Int
  PROVE  /\ Slot(s) \in Int
         /\ s # t => \A x \in Slot(s) .. Slot(s) + 7 : x \in Int /\ x \notin Slot(t) .. Slot(t) + 7
         /\ s > 4 => \A x \in Slot(s) .. Slot(s) + 7 : x \in Int /\ x >= Base + 48
         /\ s > 0 => \A x \in Slot(s) .. Slot(s) + 7 : x \in Int /\ x >= Base + 16
<1>1. Base \in Int
  BY CallerArea
<1> QED BY <1>1 DEF Slot

LEMMA PassArgDelivers ==
  ASSUME ReturnInv, DeliverInv, PassArg
  PROVE  DeliverInv'
<1>1. /\ msCall' = msCall /\ step = "args" /\ step' = "args" /\ nth' = nth + 1 /\ vaArgs' = vaArgs
      /\ nth <= Len(msCall.args) /\ sp = Base + 16
  BY DEF PassArg, ReturnInv, Control
<1>2. /\ msCall \in Win64Calls /\ DOMAIN reg = Registers /\ DOMAIN xmm = 0 .. 3 /\ Base \in Int
      /\ nth \in 1 .. Len(msCall.args) + 1
  BY <1>1, CallerArea DEF ReturnInv, Control
<1>3. /\ Extra \in 0 .. 1 /\ Len(msCall.args) \in Nat /\ DOMAIN msCall.args = 1 .. Len(msCall.args)
  BY <1>2, ParamsTyped, CallTyped
<1>4. nth \in DOMAIN msCall.args /\ nth \in Nat
  BY <1>1, <1>2, <1>3
<1>5. LoadedArg(nth) = PassedWord(nth)
  BY <1>1, <1>4, LoadsPassed
<1>6. /\ Extra' = Extra /\ Base' = Base /\ \A s : Slot(s)' = Slot(s) /\ \A a : PassedWord(a)' = PassedWord(a)
  BY <1>1, ShapeKept, CallerKept, PassedKept
<1> DEFINE s == nth + Extra
<1>7. s \in Nat /\ s >= 1 /\ nth - 1 + Extra = s - 1 /\ (s - 1) + 1 = s
  BY <1>3, <1>4
<1>8. CASE s <= 4
  <2>1. /\ reg' = [r \in Registers |->
                    IF r = argreg64[s] \/ (r = "rax" /\ ThroughRax(nth)) THEN PassedWord(nth) ELSE reg[r]]
        /\ xmm' = IF msCall.args[nth].class = "float" THEN [xmm EXCEPT ![s - 1] = PassedWord(nth)] ELSE xmm
        /\ mem' = mem
    <3>1. s - 1 < REG_MAX /\ ~(s - 1 >= REG_MAX)
      BY <1>7, <1>8 DEF REG_MAX
    <3> HIDE DEF s
    <3> QED BY <1>5, <1>7, <3>1 DEF PassArg
  <2>2. ASSUME NEW a \in DOMAIN msCall.args, a + Extra <= 4, a < nth'
        PROVE  InRegister(a)'
    <3>1. a \in Nat /\ a >= 1 /\ a + Extra \in 1 .. 4 /\ s \in 1 .. 4
      <4>1. a \in Nat /\ a >= 1
        BY <1>3, <2>2
      <4>2. a + Extra \in 1 .. 4
        BY <1>3, <2>2, <4>1
      <4>3. s \in 1 .. 4
        <5> HIDE DEF s
        <5> QED BY <1>7, <1>8
      <4> QED BY <4>1, <4>2, <4>3
    <3>2. CASE a = nth
      <4>1. reg'[argreg64[s]] = PassedWord(nth)
        BY <2>1, <3>1, RegistersApart
      <4>2. msCall.args[nth].class = "float" => xmm'[s - 1] = PassedWord(nth)
        <5>1. s - 1 \in 0 .. 3
          BY <3>1
        <5> HIDE DEF s
        <5> QED BY <1>2, <2>1, <5>1
      <4>3. /\ reg'[argreg64[a + Extra]] = PassedWord(a)
            /\ msCall.args[a].class = "float" => xmm'[(a + Extra) - 1] = PassedWord(a)
        <5>1. s = a + Extra
          BY <3>2
        <5> HIDE DEF s
        <5> QED BY <3>2, <4>1, <4>2, <5>1
      <4> QED BY <1>1, <1>6, <4>3 DEF InRegister
    <3>3. CASE a # nth
      <4>1. a < nth /\ a + Extra # s
        BY <1>1, <1>3, <1>4, <2>2, <3>1, <3>3
      <4>2. InRegister(a)
        BY <1>1, <2>2, <4>1 DEF DeliverInv, InRegisters
      <4> DEFINE t == a + Extra
      <4>3. t \in 1 .. 4 /\ t # s /\ t - 1 # s - 1 /\ t - 1 \in 0 .. 3
        BY <1>7, <3>1, <4>1
      <4> HIDE DEF s, t
      <4>4. argreg64[t] \in Registers /\ argreg64[t] # argreg64[s] /\ argreg64[t] # "rax"
        BY <3>1, <4>3, RegistersApart
      <4>5. reg'[argreg64[t]] = reg[argreg64[t]]
        BY <2>1, <4>4
      <4>6. xmm'[t - 1] = xmm[t - 1]
        BY <1>2, <2>1, <4>3
      <4>7. /\ reg'[argreg64[a + Extra]] = PassedWord(a)
            /\ msCall.args[a].class = "float" => xmm'[(a + Extra) - 1] = PassedWord(a)
        <5>1. t = a + Extra
          BY DEF t
        <5>2. reg[argreg64[t]] = PassedWord(a) /\ (msCall.args[a].class = "float" => xmm[t - 1] = PassedWord(a))
          BY <4>2, <5>1 DEF InRegister
        <5> QED BY <4>5, <4>6, <5>1, <5>2
      <4> QED BY <1>1, <1>6, <4>7 DEF InRegister
    <3> QED BY <3>2, <3>3
  <2>3. ASSUME NEW a \in DOMAIN msCall.args, a + Extra > 4, a < nth'
        PROVE  InSlot(a)'
    <3>1. a < nth
      BY <1>1, <1>3, <1>4, <1>8, <2>3
    <3>2. InSlot(a)
      BY <1>1, <2>3, <3>1 DEF DeliverInv, InSlots
    <3> QED BY <1>6, <2>1, <3>2 DEF InSlot
  <2> QED BY <1>1, <1>3, <1>6, <2>2, <2>3 DEF DeliverInv, InRegisters, InSlots, Taken64, Found, TargetKnown
<1>9. CASE s > 4
  <2> DEFINE at == Slot(s)
             place == at .. at + 8 - 1
  <2>1. /\ reg' = [reg EXCEPT !["rax"] = PassedWord(nth)] /\ xmm' = xmm
        /\ mem' = [x \in DOMAIN mem \cup place |-> IF x \in place THEN PassedWord(nth)[x - at] ELSE mem[x]]
    <3>1. ~(s - 1 < REG_MAX) /\ s - 1 >= REG_MAX
      BY <1>7, <1>9 DEF REG_MAX
    <3>2. sp + SHADOW + ((s - 1) - REG_MAX) * 8 = at
      <4>1. sp = Base + 16 /\ Base \in Int /\ s \in Int
        BY <1>1, <1>2, <1>7
      <4> HIDE DEF s
      <4> QED BY <4>1 DEF SHADOW, REG_MAX, Slot
    <3> HIDE DEF s, at
    <3> QED BY <1>5, <1>7, <3>1, <3>2 DEF PassArg, Written
  <2>2. at \in Int
    BY <1>2, <1>7 DEF Slot
  <2>3. \A x : x \notin place => Byte(mem', x) = Byte(mem, x)
    <3> HIDE DEF place, at
    <3> QED BY <2>1 DEF Byte
  <2>4. ASSUME NEW k \in 0 .. 7
        PROVE  Byte(mem', at + k) = PassedWord(nth)[k]
    <3>1. PICK x : x = at + k
      OBVIOUS
    <3> HIDE DEF at
    <3>2. x \in place /\ x - at = k
      BY <2>2, <3>1
    <3> HIDE DEF place
    <3>3. Byte(mem', x) = PassedWord(nth)[k]
      BY <2>1, <3>2 DEF Byte
    <3> QED BY <3>1, <3>3
  <2>5. Word(mem', at) = PassedWord(nth)
    <3> HIDE DEF at
    <3> QED BY <1>2, <1>4, <2>4, PassedBytes DEF Word
  <2>6. ASSUME NEW a \in DOMAIN msCall.args, a + Extra > 4, a < nth'
        PROVE  InSlot(a)'
    <3>1. CASE a = nth
      BY <1>6, <2>5, <3>1 DEF InSlot
    <3>2. CASE a # nth
      <4>1. a < nth /\ a + Extra # s /\ a + Extra \in Int
        BY <1>1, <1>3, <1>4, <2>6, <3>2
      <4>2. InSlot(a)
        BY <1>1, <2>6, <4>1 DEF DeliverInv, InSlots
      <4> DEFINE t == a + Extra
      <4> HIDE DEF s
      <4>3. t \in Int /\ s \in Int /\ t # s
        BY <1>7, <4>1
      <4> HIDE DEF t
      <4>4. Slot(t) \in Int /\ \A x \in Slot(t) .. Slot(t) + 7 : x \notin Slot(s) .. Slot(s) + 7
        BY <1>2, <4>3, SlotsApart
      <4>5. place = Slot(s) .. Slot(s) + 7
        BY <2>2
      <4> HIDE DEF place
      <4>6. Word(mem', Slot(t)) = Word(mem, Slot(t))
        BY <2>3, <4>4, <4>5, WordKept
      <4> QED BY <1>6, <4>2, <4>6 DEF InSlot, t
    <3> QED BY <3>1, <3>2
  <2>7. ASSUME NEW a \in DOMAIN msCall.args, a + Extra <= 4, a < nth'
        PROVE  InRegister(a)'
    <3>1. a < nth /\ a + Extra \in 1 .. 4
      BY <1>1, <1>3, <1>4, <1>9, <2>7
    <3>2. InRegister(a)
      BY <1>1, <2>7, <3>1 DEF DeliverInv, InRegisters
    <3> DEFINE t == a + Extra
    <3>3. t \in 1 .. 4
      BY <3>1
    <3> HIDE DEF t
    <3>4. argreg64[t] \in Registers /\ argreg64[t] # "rax"
      BY <3>3, RegistersApart
    <3>5. reg'[argreg64[t]] = reg[argreg64[t]]
      BY <1>2, <2>1, <3>4
    <3> QED BY <1>1, <1>6, <2>1, <3>2, <3>5 DEF InRegister, t
  <2> QED BY <1>1, <1>3, <1>6, <2>6, <2>7 DEF DeliverInv, InRegisters, InSlots, Taken64, Found, TargetKnown
<1> QED BY <1>7, <1>8, <1>9

(* A register that a step leaves alone. *)
LEMMA InRegisterKept ==
  ASSUME msCall' = msCall, NEW a \in DOMAIN msCall.args, a + Extra \in 1 .. 4, InRegister(a), xmm' = xmm,
         \A r \in Registers : r \notin {"r10", "rax"} => reg'[r] = reg[r]
  PROVE  InRegister(a)'
<1> DEFINE t == a + Extra
<1>1. t \in 1 .. 4
  OBVIOUS
<1> HIDE DEF t
<1>2. argreg64[t] \in Registers /\ argreg64[t] \notin {"r10", "rax"}
  BY <1>1, RegistersApart
<1>3. reg'[argreg64[t]] = reg[argreg64[t]]
  BY <1>2
<1>4. Extra' = Extra /\ PassedWord(a)' = PassedWord(a)
  BY ShapeKept, PassedKept
<1> QED BY <1>3, <1>4 DEF InRegister, t

(* A slot that a step leaves alone. *)
LEMMA InSlotKept ==
  ASSUME msCall \in Win64Calls, msCall' = msCall, NEW a \in DOMAIN msCall.args, InSlot(a),
         \A x \in Slot(a + Extra) .. Slot(a + Extra) + 7 : Byte(mem', x) = Byte(mem, x)
  PROVE  InSlot(a)'
<1>1. a + Extra \in Int /\ Base \in Int
  <2>1. Len(msCall.args) \in Nat /\ DOMAIN msCall.args = 1 .. Len(msCall.args)
    BY CallTyped
  <2>2. Extra \in 0 .. 1
    BY ParamsTyped
  <2> QED BY <2>1, <2>2, CallerArea
<1>2. Slot(a + Extra) \in Int
  BY <1>1 DEF Slot
<1>3. Word(mem', Slot(a + Extra)) = Word(mem, Slot(a + Extra))
  BY <1>2, WordKept
<1>4. /\ PassedWord(a)' = PassedWord(a)
      /\ Slot(a + Extra)' = Slot(a + Extra)
  BY ShapeKept, PassedKept, CallerKept DEF Slot
<1> QED BY <1>3, <1>4 DEF InSlot

LEMMA CallTargetDelivers ==
  ASSUME ReturnInv, DeliverInv, CallTarget
  PROVE  DeliverInv'
<1>1. /\ msCall' = msCall /\ step = "args" /\ step' = "prologue" /\ UNCHANGED <<nth, xmm, vaArgs>>
      /\ nth = Len(msCall.args) + 1 /\ sp = Base + 16
  BY DEF CallTarget, ReturnInv, Control
<1>2. /\ msCall \in Win64Calls /\ DOMAIN reg = Registers /\ Base \in Int
  BY <1>1, CallerArea DEF ReturnInv, Control
<1>3. /\ Extra \in 0 .. 1 /\ Len(msCall.args) \in Nat /\ DOMAIN msCall.args = 1 .. Len(msCall.args)
  BY <1>2, ParamsTyped, CallTyped
<1>4. \A a \in DOMAIN msCall.args : a < nth
  BY <1>1, <1>3
<1>5. Extra' = Extra
  BY <1>1, ShapeKept
<1>6. InRegisters'
  <2>1. \A r \in Registers : r \notin {"r10", "rax"} => reg'[r] = reg[r]
    BY <1>2 DEF CallTarget
  <2>2. ASSUME NEW a \in DOMAIN msCall.args, a + Extra <= 4
        PROVE  InRegister(a)'
    <3>1. InRegister(a)
      BY <1>1, <1>4, <2>2 DEF DeliverInv, InRegisters
    <3>2. a + Extra \in 1 .. 4
      BY <1>3, <2>2
    <3> QED BY <1>1, <2>1, <3>1, <3>2, InRegisterKept
  <2> QED BY <1>1, <1>5, <2>2 DEF InRegisters
<1>7. InSlots'
  <2> DEFINE place == Base + 8 .. Base + 15
  <2>1. \A x \in Int : x >= Base + 16 => Byte(mem', x) = Byte(mem, x)
    <3>1. sp - 8 = Base + 8 /\ Base + 8 .. Base + 8 + 8 - 1 = place
      BY <1>1, <1>2
    <3>2. mem' = [x \in DOMAIN mem \cup place |-> IF x \in place THEN <<"return", 0, x - (Base + 8)>> ELSE mem[x]]
      BY <3>1 DEF CallTarget, Written
    <3>3. \A x \in Int : x >= Base + 16 => x \notin place
      BY <1>2
    <3> HIDE DEF place
    <3> QED BY <3>2, <3>3 DEF Byte
  <2>2. ASSUME NEW a \in DOMAIN msCall.args, a + Extra > 4
        PROVE  InSlot(a)'
    <3>1. InSlot(a)
      BY <1>1, <1>4, <2>2 DEF DeliverInv, InSlots
    <3>2. a + Extra \in Int
      BY <1>3
    <3>3. \A x \in Slot(a + Extra) .. Slot(a + Extra) + 7 : x \in Int /\ x >= Base + 16
      <4>1. \A x \in Slot(a + Extra) .. Slot(a + Extra) + 7 : x \in Int /\ x >= Base + 48
        BY <1>2, <2>2, <3>2, SlotsApart
      <4> QED BY <1>2, <4>1
    <3> QED BY <1>1, <1>2, <2>1, <3>1, <3>3, InSlotKept
  <2> QED BY <1>1, <1>5, <2>2 DEF InSlots
<1>8. TargetKnown'
  <2> SUFFICES ASSUME msCall.target # 0 PROVE reg'["r10"] = Address(TARGET)
    BY <1>1 DEF TargetKnown
  <2>1. msCall.target \in 0 .. 7
    BY <1>2, CallTyped
  <2>2. CASE msCall.target = 7
    BY <1>2, <2>2, RegistersApart DEF CallTarget
  <2>3. CASE msCall.target \in 1 .. 6
    <3>1. reg'["r10"] = reg[pool[msCall.target]]
      <4>1. msCall.target # 7
        BY <2>3
      <4>2. reg' = [reg EXCEPT !["r10"] = reg[pool[msCall.target]]]
        BY <4>1 DEF CallTarget
      <4> QED BY <1>2, <4>2, RegistersApart
    <3>2. reg[pool[msCall.target]] = Held(msCall.target)
      <4>1. CASE msCall.target = 6
        BY <1>1, <4>1 DEF ReturnInv, PoolKept
      <4>2. CASE msCall.target # 6
        <5>1. msCall.target \in 1 .. 5
          BY <2>3, <4>2
        <5> QED BY <1>1, <5>1 DEF ReturnInv, PoolKept
      <4> QED BY <4>1, <4>2
    <3>3. ASSUME NEW a \in DOMAIN msCall.args
          PROVE  HomeOf(a) # msCall.target
      <4>1. a + msCall.first - 1 # msCall.target
        BY <1>2, <2>3, CallTyped
      <4> QED BY <2>3, <4>1 DEF HomeOf
    <3>4. Held(msCall.target) = Address(TARGET)
      BY <3>3 DEF Held
    <3> QED BY <3>1, <3>2, <3>4
  <2> QED BY <2>1, <2>2, <2>3
<1> QED BY <1>1, <1>6, <1>7, <1>8 DEF DeliverInv, Taken64, Found

LEMMA PrologueDelivers ==
  ASSUME ReturnInv, DeliverInv, Prologue
  PROVE  DeliverInv'
<1>1. /\ msCall' = msCall /\ step = "prologue" /\ step' = "params" /\ nth' = 1 /\ UNCHANGED <<xmm, vaArgs>>
  BY DEF Prologue
<1>2. /\ msCall \in Win64Calls /\ DOMAIN reg = Registers /\ Base \in Int
  BY <1>1, CallerArea DEF ReturnInv, Control
<1>3. /\ Extra \in 0 .. 1 /\ Len(msCall.args) \in Nat /\ DOMAIN msCall.args = 1 .. Len(msCall.args)
      /\ msCall.named \in 0 .. Len(msCall.args)
  BY <1>2, ParamsTyped, CallTyped
<1>4. Extra' = Extra /\ Params64' = Params64
  BY <1>1, ShapeKept
<1>5. \A r \in Registers : r \notin {"r10", "rax"} => reg'[r] = reg[r]
  <2>1. reg' = IF frame'.size >= 4096 THEN [reg EXCEPT !["rax"] = JunkWord] ELSE reg
    BY DEF Prologue
  <2> QED BY <1>2, <2>1
<1>6. InRegisters'
  <2>1. ASSUME NEW a \in DOMAIN msCall.args, a + Extra <= 4
        PROVE  InRegister(a)'
    <3>1. InRegister(a)
      BY <1>1, <2>1 DEF DeliverInv, InRegisters
    <3>2. a + Extra \in 1 .. 4
      BY <1>3, <2>1
    <3> QED BY <1>1, <1>5, <3>1, <3>2, InRegisterKept
  <2> QED BY <1>1, <1>4, <2>1 DEF InRegisters
<1>7. InSlots'
  <2>1. ASSUME NEW a \in DOMAIN msCall.args, a + Extra > 4
        PROVE  InSlot(a)'
    <3>1. InSlot(a)
      BY <1>1, <2>1 DEF DeliverInv, InSlots
    <3>2. a + Extra \in Int
      BY <1>3
    <3>3. \A x \in Slot(a + Extra) .. Slot(a + Extra) + 7 : x \in Int /\ x >= Base + 48
      BY <1>2, <2>1, <3>2, SlotsApart
    <3>4. \A x \in Slot(a + Extra) .. Slot(a + Extra) + 7 : Byte(mem', x) = Byte(mem, x)
      BY <3>3, PrologueStores
    <3> QED BY <1>1, <1>2, <3>1, <3>4, InSlotKept
  <2>2. ASSUME NEW a \in DOMAIN msCall.args, a + Extra <= 4, a > msCall.named
        PROVE  InSlot(a)'
    <3>1. msCall.variadic
      <4>1. msCall.named # Len(msCall.args)
        BY <1>3, <2>2
      <4> QED BY <1>2, <4>1, CallTyped
    <3> DEFINE t == a + Extra
    <3>2. t \in 1 .. 4
      BY <1>3, <2>2
    <3>3. reg[argreg64[t]] = PassedWord(a)
      BY <1>1, <2>2 DEF DeliverInv, InRegisters, InRegister
    <3> HIDE DEF t
    <3>4. \A k \in 0 .. 7 : Byte(mem', Slot(t) + k) = PassedWord(a)[k]
      BY <3>1, <3>2, <3>3, PrologueStores DEF Variadic64
    <3>5. Word(mem', Slot(t)) = PassedWord(a)
      BY <1>2, <3>4, PassedBytes DEF Word
    <3>6. Slot(a + Extra)' = Slot(t) /\ PassedWord(a)' = PassedWord(a)
      BY <1>1, ShapeKept, PassedKept, CallerKept DEF Slot, t
    <3> QED BY <3>5, <3>6 DEF InSlot
  <2>3. \A a \in DOMAIN msCall.args : a + Extra > 4 \/ a + Extra <= 4
    BY <1>3
  <2> QED BY <1>1, <1>4, <2>1, <2>2, <2>3 DEF InSlots
<1>8. Taken64'
  <2>1. \A p \in DOMAIN Params64 : ~(p < nth')
    BY <1>1, <1>2, <1>3, ParamsTyped
  <2> QED BY <1>1, <1>4, <2>1 DEF Taken64
<1>9. Found' /\ TargetKnown'
  BY <1>1 DEF DeliverInv, Found, TargetKnown
<1> QED BY <1>6, <1>7, <1>8, <1>9 DEF DeliverInv

(* Where copied parameters are, the list of unnamed arguments below them.    *)
LEMMA CopiesApart ==
  ASSUME ReturnInv, NEW p \in DOMAIN Params64, NEW q \in DOMAIN Params64, p < q, IsCopied(p), IsCopied(q)
  PROVE  \A x \in Int :
           \/ x \notin Base + Layout64.param[p] .. Base + Layout64.param[p] + Params64[p].ty.size - 1
           \/ x \notin Base + Layout64.param[q] .. Base + Layout64.param[q] + Params64[q].ty.size - 1
<1>1. msCall \in Win64Calls /\ Base \in Int
  BY CallerArea DEF ReturnInv, Control
<1> DEFINE P(i) == Layout64.param[i]
           S(i) == Params64[i].ty.size
           R(i) == win64_returns_by_reference(Params64[i].ty)
<1>2. \A i \in DOMAIN Params64 : /\ i \in Nat /\ i >= 1 /\ P(i) \in Int /\ S(i) \in Nat
                                 /\ Params64[i].ty \in Types64 /\ Params64[i].ty.class # "void"
  BY ParamApart
<1>3. \A i \in DOMAIN Params64 : IsCopied(i) /\ ~R(i) => P(i) = 16 + (i - 1) * 8 /\ S(i) <= 8
  <2> SUFFICES ASSUME NEW i \in DOMAIN Params64, IsCopied(i), ~R(i)
               PROVE  P(i) = 16 + (i - 1) * 8 /\ S(i) <= 8
    OBVIOUS
  <2>1. i <= REG_MAX
    BY DEF IsCopied, REG_MAX
  <2>2. P(i) = 16 + (i - 1) * 8
    BY <2>1 DEF Layout64, ParamOffset
  <2>3. S(i) \in 1 .. 8
    BY <1>2, SmallTypes
  <2> QED BY <2>2, <2>3
<1>4. \A i \in DOMAIN Params64 : R(i) => P(i) = -Bottom[i] /\ Bottom[i] \in Nat /\ P(i) + S(i) <= -56
  <2>1. \A i \in DOMAIN Params64 : i \in 0 .. Len(Laid)
    <3>1. DOMAIN Laid = 1 .. Len(Laid) /\ \A i \in DOMAIN Params64 : i \in DOMAIN Laid
      BY <1>1, CopyLaid, LaidDomain
    <3>2. \A k : \A i \in 1 .. k : k \in Nat => i \in 0 .. k
      OBVIOUS
    <3>3. Len(Laid) \in Nat
      BY <1>1, LaidDomain
    <3> QED BY <3>1, <3>2, <3>3, Zenon
  <2> QED BY <1>1, <2>1, FrameApart, BottomsDescend
<1>5. R(p) /\ R(q) => P(q) + S(q) <= P(p)
  <2> SUFFICES ASSUME R(p), R(q) PROVE P(q) + S(q) <= P(p)
    OBVIOUS
  <2>1. q \in 1 .. Len(Laid) /\ Laid[q] = Params64[q].ty
    <3>1. q \in DOMAIN Laid /\ Laid[q] = Params64[q].ty
      BY <1>1, CopyLaid
    <3> QED BY <1>1, <3>1, LaidDomain
  <2>2. p \in 0 .. q - 1
    BY <1>2
  <2>3. Bottom[q] >= Bottom[p] + Laid[q].size
    BY <1>1, <2>1, <2>2, BottomsApart
  <2>4. P(p) = -Bottom[p] /\ P(q) = -Bottom[q] /\ Bottom[p] \in Nat /\ Bottom[q] \in Nat
    BY <1>4
  <2>5. S(q) = Laid[q].size /\ S(q) \in Nat
    BY <1>2, <2>1
  <2> HIDE DEF P, S
  <2> QED BY <2>3, <2>4, <2>5
<1> DEFINE A == P(p)
           B == P(q)
           M == S(p)
           N == S(q)
<1>6. A \in Int /\ B \in Int /\ M \in Nat /\ N \in Nat /\ p \in Nat /\ q \in Nat /\ p >= 1
  BY <1>2
<1>7. (A = 16 + (p - 1) * 8 /\ M <= 8) \/ (R(p) /\ A + M <= -56)
  BY <1>3, <1>4
<1>8. (B = 16 + (q - 1) * 8 /\ N <= 8) \/ (R(q) /\ B + N <= -56)
  BY <1>3, <1>4
<1>9. R(p) /\ R(q) => B + N <= A
  BY <1>5
<1> HIDE DEF A, B, M, N, R
<1>10. A + M <= B \/ B + N <= A
  BY <1>6, <1>7, <1>8, <1>9
<1>11. ASSUME NEW x \in Int
       PROVE  x \notin Base + A .. Base + A + M - 1 \/ x \notin Base + B .. Base + B + N - 1
  BY <1>1, <1>6, <1>10
<1> QED BY <1>11 DEF A, B, M, N

LEMMA VaListBelow ==
  ASSUME ReturnInv, Variadic64, NEW p \in DOMAIN Params64, IsCopied(p)
  PROVE  \A x \in Base + Layout64.param[p] .. Base + Layout64.param[p] + Params64[p].ty.size - 1 :
           x \in Int /\ x \notin VaList .. VaList + 7
<1>1. msCall \in Win64Calls /\ Base \in Int
  BY CallerArea DEF ReturnInv, Control
<1>2. VaList \in Int /\ VaList + 8 <= Base - 56
  BY VaListApart
<1>3. Layout64.param[p] \in Int /\ Params64[p].ty.size \in Nat /\ p \in Nat /\ p >= 1
  BY ParamApart
<1>4. VaList + 8 <= Base + Layout64.param[p]
  <2>1. CASE win64_returns_by_reference(Params64[p].ty)
    <3> DEFINE n == Len(Params64) + VaArea64
    <3>1. VaArea64 \in DOMAIN Locals64 /\ Locals64[VaArea64].size = 8 /\ VaArea64 \in Nat /\ VaArea64 >= 1
      BY <1>1, LocalsTyped
    <3>2. n \in 1 .. Len(Laid) /\ Laid[n] = Locals64[VaArea64] /\ Layout64.local[VaArea64] = -Bottom[n]
      BY <1>1, <3>1, LaidTyped, FrameApart
    <3>3. Len(Params64) \in Nat /\ p <= Len(Params64)
      BY <1>1, ParamsTyped, CallTyped
    <3>4. p \in 0 .. n - 1 /\ p \in 0 .. Len(Laid)
      BY <1>1, <1>3, <3>1, <3>3, LaidTyped
    <3>5. n \in 0 .. Len(Laid)
      BY <1>1, <3>2, LaidTyped
    <3> HIDE DEF n
    <3>6. Bottom[n] >= Bottom[p] + Laid[n].size
      BY <1>1, <3>2, <3>4, BottomsApart
    <3>7. Bottom[n] \in Nat /\ Bottom[p] \in Nat
      BY <1>1, <3>4, <3>5, BottomsDescend
    <3>8. Layout64.param[p] = -Bottom[p]
      BY <1>1, <2>1, FrameApart
    <3>9. Laid[n].size = 8
      BY <3>1, <3>2
    <3> QED BY <1>1, <3>2, <3>6, <3>7, <3>8, <3>9 DEF VaList
  <2>2. CASE ~win64_returns_by_reference(Params64[p].ty)
    <3>1. Layout64.param[p] >= 16
      BY <1>1, <2>2, FrameApart
    <3> QED BY <1>1, <1>2, <1>3, <3>1
  <2> QED BY <2>1, <2>2
<1> QED BY <1>1, <1>2, <1>3, <1>4

(* A parameter that a step leaves alone. *)
LEMMA HoldsKept ==
  ASSUME ReturnInv, msCall' = msCall, NEW p \in DOMAIN Params64, Holds(p),
         \A x \in Base + Layout64.param[p] .. Base + Layout64.param[p] + Params64[p].ty.size - 1 :
           Byte(mem', x) = Byte(mem, x)
  PROVE  Holds(p)'
<1>1. Layout64.param[p] \in Int /\ Params64[p].ty.size \in Nat /\ Base \in Int
  BY ParamApart
<1>2. /\ Base' = Base /\ Layout64' = Layout64 /\ Params64' = Params64
      /\ \A k : ParamByte(p, k)' = ParamByte(p, k)
  BY CallerKept, LayoutKept, ShapeKept, PassedKept
<1>3. ASSUME NEW k \in 0 .. Params64[p].ty.size - 1
      PROVE  Byte(mem', Base + Layout64.param[p] + k) = ParamByte(p, k)
  <2>1. PICK x : x = Base + Layout64.param[p] + k
    OBVIOUS
  <2>2. x \in Base + Layout64.param[p] .. Base + Layout64.param[p] + Params64[p].ty.size - 1
    BY <1>1, <2>1
  <2>3. Byte(mem', x) = Byte(mem, x)
    BY <2>2
  <2>4. Byte(mem, x) = ParamByte(p, k)
    BY <2>1 DEF Holds
  <2> QED BY <2>1, <2>3, <2>4
<1> QED BY <1>2, <1>3 DEF Holds

(* The parameter taken holds its argument. *)
LEMMA TakenHolds ==
  ASSUME ReturnInv, DeliverInv, TakeParam, NEW p, p = nth, IsCopied(p)
  PROVE  Holds(p)'
<1>1. msCall' = msCall /\ step = "params" /\ nth <= Len(Params64)
  BY DEF TakeParam
<1>2. msCall \in Win64Calls /\ DOMAIN reg = Registers /\ nth \in 1 .. Len(Params64) + 1
  BY <1>1 DEF ReturnInv, Control
<1>3. /\ nth \in DOMAIN Params64 /\ nth \in Nat /\ nth >= 1
      /\ Extra \in 0 .. 1 /\ (Hidden64 <=> Extra = 1) /\ nth <= msCall.named + Extra
      /\ msCall.named \in 0 .. Len(msCall.args) /\ Len(msCall.args) \in Nat
      /\ DOMAIN msCall.args = 1 .. Len(msCall.args)
  BY <1>1, <1>2, ParamsTyped, CallTyped
<1> DEFINE at == Base + Layout64.param[nth]
           ty == Params64[nth].ty
<1>4. /\ win64_returns_by_reference(ty) => \A k \in 0 .. ty.size - 1 : Byte(mem', at + k) = Pointed(PointerOf(nth), k)
      /\ ~win64_returns_by_reference(ty) /\ nth <= REG_MAX =>
           \A k \in 0 .. ty.size - 1 : Byte(mem', at + k) = ContentOf(nth)[k]
  BY TakeParamStores
<1>5. \A k \in 0 .. ty.size - 1 : Byte(mem', at + k) = ParamByte(nth, k)
  <2>1. CASE nth <= Extra
    <3>1. nth = 1 /\ Hidden64
      BY <1>3, <2>1
    <3>2. Params64[nth] = [arg |-> 0, ty |-> PointerType]
      BY <1>2, <3>1, ParamsTyped
    <3>3. ~win64_returns_by_reference(ty) /\ ty.class = "int" /\ nth <= REG_MAX
      BY <3>1, <3>2 DEF PointerType, win64_returns_by_reference, REG_MAX
    <3>4. ContentOf(nth) = Address(0)
      <4>1. reg["rcx"] = Address(0)
        BY <1>1, <3>1 DEF ReturnInv, BufferKnown
      <4> QED BY <3>1, <3>3, <4>1, RegistersApart DEF ContentOf
    <3>5. \A k \in 0 .. ty.size - 1 : Byte(mem', at + k) = Address(0)[k]
      BY <1>4, <3>3, <3>4
    <3>6. \A k : ParamByte(nth, k) = Address(0)[k]
      BY <3>2 DEF ParamByte
    <3> HIDE DEF at, ty
    <3> QED BY <3>5, <3>6
  <2>2. CASE ~(nth <= Extra)
    <3> DEFINE a == nth - Extra
    <3>1. nth \in 1 + Extra .. msCall.named + Extra
      BY <1>3, <2>2
    <3>2. a \in 1 .. msCall.named /\ Params64[nth] = [arg |-> a, ty |-> msCall.args[a]]
      BY <1>2, <3>1, ParamsTyped
    <3>3. a \in DOMAIN msCall.args /\ a # 0 /\ a + Extra = nth
      BY <1>3, <3>2
    <3>4. ty = msCall.args[a] /\ \A k : ParamByte(nth, k) = <<"arg", a, k>>
      BY <3>2, <3>3 DEF ParamByte
    <3>5. nth <= 4 => InRegister(a)
      BY <1>1, <3>3 DEF DeliverInv, InRegisters
    <3>6. nth > 4 => InSlot(a)
      BY <1>1, <3>3 DEF DeliverInv, InSlots
    <3> HIDE DEF a
    <3>7. CASE win64_returns_by_reference(ty)
      <4>1. PointerOf(nth) = PassedWord(a)
        <5>1. CASE nth <= 4
          BY <3>3, <3>5, <5>1 DEF InRegister, PointerOf, REG_MAX
        <5>2. CASE ~(nth <= 4)
          <6>1. nth > 4 /\ ~(nth <= REG_MAX)
            BY <1>3, <5>2 DEF REG_MAX
          <6> QED BY <3>3, <3>6, <6>1 DEF InSlot, PointerOf
        <5> QED BY <5>1, <5>2
      <4>2. \A k : Pointed(PassedWord(a), k) = <<"arg", a, k>>
        BY <1>2, <3>3, <3>4, <3>7, PassedBytes
      <4> HIDE DEF at, ty
      <4> QED BY <1>4, <3>4, <3>7, <4>1, <4>2
    <3>8. CASE ~win64_returns_by_reference(ty)
      <4>1. nth <= 4 /\ nth <= REG_MAX
        BY <3>8 DEF IsCopied, REG_MAX
      <4>2. ContentOf(nth) = PassedWord(a)
        BY <3>3, <3>4, <3>5, <4>1 DEF InRegister, ContentOf
      <4>3. \A k \in 0 .. msCall.args[a].size - 1 : PassedWord(a)[k] = <<"arg", a, k>>
        BY <1>2, <3>3, <3>4, <3>8, PassedBytes
      <4>4. \A k \in 0 .. ty.size - 1 : PassedWord(a)[k] = <<"arg", a, k>>
        BY <3>4, <4>3
      <4> HIDE DEF at, ty
      <4> QED BY <1>4, <3>4, <3>8, <4>1, <4>2, <4>4
    <3> QED BY <3>7, <3>8
  <2> QED BY <2>1, <2>2
<1>6. /\ Base' = Base /\ Layout64' = Layout64 /\ Params64' = Params64
      /\ \A k : ParamByte(p, k)' = ParamByte(p, k)
  BY <1>1, CallerKept, LayoutKept, ShapeKept, PassedKept
<1> QED BY <1>5, <1>6 DEF Holds

LEMMA TakeParamDelivers ==
  ASSUME ReturnInv, DeliverInv, TakeParam
  PROVE  DeliverInv'
<1>1. /\ msCall' = msCall /\ step = "params" /\ step' = "params" /\ nth' = nth + 1 /\ UNCHANGED <<xmm, vaArgs>>
      /\ nth <= Len(Params64)
  BY DEF TakeParam
<1>2. msCall \in Win64Calls /\ DOMAIN reg = Registers /\ nth \in 1 .. Len(Params64) + 1 /\ Base \in Int
  BY <1>1, CallerArea DEF ReturnInv, Control
<1>3. /\ nth \in DOMAIN Params64 /\ nth \in Nat /\ nth >= 1
      /\ Extra \in 0 .. 1 /\ nth <= msCall.named + Extra
      /\ msCall.named \in 0 .. Len(msCall.args) /\ Len(msCall.args) \in Nat
      /\ DOMAIN msCall.args = 1 .. Len(msCall.args)
  BY <1>1, <1>2, ParamsTyped, CallTyped
<1>4. Extra' = Extra /\ Params64' = Params64 /\ \A p : IsCopied(p)' <=> IsCopied(p)
  BY <1>1, ShapeKept, PassedKept
<1>5. \A r \in Registers : r \notin {"r10", "rax"} => reg'[r] = reg[r]
  BY <1>2 DEF TakeParam
<1> DEFINE at == Base + Layout64.param[nth]
           ty == Params64[nth].ty
<1>6. /\ \A x \in Int : x \notin at .. at + ty.size - 1 => Byte(mem', x) = Byte(mem, x)
      /\ ~win64_returns_by_reference(ty) /\ nth > REG_MAX => mem' = mem
  BY TakeParamStores
<1>7. InRegisters'
  <2>1. ASSUME NEW a \in DOMAIN msCall.args, a + Extra <= 4
        PROVE  InRegister(a)'
    <3>1. InRegister(a)
      BY <1>1, <2>1 DEF DeliverInv, InRegisters
    <3>2. a + Extra \in 1 .. 4
      BY <1>3, <2>1
    <3> QED BY <1>1, <1>5, <3>1, <3>2, InRegisterKept
  <2> QED BY <1>1, <1>4, <2>1 DEF InRegisters
<1>8. InSlots'
  <2>1. ASSUME NEW a \in DOMAIN msCall.args, a + Extra > 4 \/ a > msCall.named
        PROVE  InSlot(a)'
    <3>1. InSlot(a)
      BY <1>1, <2>1 DEF DeliverInv, InSlots
    <3> DEFINE t == a + Extra
    <3>2. t \in Int /\ t > 0 /\ (t > 4 \/ t > nth)
      BY <1>3, <2>1
    <3> HIDE DEF t
    <3>3. ty \in Types64 /\ ty.class # "void" /\ ty.size \in Nat /\ at \in Int
      BY <1>2, <1>3, ParamApart
    <3>4. ASSUME NEW x \in Slot(t) .. Slot(t) + 7
          PROVE  Byte(mem', x) = Byte(mem, x)
      <4>1. x \in Int /\ x >= Base + 16
        BY <1>2, <3>2, SlotsApart
      <4>2. CASE win64_returns_by_reference(ty)
        <5>1. Layout64.param[nth] \in Int /\ Layout64.param[nth] + ty.size <= -56
          BY <1>2, <1>3, <4>2, FrameApart
        <5>2. at + ty.size <= Base - 56
          BY <1>2, <3>3, <5>1
        <5> HIDE DEF at, ty
        <5> QED BY <1>2, <1>6, <3>3, <4>1, <5>2
      <4>3. CASE ~win64_returns_by_reference(ty) /\ nth <= 4
        <5>1. Layout64.param[nth] = 16 + (nth - 1) * 8
          BY <1>2, <1>3, <4>3, FrameApart DEF REG_MAX
        <5>2. at = Slot(nth)
          BY <1>2, <1>3, <5>1 DEF Slot
        <5>3. ty.size \in 1 .. 8
          BY <3>3, <4>3, SmallTypes
        <5>4. t # nth
          BY <1>3, <3>2, <4>3
        <5>5. x \notin Slot(nth) .. Slot(nth) + 7
          <6>1. msCall \in Win64Calls /\ nth \in Int /\ t \in Int
            BY <1>2, <1>3, <3>2
          <6>2. \A y \in Slot(t) .. Slot(t) + 7 : y \notin Slot(nth) .. Slot(nth) + 7
            BY <5>4, <6>1, SlotsApart
          <6> QED BY <3>4, <6>2
        <5> HIDE DEF at, ty
        <5>6. x \notin at .. at + ty.size - 1
          BY <3>3, <4>1, <5>2, <5>3, <5>5
        <5> QED BY <1>6, <4>1, <5>6
      <4>4. CASE ~win64_returns_by_reference(ty) /\ nth > 4
        BY <1>6, <4>4 DEF REG_MAX
      <4> QED BY <1>3, <4>2, <4>3, <4>4
    <3> QED BY <1>1, <1>2, <3>1, <3>4, InSlotKept DEF t
  <2> QED BY <1>1, <1>4, <2>1 DEF InSlots
<1>9. Taken64'
  <2>1. ASSUME NEW p \in DOMAIN Params64, IsCopied(p), p < nth'
        PROVE  Holds(p)'
    <3>1. p \in Nat /\ p >= 1
      BY ParamApart
    <3>2. CASE p = nth
      BY <2>1, <3>2, TakenHolds
    <3>3. CASE p # nth
      <4>1. p < nth
        BY <1>1, <1>3, <2>1, <3>1, <3>3
      <4>2. Holds(p)
        BY <1>1, <2>1, <4>1 DEF DeliverInv, Taken64
      <4>3. ASSUME NEW x \in Base + Layout64.param[p] .. Base + Layout64.param[p] + Params64[p].ty.size - 1
            PROVE  Byte(mem', x) = Byte(mem, x)
        <5>1. x \in Int
          BY ParamApart
        <5>2. CASE IsCopied(nth)
          <6>1. x \notin at .. at + ty.size - 1
            BY <1>3, <2>1, <4>1, <5>1, <5>2, CopiesApart
          <6> HIDE DEF at, ty
          <6> QED BY <1>6, <5>1, <6>1
        <5>3. CASE ~IsCopied(nth)
          <6>1. ~win64_returns_by_reference(ty) /\ nth > REG_MAX
            BY <1>3, <5>3 DEF IsCopied, REG_MAX
          <6> QED BY <1>6, <6>1
        <5> QED BY <5>2, <5>3
      <4> QED BY <1>1, <4>2, <4>3, HoldsKept
    <3> QED BY <3>2, <3>3
  <2> QED BY <1>1, <1>4, <2>1 DEF Taken64
<1>10. Found' /\ TargetKnown'
  BY <1>1 DEF DeliverInv, Found, TargetKnown
<1> QED BY <1>7, <1>8, <1>9, <1>10 DEF DeliverInv

(* A step that stores in the list of unnamed arguments only. *)
LEMMA SlotsAndCopiesKept ==
  ASSUME ReturnInv, msCall' = msCall, \/ ~Variadic64 /\ mem' = mem
                                      \/ Variadic64 /\ \E x : VaListSet(x)
  PROVE  /\ \A a \in DOMAIN msCall.args : (a + Extra > 4 \/ a > msCall.named) /\ InSlot(a) => InSlot(a)'
         /\ \A p \in DOMAIN Params64 : IsCopied(p) /\ Holds(p) => Holds(p)'
<1>1. msCall \in Win64Calls /\ Base \in Int
  BY CallerArea DEF ReturnInv, Control
<1>2. ASSUME NEW x \in Int, Variadic64 => x \notin VaList .. VaList + 7
      PROVE  Byte(mem', x) = Byte(mem, x)
  BY <1>2 DEF VaListSet
<1>3. ASSUME NEW a \in DOMAIN msCall.args, InSlot(a)
      PROVE  InSlot(a)'
  <2>1. a + Extra \in Int /\ a + Extra > 0
    BY <1>1, CallTyped, ParamsTyped
  <2> DEFINE t == a + Extra
  <2> HIDE DEF t
  <2>2. \A x \in Slot(t) .. Slot(t) + 7 : x \in Int /\ x >= Base + 16
    BY <1>1, <2>1, SlotsApart DEF t
  <2>3. Variadic64 => VaList \in Int /\ VaList + 8 <= Base - 56
    BY VaListApart
  <2>4. \A x \in Slot(t) .. Slot(t) + 7 : Byte(mem', x) = Byte(mem, x)
    <3> SUFFICES ASSUME NEW x \in Slot(t) .. Slot(t) + 7 PROVE Byte(mem', x) = Byte(mem, x)
      OBVIOUS
    <3>1. x \in Int /\ x >= Base + 16
      BY <2>2
    <3>2. Variadic64 => x \notin VaList .. VaList + 7
      BY <1>1, <2>3, <3>1
    <3> QED BY <1>2, <3>1, <3>2
  <2> QED BY <1>1, <1>3, <2>4, InSlotKept DEF t
<1>4. ASSUME NEW p \in DOMAIN Params64, IsCopied(p), Holds(p)
      PROVE  Holds(p)'
  <2>1. ASSUME NEW x \in Base + Layout64.param[p] .. Base + Layout64.param[p] + Params64[p].ty.size - 1
        PROVE  Byte(mem', x) = Byte(mem, x)
    <3>1. x \in Int
      BY ParamApart
    <3>2. Variadic64 => x \notin VaList .. VaList + 7
      BY <1>4, VaListBelow
    <3> QED BY <1>2, <3>1, <3>2
  <2> QED BY <1>4, <2>1, HoldsKept
<1> QED BY <1>3, <1>4

LEMMA StartVaListDelivers ==
  ASSUME ReturnInv, DeliverInv, StartVaList
  PROVE  DeliverInv'
<1>1. /\ msCall' = msCall /\ step = "params" /\ step' = "body" /\ nth = Len(Params64) + 1
      /\ nth' = msCall.named + 1 /\ vaArgs' = vaArgs
  BY DEF StartVaList
<1>2. /\ msCall \in Win64Calls /\ msCall.named \in Nat /\ Extra \in 0 .. 1 /\ Base \in Int
      /\ Len(Params64) = msCall.named + Extra
  BY CallerArea, ParamsTyped, CallTyped DEF ReturnInv, Control
<1>3. IF Variadic64 THEN VaListSet(Slot(Len(Params64) + 1)) ELSE mem' = mem
  BY StartVaListStores
<1>4. /\ Extra' = Extra /\ Params64' = Params64 /\ VaList' = VaList /\ (Variadic64' <=> Variadic64)
      /\ \A p : IsCopied(p)' <=> IsCopied(p)
      /\ \A s : Slot(s)' = Slot(s)
  BY <1>1, ShapeKept, PassedKept, CallerKept
<1>5. InSlots'
  BY <1>1, <1>3, <1>4, SlotsAndCopiesKept DEF DeliverInv, InSlots
<1>6. Taken64'
  <2>1. \A p \in DOMAIN Params64 : p < nth
    BY <1>1, <1>2, ParamsTyped
  <2>2. \A p \in DOMAIN Params64 : IsCopied(p) => Holds(p)
    BY <1>1, <2>1 DEF DeliverInv, Taken64
  <2> QED BY <1>1, <1>3, <1>4, <2>2, SlotsAndCopiesKept DEF Taken64
<1>7. Found'
  <2>1. nth' - msCall'.named - 1 = 0
    BY <1>1, <1>2
  <2>2. vaArgs' = << >>
    BY <1>1 DEF DeliverInv, Found
  <2>3. vaArgs' = [n \in 1 .. 0 |-> vaArgs'[n]]
    BY <2>2
  <2>4. Variadic64' => Word(mem', VaList') = Address(Slot(nth' + Extra'))
    <3>1. nth' + Extra' = Len(Params64) + 1
      BY <1>1, <1>2, <1>4
    <3> QED BY <1>3, <1>4, <3>1 DEF VaListSet
  <2>5. \A n : n \notin 1 .. 0
    OBVIOUS
  <2>6. Slot(nth + Extra)' = Slot(nth' + Extra')
    BY <1>4 DEF Slot
  <2> QED BY <1>1, <2>1, <2>3, <2>4, <2>5, <2>6 DEF Found
<1> QED BY <1>1, <1>5, <1>6, <1>7 DEF DeliverInv, InRegisters, TargetKnown

LEMMA VaArgDelivers ==
  ASSUME ReturnInv, DeliverInv, VaArg64
  PROVE  DeliverInv'
<1>1. msCall' = msCall /\ step = "body" /\ step' = "body" /\ nth' = nth + 1 /\ nth <= Len(msCall.args)
  BY DEF VaArg64
<1>2. /\ msCall \in Win64Calls /\ Base \in Int /\ Extra \in 0 .. 1
      /\ msCall.named \in Nat /\ Len(msCall.args) \in Nat /\ DOMAIN msCall.args = 1 .. Len(msCall.args)
      /\ rbp = Base /\ frame = Layout64
  BY <1>1, CallerArea, ParamsTyped, CallTyped DEF ReturnInv, Control, Callee
<1>3. /\ Variadic64 /\ nth \in DOMAIN msCall.args /\ nth \in Nat /\ nth > msCall.named
  BY <1>1, <1>2, UnnamedOnly
<1>4. /\ Extra' = Extra /\ Params64' = Params64 /\ VaList' = VaList /\ (Variadic64' <=> Variadic64)
      /\ \A p : IsCopied(p)' <=> IsCopied(p)
      /\ \A s : Slot(s)' = Slot(s)
      /\ \A a : Value(a)' = Value(a)
  BY <1>1, ShapeKept, PassedKept, CallerKept DEF Slot
<1> DEFINE at == Slot(nth + Extra)
           size == msCall.args[nth].size
           found == [k \in 0 .. size - 1 |-> Byte(mem, at + k)]
           count == nth - msCall.named - 1
<1>5. Byte(mem, VaList)[2] = at
  <2>1. VaList \in Int
    BY <1>3, VaListApart
  <2>2. Word(mem, VaList)[0] = Byte(mem, VaList)
    BY <2>1 DEF Word
  <2>3. Word(mem, VaList) = Address(at)
    BY <1>1, <1>3 DEF DeliverInv, Found
  <2> HIDE DEF at
  <2>4. Address(at)[0] = <<"addr", at, 0>>
    BY DEF Address, Object
  <2> QED BY <2>2, <2>3, <2>4
<1>6. VaListSet(at + 8)
  BY <1>5, VaArgStores
<1>7. vaArgs' = Append(vaArgs, found)
  <2>1. LocalAt(VaArea64) = VaList
    BY <1>2 DEF LocalAt, VaList
  <2>2. ReadByte(LocalAt(VaArea64))[2] = at
    BY <1>5, <2>1, Contents
  <2>3. vaArgs' = Append(vaArgs, [k \in 0 .. msCall.args[nth].size - 1 |->
                                    ReadByte(ReadByte(LocalAt(VaArea64))[2] + k)])
    BY DEF VaArg64
  <2> HIDE DEF at
  <2>4. vaArgs' = Append(vaArgs, [k \in 0 .. msCall.args[nth].size - 1 |-> ReadByte(at + k)])
    BY <2>2, <2>3
  <2> QED BY <2>4, Contents
<1>8. ~win64_returns_by_reference(msCall.args[nth]) => found = Value(nth)
  <2>1. ASSUME ~win64_returns_by_reference(msCall.args[nth]), NEW k \in 0 .. size - 1
        PROVE  Byte(mem, at + k) = <<"arg", nth, k>>
    <3>1. k \in 0 .. 7 /\ PassedWord(nth)[k] = <<"arg", nth, k>>
      BY <1>2, <1>3, <2>1, PassedBytes
    <3>2. InSlot(nth)
      BY <1>1, <1>3 DEF DeliverInv, InSlots
    <3>3. Word(mem, at)[k] = Byte(mem, at + k)
      BY <3>1 DEF Word
    <3> QED BY <3>1, <3>2, <3>3 DEF InSlot
  <2> QED BY <2>1 DEF Value
<1>9. InSlots' /\ Taken64'
  <2>1. \A a \in DOMAIN msCall.args : (a + Extra > 4 \/ a > msCall.named) /\ InSlot(a) => InSlot(a)'
    BY <1>1, <1>3, <1>6, SlotsAndCopiesKept
  <2>2. \A p \in DOMAIN Params64 : IsCopied(p) /\ Holds(p) => Holds(p)'
    BY <1>1, <1>3, <1>6, SlotsAndCopiesKept
  <2>3. InSlots'
    BY <1>1, <1>4, <2>1 DEF DeliverInv, InSlots
  <2>4. Taken64'
    BY <1>1, <1>4, <2>2 DEF DeliverInv, Taken64
  <2> QED BY <2>3, <2>4
<1>10. Found'
  <2>1. /\ count \in Nat /\ vaArgs = [n \in 1 .. count |-> vaArgs[n]]
        /\ \A n \in 1 .. count :
             ~win64_returns_by_reference(msCall.args[msCall.named + n]) => vaArgs[n] = Value(msCall.named + n)
    <3>1. count \in Nat
      BY <1>2, <1>3
    <3> QED BY <1>1, <3>1 DEF DeliverInv, Found
  <2>2. nth' - msCall'.named - 1 = count + 1 /\ nth = msCall.named + (count + 1)
    <3>1. nth \in Nat /\ msCall.named \in Nat /\ nth' = nth + 1 /\ msCall' = msCall
      BY <1>1, <1>2, <1>3
    <3> QED BY <3>1
  <2>3. at + 8 = Slot(nth' + Extra')
    <3>1. nth \in Nat /\ Extra \in Int /\ Base \in Int /\ nth' + Extra' = (nth + 1) + Extra
      BY <1>1, <1>2, <1>3, <1>4
    <3> QED BY <3>1 DEF Slot
  <2> HIDE DEF count, found, at
  <2>4. /\ vaArgs' = [n \in 1 .. count + 1 |-> vaArgs'[n]]
        /\ \A n \in 1 .. count : vaArgs'[n] = vaArgs[n]
        /\ vaArgs'[count + 1] = found
    <3> DEFINE V == {vaArgs[n] : n \in 1 .. count} \cup {found}
    <3>1. vaArgs \in Seq(V) /\ Len(vaArgs) = count
      <4>1. \A n \in 1 .. count : vaArgs[n] \in V
        OBVIOUS
      <4> HIDE DEF V
      <4>2. [n \in 1 .. count |-> vaArgs[n]] \in [1 .. count -> V]
        BY <4>1
      <4>3. vaArgs \in [1 .. count -> V]
        BY <2>1, <4>2
      <4> QED BY <2>1, <4>3
    <3>2. found \in V
      OBVIOUS
    <3> HIDE DEF V
    <3> QED BY <1>7, <2>1, <3>1, <3>2
  <2>5. ASSUME NEW n \in 1 .. count + 1, ~win64_returns_by_reference(msCall.args[msCall.named + n])
        PROVE  vaArgs'[n] = Value(msCall.named + n)
    <3>1. CASE n = count + 1
      BY <1>8, <2>2, <2>4, <2>5, <3>1
    <3>2. CASE n \in 1 .. count
      BY <2>1, <2>4, <2>5, <3>2
    <3> QED BY <2>1, <3>1, <3>2
  <2>6. Word(mem', VaList') = Address(Slot(nth' + Extra'))
    BY <1>4, <1>6, <2>3 DEF VaListSet
  <2>7. Slot(nth + Extra)' = Slot(nth' + Extra')
    BY <1>4 DEF Slot
  <2>8. \A n : Value(msCall.named + n)' = Value(msCall.named + n)
    BY <1>1, <1>4 DEF Value
  <2> QED BY <1>1, <1>4, <2>2, <2>4, <2>5, <2>6, <2>7, <2>8 DEF Found
<1> QED BY <1>1, <1>9, <1>10 DEF DeliverInv, InRegisters, TargetKnown

(* Every step keeps the invariant; the arguments were taken when the body    *)
(* begins, so that it says nothing of the steps behind it.                   *)
LEMMA DeliverStep ==
  ASSUME ReturnInv, DeliverInv, [NextWin64]_win64Vars
  PROVE  DeliverInv'
<1>1. CASE UNCHANGED win64Vars
  <2>1. UNCHANGED <<msCall, step, nth, reg, xmm, mem, vaArgs>>
    BY <1>1 DEF win64Vars
  <2>2. /\ Extra' = Extra /\ Params64' = Params64 /\ VaList' = VaList /\ (Variadic64' <=> Variadic64)
        /\ Base' = Base /\ Layout64' = Layout64
        /\ \A s : Slot(s)' = Slot(s)
        /\ \A a : Value(a)' = Value(a) /\ PassedWord(a)' = PassedWord(a)
        /\ \A p : (IsCopied(p)' <=> IsCopied(p)) /\ \A k : ParamByte(p, k)' = ParamByte(p, k)
    BY <2>1, ShapeKept, LayoutKept, PassedKept, CallerKept
  <2>3. InRegisters'
    BY <2>1, <2>2 DEF DeliverInv, InRegisters, InRegister
  <2>4. InSlots'
    <3>1. \A a : Slot(a + Extra)' = Slot(a + Extra)
      BY <2>2 DEF Slot
    <3>2. \A a : InSlot(a)' <=> InSlot(a)
      BY <2>1, <2>2, <3>1 DEF InSlot
    <3> QED BY <2>1, <2>2, <3>2 DEF DeliverInv, InSlots
  <2>5. Taken64'
    <3>1. \A p : Holds(p)' <=> Holds(p)
      BY <2>1, <2>2 DEF Holds
    <3> QED BY <2>1, <2>2, <3>1 DEF DeliverInv, Taken64
  <2>6. Found'
    <3>1. Slot(nth + Extra)' = Slot(nth + Extra)
      BY <2>1, <2>2 DEF Slot
    <3>2. \A n : Value(msCall.named + n)' = Value(msCall.named + n)
      BY <2>1, <2>2 DEF Value
    <3> QED BY <2>1, <2>2, <3>1, <3>2 DEF DeliverInv, Found
  <2>7. TargetKnown'
    BY <2>1 DEF DeliverInv, TargetKnown
  <2> QED BY <2>3, <2>4, <2>5, <2>6, <2>7 DEF DeliverInv
<1>2. CASE Body64 \/ EmitReturn \/ Epilogue \/ TakeResult
  <2>1. step' \in {"return", "epilogue", "result", "lost", "done"}
    BY <1>2 DEF Body64, EmitReturn, Epilogue, TakeResult
  <2> QED BY <2>1 DEF DeliverInv, InRegisters, InSlots, Taken64, Found, TargetKnown
<1>3. CASE ~UNCHANGED win64Vars /\ ~(Body64 \/ EmitReturn \/ Epilogue \/ TakeResult)
  BY <1>3, ReserveAreaDelivers, PassArgDelivers, CallTargetDelivers, PrologueDelivers, TakeParamDelivers,
     StartVaListDelivers, VaArgDelivers DEF NextWin64, Returned
<1> QED BY <1>1, <1>2, <1>3

(* The calls the two sides understand alike.  On the stack no parameter      *)
(* follows a large aggregate: win64_assign_lvar_offsets does not count its   *)
(* slot, so that the offsets behind it are too low by one.  No unnamed       *)
(* argument is a large aggregate: the caller passes its address, which       *)
(* va_arg takes for its bytes.                                               *)
Understood ==
  /\ \A p, q \in DOMAIN Params64 :
       p > REG_MAX /\ q > p /\ win64_returns_by_reference(Params64[p].ty) => win64_returns_by_reference(Params64[q].ty)
  /\ \A a \in DOMAIN msCall.args : a > msCall.named => ~win64_returns_by_reference(msCall.args[a])

(* The offset of a parameter left on the stack is that of its slot.          *)
LEMMA OnStack ==
  ASSUME msCall \in Win64Calls, Understood, NEW p \in DOMAIN Params64, p > 4,
         ~win64_returns_by_reference(Params64[p].ty)
  PROVE  Base + Layout64.param[p] = Slot(p)
<1>1. p \in Nat /\ Base \in Int /\ DOMAIN Params64 = 1 .. Len(Params64) /\ Len(Params64) \in Nat
  BY CallerArea, ParamsTyped, CallTyped
<1>2. \A q \in 5 .. p - 1 : q \in DOMAIN Params64 /\ q > 4 /\ q < p
  BY <1>1
<1>3. {q \in REG_MAX + 1 .. p - 1 : ~win64_returns_by_reference(Params64[q].ty)} = 5 .. p - 1
  <2>1. \A q \in 5 .. p - 1 : ~win64_returns_by_reference(Params64[q].ty)
    BY <1>1, <1>2 DEF Understood, REG_MAX
  <2>2. REG_MAX + 1 = 5
    BY DEF REG_MAX
  <2> QED BY <2>1, <2>2
<1>4. Cardinality(5 .. p - 1) = p - 5
  <2>1. 5 \in Int /\ p - 1 \in Int
    BY <1>1
  <2>2. Cardinality(5 .. p - 1) = IF 5 > p - 1 THEN 0 ELSE ((p - 1) - 5) + 1
    BY <2>1, FS_Interval
  <2> QED BY <1>1, <2>2
<1>5. Top(p) = 48 + 8 * (p - 5)
  BY <1>3, <1>4 DEF Top
<1>6. Layout64.param[p] = Top(p)
  <2>1. ~(p <= REG_MAX)
    BY <1>1 DEF REG_MAX
  <2> QED BY <2>1 DEF Layout64, ParamOffset
<1>7. Base + (48 + 8 * (p - 5)) = Base + 16 + 8 * (p - 1)
  BY <1>1
<1> QED BY <1>5, <1>6, <1>7 DEF Slot

(* In the body every parameter holds its argument. *)
LEMMA AllHeld ==
  ASSUME ReturnInv, DeliverInv, Understood, step = "body", NEW p \in DOMAIN Params64
  PROVE  Holds(p)
<1>1. msCall \in Win64Calls /\ Base \in Int
  BY CallerArea DEF ReturnInv, Control
<1>2. CASE IsCopied(p)
  BY <1>2 DEF DeliverInv, Taken64
<1>3. CASE ~IsCopied(p)
  <2>1. /\ ~win64_returns_by_reference(Params64[p].ty) /\ ~(p <= 4)
        /\ p \in 1 .. msCall.named + Extra /\ Extra \in 0 .. 1 /\ msCall.named \in 0 .. Len(msCall.args)
        /\ Len(msCall.args) \in Nat /\ DOMAIN msCall.args = 1 .. Len(msCall.args)
    BY <1>1, <1>3, ParamsTyped, CallTyped DEF IsCopied
  <2>2. p \in 1 + Extra .. msCall.named + Extra
    BY <2>1
  <2>3. PICK a : a = p - Extra
    OBVIOUS
  <2>4. a \in DOMAIN msCall.args /\ a + Extra = p /\ a # 0
    BY <2>1, <2>3
  <2>5. Params64[p].arg = a /\ Params64[p].ty = msCall.args[a]
    <3>1. Params64[p] = [arg |-> p - Extra, ty |-> msCall.args[p - Extra]]
      BY <1>1, <2>2, ParamsTyped, Zenon
    <3> QED BY <2>3, <3>1
  <2>6. Word(mem, Slot(p)) = PassedWord(a)
    <3>1. InSlot(a)
      BY <2>1, <2>4 DEF DeliverInv, InSlots
    <3> QED BY <2>4, <3>1 DEF InSlot
  <2>7. Base + Layout64.param[p] = Slot(p)
    BY <1>1, <2>1, OnStack
  <2>8. ASSUME NEW k \in 0 .. Params64[p].ty.size - 1
        PROVE  Byte(mem, Slot(p) + k) = <<"arg", a, k>>
    <3>1. k \in 0 .. 7 /\ PassedWord(a)[k] = <<"arg", a, k>>
      BY <1>1, <2>1, <2>4, <2>5, <2>8, PassedBytes
    <3>2. Word(mem, Slot(p))[k] = Byte(mem, Slot(p) + k)
      BY <3>1 DEF Word
    <3> QED BY <2>6, <3>1, <3>2
  <2> QED BY <2>4, <2>5, <2>7, <2>8 DEF Holds, ParamByte
<1> QED BY <1>2, <1>3

(* For every call the two sides understand alike the callee is the function  *)
(* meant, its parameters hold the caller's arguments byte by byte wherever   *)
(* those were before, and va_arg finds the unnamed ones in order:            *)
(* win64_emit_call and win64_emit_prologue agree on registers and slots, and *)
(* no store in between touches what another one left to be read.             *)
THEOREM ArgumentsAlwaysDelivered == Win64Spec => [](Understood => Win64Delivers)
<1> DEFINE Inv == ReturnInv /\ DeliverInv
<1>1. InitWin64 => Inv
  BY StartsReady, StartsEmpty
<1>2. Inv /\ [NextWin64]_win64Vars => Inv'
  BY ReturnStep, DeliverStep
<1>3. Inv => (Understood => Win64Delivers)
  <2> SUFFICES ASSUME ReturnInv, DeliverInv, Understood PROVE Win64Delivers
    OBVIOUS
  <2>1. step = "prologue" /\ msCall.target # 0 => reg["r10"] = Address(TARGET)
    BY DEF DeliverInv, TargetKnown
  <2>2. ASSUME step = "body", NEW p \in DOMAIN Params64
        PROVE  [k \in 0 .. Params64[p].ty.size - 1 |-> ReadByte(ParamAt(p) + k)]
                 = (IF Params64[p].arg = 0 THEN Address(0) ELSE Value(Params64[p].arg))
    <3>1. msCall \in Win64Calls /\ ParamAt(p) = Base + Layout64.param[p]
      BY <2>2 DEF ReturnInv, Control, Callee, ParamAt
    <3>2. ASSUME NEW k \in 0 .. Params64[p].ty.size - 1
          PROVE  ReadByte(ParamAt(p) + k) = ParamByte(p, k)
      BY <2>2, <3>1, AllHeld, Contents DEF Holds
    <3>3. [k \in 0 .. Params64[p].ty.size - 1 |-> ReadByte(ParamAt(p) + k)]
            = [k \in 0 .. Params64[p].ty.size - 1 |-> ParamByte(p, k)]
      BY <3>2
    <3>4. /\ Extra \in 0 .. 1 /\ msCall.named \in Nat /\ p \in 1 .. msCall.named + Extra
          /\ Extra = 1 => Params64[1] = [arg |-> 0, ty |-> PointerType]
      BY <3>1, ParamsTyped, CallTyped
    <3>5. CASE p <= Extra
      <4>1. Params64[p] = [arg |-> 0, ty |-> PointerType]
        BY <3>4, <3>5
      <4>2. Params64[p].ty.size = 8 /\ Params64[p].arg = 0
        BY <4>1 DEF PointerType
      <4>3. [k \in 0 .. 7 |-> Address(0)[k]] = Address(0)
        BY DEF Address, Object
      <4> QED BY <3>3, <4>2, <4>3 DEF ParamByte
    <3>6. CASE ~(p <= Extra)
      <4>1. p \in 1 + Extra .. msCall.named + Extra /\ p - Extra # 0
        BY <3>4, <3>6
      <4>2. Params64[p].arg = p - Extra /\ Params64[p].ty = msCall.args[p - Extra]
        <5>1. Params64[p] = [arg |-> p - Extra, ty |-> msCall.args[p - Extra]]
          BY <3>1, <4>1, ParamsTyped, Zenon
        <5> QED BY <5>1
      <4> QED BY <3>3, <4>1, <4>2 DEF ParamByte, Value
    <3> QED BY <3>5, <3>6
  <2>3. ASSUME step = "body", NEW n \in DOMAIN vaArgs
        PROVE  vaArgs[n] = Value(msCall.named + n)
    <3>1. msCall \in Win64Calls /\ nth \in msCall.named + 1 .. Len(msCall.args) + 1
      BY <2>3 DEF ReturnInv, Control
    <3>2. msCall.named \in Nat /\ Len(msCall.args) \in Nat /\ DOMAIN msCall.args = 1 .. Len(msCall.args)
      BY <3>1, CallTyped
    <3>3. n \in 1 .. nth - msCall.named - 1
      <4>1. vaArgs = [i \in 1 .. nth - msCall.named - 1 |-> vaArgs[i]]
        BY <2>3 DEF DeliverInv, Found
      <4>2. DOMAIN vaArgs = 1 .. nth - msCall.named - 1
        BY <4>1
      <4> QED BY <4>2
    <3>4. msCall.named + n \in DOMAIN msCall.args /\ msCall.named + n > msCall.named
      BY <3>1, <3>2, <3>3
    <3> QED BY <2>3, <3>3, <3>4 DEF DeliverInv, Found, Understood
  <2> QED BY <2>1, <2>2, <2>3 DEF Win64Delivers
<1> QED BY <1>1, <1>2, <1>3, PTL DEF Win64Spec
=============================================================================
