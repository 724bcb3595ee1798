--------------------------- MODULE LinearScanProof ---------------------------
(* Machine-checked proofs about RegAlloc and LinearScan.                     *)
(*                                                                           *)
(* The allocator is type correct, never gives one register to two values at  *)
(* once and never leaves a value in a scratch register across a call, gives  *)
(* every other value a slot of its own in a sound frame and keeps it         *)
(* reserved while the value lives, for every pool, every set of intervals,   *)
(* every type and every call; nothing of LinearScan is used for this.        *)
(*                                                                           *)
(* The intervals cover the positions where values are live, whatever the     *)
(* control flow, and from the code of a function to its registers no value   *)
(* is overwritten before its last use.                                       *)
(*                                                                           *)
(* LiveIn is the recursive function that grows a set backwards along the     *)
(* control flow.  That it is the least set closed under one step is proved   *)
(* by least counterexample: among the sets for which it were not, take one   *)
(* that leaves the fewest positions out.                                     *)
EXTENDS LinearScan, FiniteSetTheorems, WellFoundedInduction, TLAPS

-----------------------------------------------------------------------------
(* Lemmas about the helpers. *)

(* align_to returns a byte count. *)
LEMMA AlignToIsNat ==
  ASSUME NEW n \in Nat, NEW a \in Nat \ {0}
  PROVE  AlignTo(n, a) \in Nat
<1>1. (n + a - 1) \div a \in Nat
  OBVIOUS
<1>2. QED
  BY <1>1 DEF AlignTo

(* Sizes and alignments stay positive when normalised to a word. *)
LEMMA NormalizedIsPositive ==
  ASSUME TypeOK, NEW v \in Ranks
  PROVE  NormalizeSize(v) \in Nat \ {0} /\ NormalizeAlign(v) \in Nat \ {0}
<1>1. shape[v] \in Shape
  BY InputsAreTyped DEF TypeOK
<1>2. QED
  BY <1>1 DEF NormalizeSize, NormalizeAlign, Shape

(* Every register the search may return is in the pool. *)
LEMMA AllowedInPool ==
  ASSUME NEW v, NEW r \in Allowed(v)
  PROVE  r \in Pool /\ r # NoReg
<1>1. CASE shape[v].float
  BY <1>1, CountsAreNat DEF Allowed, Pool, FpPool, GpCount, NoReg
<1>2. CASE ~shape[v].float
  BY <1>2, CountsAreNat DEF Allowed, Pool, GpPool, GpCount, NoReg
<1>3. QED
  BY <1>1, <1>2

(* The registers allowed for a vreg are those that suit it: of its class,   *)
(* and not a scratch register when a call lies inside the interval.         *)
Suits(v, r) == /\ r \in FpPool <=> shape[v].float
               /\ r \in Scratch => \A c \in calls : c <= def[v] \/ last[v] <= c

LEMMA AllowedSuits ==
  ASSUME TypeOK, NEW v \in Ranks, NEW r \in Pool
  PROVE  r \in Allowed(v) <=> Suits(v, r)
<1>1. /\ def[v] \in Int /\ last[v] \in Int /\ shape[v].float \in BOOLEAN
      /\ \A c \in calls : c \in Int
  BY InputsAreTyped DEF TypeOK, Pos, NoUse, Shape
<1>2. SpansCall(v) <=> ~ \A c \in calls : c <= def[v] \/ last[v] <= c
  BY <1>1 DEF SpansCall
<1>3. /\ r \in FpPool <=> r \notin GpPool
      /\ r \in Scratch => r \in GpPool
  BY CountsAreNat DEF Pool, FpPool, GpPool, Scratch, GpCount
<1>4. QED
  BY <1>1, <1>2, <1>3 DEF Allowed, Suits

(* A slot number in the table is one of the NumVRegs entries. *)
LEMMA SlotNumber ==
  ASSUME TypeOK
  PROVE  /\ Len(slots) \in Nat
         /\ DOMAIN slots = 1 .. Len(slots)
         /\ DOMAIN slots \subseteq Ranks
BY CountsAreNat DEF TypeOK, Ranks

(* Giving a vreg a slot keeps the table and the frame well typed. *)
LEMMA GiveSlotType ==
  ASSUME TypeOK, NEW v \in Ranks, NEW start, GiveSlot(v, start)
  PROVE  /\ slots' \in Seq(SlotType)
         /\ Len(slots') \in Len(slots) .. Len(slots) + 1
         /\ slotLast' \in [Ranks -> Pos \cup {NoUse}]
         /\ busy' \subseteq DOMAIN slots'
         /\ slot' \in [Ranks -> 0 .. Len(slots')]
         /\ spillOffset' \in Nat
<1>1. last[v] \in Pos \cup {NoUse}
  BY DEF TypeOK
<1>2. BusyAfterExpiry(start) \subseteq DOMAIN slots
  BY DEF BusyAfterExpiry, TypeOK
<1>3. CASE ReuseSlot(v, start)
  <2>1. PICK s \in DOMAIN slots : Occupy(s, v, start) /\ UNCHANGED <<slots, spillOffset>>
    BY <1>3 DEF ReuseSlot, Reusable
  <2>2. s \in Ranks /\ s \in 1 .. Len(slots) /\ Len(slots) \in Nat
    BY <2>1, SlotNumber
  <2>3. QED
    BY <1>1, <1>2, <2>1, <2>2 DEF Occupy, TypeOK
<1>4. CASE NewSlot(v, start)
  <2> DEFINE bottom == AlignTo(spillOffset, NormalizeAlign(v)) + NormalizeSize(v)
             new == [offset |-> bottom, size |-> NormalizeSize(v)]
  <2>1. bottom \in Nat
    <3>1. NormalizeAlign(v) \in Nat \ {0} /\ NormalizeSize(v) \in Nat
      BY NormalizedIsPositive
    <3>2. AlignTo(spillOffset, NormalizeAlign(v)) \in Nat
      BY <3>1, AlignToIsNat DEF TypeOK
    <3>3. QED
      BY <3>1, <3>2
  <2>2. new \in SlotType
    BY <2>1, NormalizedIsPositive DEF SlotType
  <2>3. spillOffset' = bottom /\ slots' = Append(slots, new)
    BY <1>4 DEF NewSlot
  <2> HIDE DEF new, bottom
  <2>4. /\ slots' \in Seq(SlotType)
        /\ Len(slots') = Len(slots) + 1
        /\ DOMAIN slots' = 1 .. Len(slots) + 1
    BY <2>2, <2>3, SlotNumber DEF TypeOK
  <2>5. Occupy(Len(slots) + 1, v, start) /\ Len(slots) + 1 \in Ranks
    BY <1>4, <2>4, SlotNumber, CountsAreNat DEF NewSlot, Ranks
  <2>6. QED
    BY <1>1, <1>2, <2>1, <2>3, <2>4, <2>5, SlotNumber DEF Occupy, TypeOK
<1>5. QED
  BY <1>3, <1>4 DEF GiveSlot

-----------------------------------------------------------------------------
(* Type correctness. *)

(* Expiry only ever removes: what is left was active, and marked, before. *)
LEMMA ExpiryShrinks ==
  ASSUME NEW start
  PROVE  /\ LiveActive(start) \subseteq active
         /\ UsedAfterExpiry(start) \subseteq used
BY DEF LiveActive, UsedAfterExpiry

(* The vreg numbers handled before and after an iteration. *)
LEMMA NextHandled ==
  ASSUME TypeOK, Allocate
  PROVE  /\ cur \in Ranks
         /\ cur' = cur + 1
         /\ Handled' = Handled \cup {cur}
         /\ cur \notin Handled
         /\ Handled \subseteq Ranks
BY CountsAreNat DEF TypeOK, Allocate, Ranks, Handled

(* One iteration keeps every variable in its range. *)
LEMMA AllocateType ==
  ASSUME TypeOK, Allocate
  PROVE  TypeOK'
<1>1. /\ cur \in Ranks /\ cur \notin Handled /\ cur' = cur + 1
      /\ Handled' = Handled \cup {cur} /\ Handled \subseteq Ranks
  BY NextHandled
<1>2. cur' \in 1 .. NumVRegs + 1
  BY <1>1, CountsAreNat DEF Ranks
<1>3. /\ def' \in [Ranks -> Pos] /\ last' \in [Ranks -> Pos \cup {NoUse}]
      /\ shape' \in [Ranks -> Shapes] /\ calls' \in CallSets
  BY DEF TypeOK, Allocate, input
<1>4. LiveActive(def[cur]) \subseteq Handled /\ UsedAfterExpiry(def[cur]) \subseteq Pool
  BY ExpiryShrinks DEF TypeOK
<1>5. ASSUME NEW n \in Len(slots) .. Len(slots) + 1 PROVE n < cur'
  BY <1>1, SlotNumber DEF TypeOK, Ranks
<1>6. CASE TakeRegister(cur)
  <2>1. PICK r \in FreeRegs(cur) : /\ reg' = [reg EXCEPT ![cur] = r]
                                  /\ used' = UsedAfterExpiry(def[cur]) \cup {r}
                                  /\ active' \subseteq LiveActive(def[cur]) \cup {cur}
                                  /\ busy' = BusyAfterExpiry(def[cur])
                                  /\ UNCHANGED <<slot, slots, slotLast, spillOffset>>
    BY <1>6 DEF TakeRegister
  <2>2. r \in Pool
    BY <2>1, AllowedInPool DEF FreeRegs
  <2>3. active' \subseteq Handled' /\ used' \subseteq Pool /\ reg' \in [Ranks -> Pool \cup {NoReg}]
    BY <1>1, <1>4, <2>1, <2>2 DEF TypeOK
  <2>4. busy' \subseteq DOMAIN slots'
    BY <2>1 DEF TypeOK, BusyAfterExpiry
  <2>5. Len(slots') < cur'
    BY <1>5, <2>1, SlotNumber
  <2>6. QED
    BY <1>2, <1>3, <2>1, <2>3, <2>4, <2>5 DEF TypeOK
<1>7. CASE EvictActive(cur)
  <2>1. PICK w \in LiveActive(def[cur]) :
          /\ reg' = [reg EXCEPT ![cur] = reg[w], ![w] = NoReg]
          /\ used' = UsedAfterExpiry(def[cur])
          /\ active' = (LiveActive(def[cur]) \ {w}) \cup {cur}
          /\ GiveSlot(w, def[cur])
    BY <1>7 DEF EvictActive, Furthest, Victims
  <2>2. w \in Ranks
    BY <1>1, <1>4, <2>1
  <2>3. active' \subseteq Handled' /\ used' \subseteq Pool /\ reg' \in [Ranks -> Pool \cup {NoReg}]
    BY <1>1, <1>4, <2>1, <2>2 DEF TypeOK
  <2>4. QED
    BY <1>2, <1>3, <1>5, <2>1, <2>2, <2>3, GiveSlotType DEF TypeOK
<1>8. CASE SpillCurrent(cur)
  <2>1. active' \subseteq Handled' /\ used' \subseteq Pool /\ reg' \in [Ranks -> Pool \cup {NoReg}]
    BY <1>1, <1>4, <1>8 DEF SpillCurrent, TypeOK
  <2>2. GiveSlot(cur, def[cur])
    BY <1>8 DEF SpillCurrent
  <2>3. QED
    BY <1>1, <1>2, <1>3, <1>5, <2>1, <2>2, GiveSlotType DEF TypeOK
<1>9. QED
  BY <1>6, <1>7, <1>8 DEF Allocate

(* The initial state is well typed. *)
LEMMA InitType ==
  ASSUME Init
  PROVE  TypeOK
<1>1. /\ cur \in 1 .. NumVRegs + 1 /\ slots \in Seq(SlotType) /\ Len(slots) < cur
      /\ slot \in [Ranks -> 0 .. Len(slots)] /\ spillOffset \in Nat
  BY CountsAreNat, InputsAreTyped DEF Init
<1>2. QED
  BY <1>1 DEF Init, Intervals, TypeOK, NoReg, NoUse

(* The allocator's state is always well typed. *)
THEOREM TypeCorrect == Spec => []TypeOK
<1>1. Init => TypeOK
  BY InitType
<1>2. TypeOK /\ [Next]_vars => TypeOK'
  <2> SUFFICES ASSUME TypeOK, [Next]_vars PROVE TypeOK'
    OBVIOUS
  <2>1. CASE Allocate
    BY <2>1, AllocateType
  <2>2. CASE Finish
    BY <2>2 DEF Finish, TypeOK, Handled, input, table
  <2>3. CASE UNCHANGED vars
    BY <2>3 DEF vars, TypeOK, Handled
  <2>4. QED
    BY <2>1, <2>2, <2>3 DEF Next, Terminated
<1>3. QED
  BY <1>1, <1>2, PTL DEF Spec

-----------------------------------------------------------------------------
(* Register safety. *)

(* The inductive invariant: the input stays sorted, registers in use are    *)
(* protected, and what is to be proved.                                     *)
RegInv ==
  /\ TypeOK
  /\ Intervals
  /\ HoldersProtected
  /\ RegistersDisjoint
  /\ RegisterSuits

(* After expiry at def[cur] a handled vreg that still needs its register    *)
(* has it protected.                                                        *)
LEMMA StillHeld ==
  ASSUME RegInv, cur \in Ranks, NEW v \in Handled, reg[v] # NoReg,
         last[v] >= def[cur]
  PROVE  /\ reg[v] \in UsedAfterExpiry(def[cur])
         /\ v \in LiveActive(def[cur]) \/ \A w \in active : reg[w] # reg[v]
<1>1. v \in Ranks /\ cur - 1 \in Ranks /\ cur - 1 < cur
  BY CountsAreNat DEF Handled, Ranks
<1>2. last[v] \in Int /\ def[cur] \in Int /\ def[cur - 1] \in Int /\ def[cur - 1] <= def[cur]
  BY <1>1, CountsAreNat DEF RegInv, Intervals, TypeOK, Pos, NoUse
<1>3. ~(last[v] < def[cur - 1]) /\ ~(last[v] < def[cur])
  BY <1>2
<1>4. CASE v \in active
  <2>1. v \in LiveActive(def[cur]) /\ v \notin Expired(def[cur])
    BY <1>3, <1>4 DEF LiveActive, Expired
  <2>2. reg[v] \in used /\ \A w \in Expired(def[cur]) : reg[w] # reg[v]
    BY <1>4, <2>1 DEF RegInv, HoldersProtected, Expired
  <2>3. QED
    BY <2>1, <2>2 DEF UsedAfterExpiry
<1>5. CASE v \notin active
  <2>1. reg[v] \in used /\ \A w \in active : reg[w] # reg[v]
    BY <1>3, <1>5 DEF RegInv, HoldersProtected
  <2>2. QED
    BY <2>1 DEF UsedAfterExpiry, Expired
<1>6. QED
  BY <1>4, <1>5

(* The registers of the active vregs that remain stay marked. *)
LEMMA LiveIsMarked ==
  ASSUME RegInv, NEW v \in LiveActive(def[cur])
  PROVE  reg[v] \in UsedAfterExpiry(def[cur])
BY DEF RegInv, HoldersProtected, LiveActive, Expired, UsedAfterExpiry

(* What an iteration does to the register assignment: cur gets r, or stays  *)
(* in memory (r = NoReg); w0 loses its register, when one is evicted.       *)
(* Every way an iteration can do it keeps the registers safe, provided r    *)
(* is not held by a vreg that remains live and suits cur's interval.        *)
LEMMA AssignmentIsSafe ==
  ASSUME RegInv, Allocate, NEW r \in Pool \cup {NoReg}, NEW W \in SUBSET Ranks,
         cur \notin W,
         \A v \in Ranks : reg'[v] = IF v = cur THEN r
                                    ELSE IF v \in W THEN NoReg ELSE reg[v],
         r # NoReg => r \in Allowed(cur),
         \A v \in Handled \ W : reg[v] # NoReg /\ reg[v] = r => last[v] < def[cur]
  PROVE  RegistersDisjoint' /\ RegisterSuits'
<1>1. /\ cur \in Ranks /\ cur \notin Handled /\ cur' = cur + 1
      /\ Handled' = Handled \cup {cur} /\ Handled \subseteq Ranks
  BY NextHandled DEF RegInv
<1>2. UNCHANGED <<def, last, shape, calls>>
  BY DEF Allocate, input
<1>3. (\A v \in Handled : v < cur /\ ~(cur < v)) /\ ~(cur < cur)
  BY <1>1 DEF Handled, Ranks
<1>4. ASSUME NEW v \in Handled', NEW w \in Handled', reg'[v] # NoReg,
             reg'[v] = reg'[w], v < w
      PROVE  last[v] < def[w]
  <2>1. v \in Handled /\ v # cur /\ v \notin W
    BY <1>1, <1>3, <1>4
  <2>2. CASE w = cur
    BY <1>1, <1>4, <2>1, <2>2
  <2>3. CASE w # cur
    <3>1. w \in Handled /\ w \notin W /\ reg[v] = reg[w] /\ reg[v] # NoReg
      BY <1>1, <1>4, <2>1, <2>3
    <3>2. QED
      BY <1>4, <2>1, <3>1 DEF RegInv, RegistersDisjoint, Apart
  <2>4. QED
    BY <2>2, <2>3
<1>5. RegistersDisjoint'
  BY <1>2, <1>4 DEF RegistersDisjoint, Apart
<1>6. ASSUME NEW v \in Handled', reg'[v] # NoReg
      PROVE  Suits(v, reg'[v])
  <2>1. CASE v = cur
    <3>1. reg'[v] = r /\ r \in Allowed(cur) /\ r \in Pool
      BY <1>1, <1>6, <2>1
    <3>2. QED
      BY <1>1, <2>1, <3>1, AllowedSuits DEF RegInv
  <2>2. CASE v # cur
    BY <1>1, <1>6, <2>2 DEF RegInv, RegisterSuits, Suits
  <2>3. QED
    BY <2>1, <2>2
<1>7. RegisterSuits'
  BY <1>2, <1>6 DEF RegisterSuits, Suits, FpPool, Scratch, GpCount
<1>8. QED
  BY <1>5, <1>7

(* One iteration keeps the invariant. *)
LEMMA AllocateInv ==
  ASSUME RegInv, Allocate
  PROVE  RegInv'
<1> DEFINE start == def[cur]
<1>1. /\ cur \in Ranks /\ cur \notin Handled /\ cur' = cur + 1 /\ cur' - 1 = cur
      /\ Handled' = Handled \cup {cur} /\ Handled \subseteq Ranks
  BY NextHandled DEF RegInv, Ranks
<1>2. TypeOK'
  BY AllocateType DEF RegInv
<1>3. UNCHANGED <<def, last, shape, calls>>
  BY DEF Allocate, input
<1>4. Intervals'
  BY <1>3 DEF RegInv, Intervals
<1>5. \A v \in Handled : last[v] \in Int /\ def[cur] \in Int
  BY <1>1 DEF RegInv, TypeOK, Pos, NoUse
<1>6. LiveActive(start) \subseteq active /\ active \subseteq Handled
  BY ExpiryShrinks DEF RegInv, TypeOK
<1>7. \A v \in LiveActive(start) : reg[v] \in UsedAfterExpiry(start)
  BY LiveIsMarked
<1>8. \A v \in Handled : reg[v] # NoReg /\ ~(last[v] < start) =>
         /\ reg[v] \in UsedAfterExpiry(start)
         /\ v \in LiveActive(start) \/ \A w \in active : reg[w] # reg[v]
  BY <1>1, <1>5, StillHeld
<1>9. \A v \in Ranks : reg[v] \in Pool \cup {NoReg}
  BY DEF RegInv, TypeOK
<1>10. reg \in [Ranks -> Pool \cup {NoReg}] /\ reg[cur] = NoReg
  BY <1>1 DEF RegInv, TypeOK, HoldersProtected
<1>11. CASE TakeRegister(cur)
  <2>1. PICK r \in FreeRegs(cur) :
          /\ reg' = [reg EXCEPT ![cur] = r]
          /\ used' = UsedAfterExpiry(start) \cup {r}
          /\ \/ active' = LiveActive(start) \cup {cur}
             \/ active' = LiveActive(start)
    BY <1>11 DEF TakeRegister
  <2>2. r \in Pool /\ r # NoReg /\ r \in Allowed(cur) /\ r \notin UsedAfterExpiry(start)
    BY <2>1, AllowedInPool DEF FreeRegs
  <2>3. RegistersDisjoint' /\ RegisterSuits'
    <3> DEFINE W == {}
    <3>1. W \in SUBSET Ranks /\ cur \notin W
      OBVIOUS
    <3>2. \A v \in Ranks : reg'[v] = IF v = cur THEN r ELSE IF v \in W THEN NoReg ELSE reg[v]
      BY <1>10, <2>1
    <3>3. \A v \in Handled \ W : reg[v] # NoReg /\ reg[v] = r => last[v] < def[cur]
      BY <1>8, <2>2
    <3> HIDE DEF W
    <3>4. QED
      BY <2>2, <3>1, <3>2, <3>3, AssignmentIsSafe
  <2>4. HoldersProtected'
    <3>1. \A v \in Ranks \ Handled' : reg'[v] = NoReg
      BY <1>1, <1>10, <2>1 DEF RegInv, HoldersProtected
    <3>2. \A v \in LiveActive(start) : reg'[v] = reg[v] /\ reg'[v] # r
      BY <1>1, <1>6, <1>7, <1>10, <2>1, <2>2
    <3>3. reg'[cur] = r
      BY <1>1, <1>10, <2>1
    <3>4. \A v \in active' : reg'[v] \in used'
      BY <1>7, <2>1, <3>2, <3>3
    <3>5. \A v, w \in active' : reg'[v] = reg'[w] => v = w
      BY <1>6, <2>1, <3>2, <3>3 DEF RegInv, HoldersProtected
    <3>6. ASSUME NEW v \in Handled', reg'[v] # NoReg
          PROVE  \/ v \in active'
                 \/ last[v] < start
                 \/ reg'[v] \in used' /\ \A w \in active' : reg'[w] # reg'[v]
      <4>1. CASE v = cur
        BY <2>1, <3>2, <3>3, <4>1
      <4>2. CASE v # cur
        <5>1. v \in Handled /\ reg'[v] = reg[v]
          BY <1>1, <1>10, <2>1, <3>6, <4>2
        <5>2. QED
          BY <1>6, <1>8, <2>1, <2>2, <3>2, <3>3, <3>6, <5>1
      <4>3. QED
        BY <4>1, <4>2
    <3>7. QED
      BY <1>1, <1>3, <3>1, <3>4, <3>5, <3>6 DEF HoldersProtected
  <2>5. QED
    BY <1>2, <1>4, <2>3, <2>4 DEF RegInv
<1>12. CASE EvictActive(cur)
  <2>1. PICK x \in Victims(cur) :
          /\ reg' = [reg EXCEPT ![cur] = reg[x], ![x] = NoReg]
          /\ used' = UsedAfterExpiry(start)
          /\ active' = (LiveActive(start) \ {x}) \cup {cur}
    BY <1>12 DEF EvictActive, Furthest
  <2>2. x \in LiveActive(start) /\ x \in Handled /\ x \in Ranks /\ x # cur
    BY <1>1, <1>6, <2>1 DEF Victims
  <2>3. \A v \in Ranks : reg'[v] = IF v = cur THEN reg[x] ELSE IF v \in {x} THEN NoReg ELSE reg[v]
    BY <1>10, <2>1, <2>2
  <2>4. reg[x] \in Allowed(cur)
    <3>1. reg[x] \in Pool /\ reg[x] # NoReg
      BY <2>2, <1>7, CountsAreNat DEF UsedAfterExpiry, RegInv, TypeOK, Pool, GpPool, FpPool, GpCount, NoReg
    <3>2. reg[x] \in Allowed(x)
      BY <2>2, <3>1, AllowedSuits DEF RegInv, RegisterSuits, Suits
    <3>3. QED
      BY <2>1, <3>2 DEF Victims, Allowed
  <2>5. RegistersDisjoint' /\ RegisterSuits'
    <3>1. \A v \in Handled \ {x} : reg[v] # NoReg /\ reg[v] = reg[x] => last[v] < def[cur]
      BY <1>6, <1>8, <2>2 DEF RegInv, HoldersProtected
    <3>2. QED
      BY <1>9, <2>2, <2>3, <2>4, <3>1, AssignmentIsSafe
  <2>6. HoldersProtected'
    <3>1. \A v \in Ranks \ Handled' : reg'[v] = NoReg
      BY <1>1, <2>2, <2>3 DEF RegInv, HoldersProtected
    <3>2. \A v \in active' : reg'[v] \in used'
      BY <1>1, <1>6, <1>7, <2>1, <2>2, <2>3
    <3>3. \A v, w \in active' : reg'[v] = reg'[w] => v = w
      BY <1>1, <1>6, <2>1, <2>2, <2>3 DEF RegInv, HoldersProtected
    <3>4. ASSUME NEW v \in Handled', reg'[v] # NoReg
          PROVE  \/ v \in active'
                 \/ last[v] < start
                 \/ reg'[v] \in used' /\ \A w \in active' : reg'[w] # reg'[v]
      <4>1. CASE v = cur
        BY <2>1, <4>1
      <4>2. CASE v # cur
        <5>1. v \in Handled /\ v # x /\ reg'[v] = reg[v]
          BY <1>1, <2>3, <3>4, <4>2
        <5>2. QED
          BY <1>1, <1>6, <1>8, <2>1, <2>2, <2>3, <3>4, <5>1
      <4>3. QED
        BY <4>1, <4>2
    <3>5. QED
      BY <1>1, <1>3, <3>1, <3>2, <3>3, <3>4 DEF HoldersProtected
  <2>7. QED
    BY <1>2, <1>4, <2>5, <2>6 DEF RegInv
<1>13. CASE SpillCurrent(cur)
  <2>1. reg' = reg /\ used' = UsedAfterExpiry(start) /\ active' = LiveActive(start)
    BY <1>13 DEF SpillCurrent
  <2>2. RegistersDisjoint' /\ RegisterSuits'
    <3> DEFINE W == {}
    <3>1. W \in SUBSET Ranks /\ cur \notin W
      OBVIOUS
    <3>2. \A v \in Ranks : reg'[v] = IF v = cur THEN NoReg ELSE IF v \in W THEN NoReg ELSE reg[v]
      BY <1>10, <2>1
    <3> HIDE DEF W
    <3>3. QED
      BY <3>1, <3>2, AssignmentIsSafe
  <2>3. HoldersProtected'
    <3>1. ASSUME NEW v \in Handled', reg'[v] # NoReg
          PROVE  \/ v \in active'
                 \/ last[v] < start
                 \/ reg'[v] \in used' /\ \A w \in active' : reg'[w] # reg'[v]
      BY <1>1, <1>6, <1>8, <1>10, <2>1, <3>1
    <3>2. QED
      BY <1>1, <1>3, <1>6, <1>7, <2>1, <3>1 DEF RegInv, HoldersProtected
  <2>4. QED
    BY <1>2, <1>4, <2>2, <2>3 DEF RegInv
<1>14. QED
  BY <1>11, <1>12, <1>13 DEF Allocate

(* RegInv is an invariant of the allocator. *)
LEMMA RegInvAtStart ==
  ASSUME Init
  PROVE  RegInv
<1>1. Handled = {}
  BY DEF Init, Handled
<1>2. TypeOK
  BY InitType
<1>3. QED
  BY <1>1, <1>2 DEF Init, RegInv, HoldersProtected, RegistersDisjoint, RegisterSuits

LEMMA RegInvStep ==
  ASSUME RegInv, [Next]_vars
  PROVE  RegInv'
<1>1. CASE Allocate
  BY <1>1, AllocateInv
<1>2. CASE Finish
  BY <1>2 DEF Finish, input, table, RegInv, TypeOK, Intervals, HoldersProtected,
     RegistersDisjoint, Apart, RegisterSuits, Handled
<1>3. CASE UNCHANGED vars
  BY <1>3 DEF vars, RegInv, TypeOK, Intervals, HoldersProtected,
     RegistersDisjoint, Apart, RegisterSuits, Handled
<1>4. QED
  BY <1>1, <1>2, <1>3 DEF Next, Terminated

LEMMA RegInvCorrect == Spec => []RegInv
BY RegInvAtStart, RegInvStep, PTL DEF Spec

(* No physical register ever holds two values whose intervals overlap, for  *)
(* every pool and every input: the property the allocator exists for.       *)
THEOREM RegistersAreDisjoint == Spec => []RegistersDisjoint
BY RegInvCorrect, PTL DEF RegInv

(* Nor is a value that must survive a call ever in a register calls clobber, *)
(* or in one of the wrong class: every register is right for its value.      *)
THEOREM RegistersSound == Spec => []RegistersAreSound
BY RegInvCorrect, PTL DEF RegInv, RegistersAreSound

-----------------------------------------------------------------------------
(* The frame. *)

(* Quotient and remainder. *)
LEMMA DivMod ==
  ASSUME NEW n \in Int, NEW a \in Nat \ {0}
  PROVE  /\ n \div a \in Int /\ n % a \in 0 .. a - 1
         /\ n = (n \div a) * a + (n % a)
OBVIOUS

(* A multiple leaves no remainder, *)
LEMMA MultipleMod ==
  ASSUME NEW q \in Int, NEW a \in Nat \ {0}
  PROVE  (q * a) % a = 0
<1> DEFINE d == (q * a) \div a
           r == (q * a) % a
<1>1. q * a \in Int
  OBVIOUS
<1>2. d \in Int /\ r \in 0 .. a - 1 /\ q * a = d * a + r
  BY <1>1, DivMod
<1> HIDE DEF d, r
<1>3. (q - d) * a = r
  BY <1>2
<1>4. CASE q - d >= 1
  <2>1. (q - d) * a >= a
    BY <1>2, <1>4
  <2>2. QED
    BY <1>2, <1>3, <2>1
<1>5. CASE q - d <= -1
  <2>1. (q - d) * a <= -a
    BY <1>2, <1>5
  <2>2. QED
    BY <1>2, <1>3, <2>1
<1>6. CASE q = d
  BY <1>2, <1>6 DEF r
<1>7. QED
  BY <1>2, <1>4, <1>5, <1>6

(* nor does the sum of two. *)
LEMMA SumMod ==
  ASSUME NEW a \in Nat \ {0}, NEW m \in Int, NEW n \in Int, m % a = 0, n % a = 0
  PROVE  (m + n) % a = 0
<1> DEFINE p == m \div a
           q == n \div a
<1>1. p \in Int /\ q \in Int /\ m = p * a /\ n = q * a
  BY DivMod
<1> HIDE DEF p, q
<1>2. m + n = (p + q) * a /\ p + q \in Int
  BY <1>1
<1>3. QED
  BY <1>2, MultipleMod

(* align_to rounds up to a multiple. *)
LEMMA AlignToIsAligned ==
  ASSUME NEW n \in Nat, NEW a \in Nat \ {0}
  PROVE  /\ AlignTo(n, a) \in Nat
         /\ AlignTo(n, a) % a = 0
         /\ AlignTo(n, a) >= n
<1> DEFINE d == (n + a - 1) \div a
           r == (n + a - 1) % a
<1>1. n + a - 1 \in Int
  OBVIOUS
<1>2. d \in Int /\ r \in 0 .. a - 1 /\ n + a - 1 = d * a + r
  BY <1>1, DivMod
<1>3. AlignTo(n, a) = d * a
  BY DEF AlignTo
<1> HIDE DEF d, r
<1>4. d * a \in Int /\ d * a >= n
  BY <1>2
<1>5. (d * a) % a = 0
  BY <1>2, MultipleMod
<1>6. QED
  BY <1>3, <1>4, <1>5

(* A place aligned as the slot is suits the alignment of the type. *)
LEMMA AlignmentSuits ==
  ASSUME TypeOK, NEW v \in Ranks, NEW n \in Nat
  PROVE  /\ n % NormalizeAlign(v) = 0 => n % shape[v].align = 0
         /\ NormalizeSize(v) % shape[v].align = 0
         /\ NormalizeSize(v) >= shape[v].size
<1> DEFINE a == shape[v].align
           z == shape[v].size
<1>1. a \in Nat \ {0} /\ z \in Nat \ {0} /\ z % a = 0 /\ (8 % a = 0 \/ a % 8 = 0)
  BY InputsAreTyped, ShapesAreAligned DEF TypeOK, Shape
<1>2. NormalizeAlign(v) = IF a < 8 THEN 8 ELSE a
  BY DEF NormalizeAlign
<1>3. NormalizeSize(v) = IF z < 8 THEN 8 ELSE z
  BY DEF NormalizeSize
<1> HIDE DEF a, z
<1>4. ASSUME a >= 8
      PROVE  z >= 8
  BY <1>1, <1>4, DivMod, SMT
<1>5. ASSUME a < 8
      PROVE  8 % a = 0
  BY <1>1, <1>5, SMT
<1>6. QED
  BY <1>1, <1>2, <1>3, <1>4, <1>5 DEF a, z

(* The slots tile the frame downwards from the spill base: none overlaps    *)
(* another, none reaches the locals above the base, none leaves the frame.  *)
TableSound ==
  /\ \A s, t \in DOMAIN slots : s < t => slots[s].offset <= slots[t].offset - slots[t].size
  /\ \A s \in DOMAIN slots : slots[s].offset <= spillOffset
  /\ \E b \in Bases : /\ b <= spillOffset
                      /\ \A s \in DOMAIN slots : b <= slots[s].offset - slots[s].size

(* A slot given to v fits it, is not one of a live value, and leaves every  *)
(* other slot where it is.                                                  *)
LEMMA GiveSlotSound ==
  ASSUME TypeOK, TableSound, NEW v \in Ranks, NEW start, GiveSlot(v, start), shape' = shape
  PROVE  /\ TableSound'
         /\ \A t \in DOMAIN slots : t \in DOMAIN slots' /\ slots'[t] = slots[t]
         /\ \E s \in Ranks \ BusyAfterExpiry(start) :
              /\ s # 0 /\ s \in DOMAIN slots' /\ Occupy(s, v, start)
              /\ slots'[s].size >= shape[v].size
              /\ slots'[s].offset % shape[v].align = 0
<1>1. DOMAIN slots = 1 .. Len(slots) /\ Len(slots) \in Nat /\ spillOffset \in Nat
      /\ \A s \in DOMAIN slots : slots[s].offset \in Nat /\ slots[s].size \in Nat
  <2>1. DOMAIN slots = 1 .. Len(slots) /\ Len(slots) \in Nat
    BY SlotNumber
  <2>2. slots \in Seq(SlotType) /\ spillOffset \in Nat
    BY DEF TypeOK
  <2>3. \A s \in DOMAIN slots : slots[s] \in SlotType
    BY <2>1, <2>2
  <2>4. QED
    BY <2>1, <2>2, <2>3 DEF SlotType
<1>2. shape[v].size \in Nat \ {0} /\ shape[v].align \in Nat \ {0}
  BY InputsAreTyped DEF TypeOK, Shape
<1>3. NormalizeSize(v) \in Nat \ {0} /\ NormalizeAlign(v) \in Nat \ {0}
  BY NormalizedIsPositive
<1>4. CASE ReuseSlot(v, start)
  <2>1. PICK s \in Reusable(v, start) : Occupy(s, v, start) /\ UNCHANGED <<slots, spillOffset>>
    BY <1>4 DEF ReuseSlot
  <2>2. /\ s \in DOMAIN slots /\ s \notin BusyAfterExpiry(start)
        /\ slots[s].size >= NormalizeSize(v)
        /\ slots[s].offset % NormalizeAlign(v) = 0
    BY <2>1 DEF Reusable
  <2>3. s \in Ranks /\ s # 0
    BY <1>1, <2>2, SlotNumber
  <2>4. slots[s].size >= shape[v].size /\ slots[s].offset % shape[v].align = 0
    <3>1. NormalizeSize(v) >= shape[v].size
      BY <1>1, AlignmentSuits
    <3>2. slots[s].offset % shape[v].align = 0
      BY <1>1, <2>2, AlignmentSuits
    <3>3. QED
      BY <1>1, <1>2, <1>3, <2>2, <3>1, <3>2
  <2>5. TableSound'
    BY <2>1 DEF TableSound
  <2>6. QED
    BY <2>1, <2>2, <2>3, <2>4, <2>5
<1>5. CASE NewSlot(v, start)
  <2> DEFINE top == AlignTo(spillOffset, NormalizeAlign(v))
             size == NormalizeSize(v)
             n == Len(slots) + 1
  <2>1. top \in Nat /\ top % NormalizeAlign(v) = 0 /\ top >= spillOffset
    BY <1>1, <1>3, AlignToIsAligned
  <2>2. /\ spillOffset' = top + size
        /\ slots' = Append(slots, [offset |-> spillOffset', size |-> size])
        /\ Occupy(Len(slots'), v, start)
        /\ Len(slots) < NumVRegs
    BY <1>5 DEF NewSlot
  <2>3. size >= shape[v].size /\ (top + size) % shape[v].align = 0
    <3>1. size >= shape[v].size /\ size % shape[v].align = 0 /\ top % shape[v].align = 0
      BY <2>1, AlignmentSuits
    <3>2. QED
      BY <1>2, <1>3, <2>1, <3>1, SumMod
  <2> HIDE DEF top, size
  <2>4. size \in Nat \ {0}
    BY <1>3 DEF size
  <2>5. /\ DOMAIN slots' = 1 .. n /\ Len(slots') = n
        /\ \A t \in DOMAIN slots : slots'[t] = slots[t]
        /\ slots'[n] = [offset |-> top + size, size |-> size]
    <3>1. slots \in Seq(SlotType)
      BY DEF TypeOK
    <3> DEFINE new == [offset |-> top + size, size |-> size]
    <3>2. slots' = Append(slots, new)
      BY <2>2
    <3> HIDE DEF new
    <3>3. /\ DOMAIN slots' = 1 .. n /\ Len(slots') = n
          /\ \A t \in DOMAIN slots : slots'[t] = slots[t]
          /\ slots'[n] = new
      BY <1>1, <3>1, <3>2
    <3>4. QED
      BY <3>3 DEF new
  <2>6. /\ slots'[n].offset = top + size /\ slots'[n].size = size
        /\ spillOffset' = top + size
        /\ top \in Nat /\ size \in Nat /\ spillOffset \in Nat /\ top >= spillOffset
    BY <1>1, <2>1, <2>2, <2>4, <2>5
  <2>7. n \in Ranks /\ n # 0 /\ n \notin DOMAIN slots /\ n \notin BusyAfterExpiry(start)
    <3>1. n \in Ranks /\ n # 0 /\ n \notin DOMAIN slots
      BY <1>1, <2>2, CountsAreNat DEF Ranks
    <3>2. QED
      BY <3>1 DEF TypeOK, BusyAfterExpiry
  <2> HIDE DEF n
  <2>8. DOMAIN slots' = DOMAIN slots \cup {n} /\ \A t \in DOMAIN slots : t < n /\ ~(n < t) /\ t # n
    BY <1>1, <2>5 DEF n
  <2>9. TableSound'
    <3>1. \A s \in DOMAIN slots : slots[s].offset <= spillOffset
      BY DEF TableSound
    <3>2. ASSUME NEW s \in DOMAIN slots', NEW t \in DOMAIN slots', s < t
          PROVE  slots'[s].offset <= slots'[t].offset - slots'[t].size
      <4>1. s \in DOMAIN slots
        BY <2>8, <3>2, <1>1 DEF n
      <4>2. CASE t = n
        <5>1. slots'[s] = slots[s] /\ slots[s].offset <= spillOffset /\ slots[s].offset \in Nat
          BY <1>1, <2>5, <3>1, <4>1
        <5>2. QED
          BY <2>6, <4>2, <5>1
      <4>3. CASE t # n
        BY <2>5, <2>8, <3>2, <4>1, <4>3 DEF TableSound
      <4>4. QED
        BY <4>2, <4>3
    <3>3. \A s \in DOMAIN slots' : slots'[s].offset <= spillOffset'
      <4>1. slots'[n].offset <= spillOffset'
        BY <2>6
      <4>2. \A s \in DOMAIN slots : slots'[s].offset <= spillOffset'
        <5>1. spillOffset <= spillOffset' /\ spillOffset' \in Nat
          BY <2>6
        <5>2. \A s \in DOMAIN slots : slots'[s].offset \in Nat /\ slots'[s].offset <= spillOffset
          BY <1>1, <2>5, <3>1
        <5>3. QED
          BY <1>1, <5>1, <5>2
      <4>3. QED
        BY <2>8, <4>1, <4>2
    <3>4. \E b \in Bases : /\ b <= spillOffset'
                           /\ \A s \in DOMAIN slots' : b <= slots'[s].offset - slots'[s].size
      <4>1. PICK b \in Bases : /\ b <= spillOffset
                               /\ \A s \in DOMAIN slots : b <= slots[s].offset - slots[s].size
        BY DEF TableSound
      <4>2. b \in Nat
        BY InputsAreTyped
      <4>3. b <= spillOffset' /\ b <= slots'[n].offset - slots'[n].size
        BY <2>6, <4>1, <4>2
      <4>4. \A s \in DOMAIN slots : b <= slots'[s].offset - slots'[s].size
        BY <2>5, <4>1
      <4>5. QED
        BY <2>8, <4>3, <4>4
    <3>5. QED
      BY <3>2, <3>3, <3>4 DEF TableSound
  <2>10. Occupy(n, v, start)
    BY <2>2, <2>5
  <2>11. /\ slots'[n].size >= shape[v].size
         /\ slots'[n].offset % shape[v].align = 0
    BY <2>3, <2>6
  <2>12. \A t \in DOMAIN slots : t \in DOMAIN slots' /\ slots'[t] = slots[t]
    BY <2>5, <2>8
  <2>13. n \in Ranks \ BusyAfterExpiry(start) /\ n \in DOMAIN slots'
    BY <2>7, <2>8
  <2>14. QED
    BY <2>7, <2>9, <2>10, <2>11, <2>12, <2>13
<1>6. QED
  BY <1>4, <1>5 DEF GiveSlot

(* A vreg's home: a handled vreg has a register or a slot that fits it, and *)
(* never both; one that is still to come has neither.                       *)
Homed ==
  /\ \A v \in Ranks \ Handled : reg[v] = NoReg /\ slot[v] = 0
  /\ \A v \in Handled : (reg[v] = NoReg) <=> (slot[v] # 0)
  /\ \A v \in Handled : slot[v] # 0 =>
       /\ slots[slot[v]].size >= shape[v].size
       /\ slots[slot[v]].offset % shape[v].align = 0

(* The frame is laid out once, after the last vreg. *)
FrameIsLast == frame # <<>> => cur > NumVRegs /\ spillOffset <= frame.stackSize

(* The inductive invariant of the frame. *)
FrameInv == /\ RegInv
            /\ TableSound
            /\ Homed
            /\ LiveSlotsReserved
            /\ FrameIsLast

(* The slots of an iteration: every vreg but the one spilled, if any, keeps *)
(* its slot, and its slot stays what it was.                                *)
LEMMA SlotsKept ==
  ASSUME FrameInv, NEW v \in Ranks, GiveSlot(v, def[cur]), shape' = shape
  PROVE  /\ TableSound'
         /\ slot'[v] # 0
         /\ slots'[slot'[v]].size >= shape[v].size
         /\ slots'[slot'[v]].offset % shape[v].align = 0
         /\ slot'[v] \in busy' /\ slotLast'[slot'[v]] = last[v]
         /\ \A w \in Ranks \ {v} :
              /\ slot'[w] = slot[w]
              /\ slot[w] # 0 => slots'[slot[w]] = slots[slot[w]]
              /\ slot[w] \in BusyAfterExpiry(def[cur]) =>
                   slot[w] \in busy' /\ slotLast'[slot[w]] = slotLast[slot[w]]
<1>1. TypeOK /\ TableSound
  BY DEF FrameInv, RegInv
<1>2. /\ TableSound'
      /\ \A t \in DOMAIN slots : t \in DOMAIN slots' /\ slots'[t] = slots[t]
  BY <1>1, GiveSlotSound
<1>3. PICK s \in Ranks \ BusyAfterExpiry(def[cur]) :
        /\ s # 0 /\ s \in DOMAIN slots' /\ Occupy(s, v, def[cur])
        /\ slots'[s].size >= shape[v].size
        /\ slots'[s].offset % shape[v].align = 0
  BY <1>1, GiveSlotSound
<1>4. /\ slot \in [Ranks -> 0 .. Len(slots)]
      /\ slotLast \in [Ranks -> Pos \cup {NoUse}]
      /\ busy \subseteq DOMAIN slots
  BY <1>1 DEF TypeOK
<1>5. /\ slot' = [slot EXCEPT ![v] = s]
      /\ slotLast' = [slotLast EXCEPT ![s] = last[v]]
      /\ busy' = BusyAfterExpiry(def[cur]) \cup {s}
  BY <1>3 DEF Occupy
<1>6. slot'[v] = s /\ slotLast'[s] = last[v] /\ s \in busy'
  BY <1>3, <1>4, <1>5
<1>7. ASSUME NEW w \in Ranks \ {v}
      PROVE  /\ slot'[w] = slot[w]
             /\ slot[w] # 0 => slots'[slot[w]] = slots[slot[w]]
             /\ slot[w] \in BusyAfterExpiry(def[cur]) =>
                   slot[w] \in busy' /\ slotLast'[slot[w]] = slotLast[slot[w]]
  <2>1. slot'[w] = slot[w]
    BY <1>4, <1>5
  <2>2. ASSUME slot[w] # 0
        PROVE  slots'[slot[w]] = slots[slot[w]]
    <3>1. slot[w] \in DOMAIN slots
      BY <1>1, <1>4, <2>2, SlotNumber
    <3>2. QED
      BY <1>2, <3>1
  <2>3. ASSUME slot[w] \in BusyAfterExpiry(def[cur])
        PROVE  slot[w] \in busy' /\ slotLast'[slot[w]] = slotLast[slot[w]]
    <3>1. slot[w] # s /\ slot[w] \in busy
      BY <1>3, <2>3 DEF BusyAfterExpiry
    <3>2. slot[w] \in Ranks
      BY <1>1, <1>4, <3>1, SlotNumber
    <3>3. QED
      BY <1>4, <1>5, <2>3, <3>1, <3>2
  <2>4. QED
    BY <2>1, <2>2, <2>3
<1>8. QED
  BY <1>2, <1>3, <1>6, <1>7

(* A live value's slot outlasts the expiry of dead slots. *)
LEMMA LiveOutlasts ==
  ASSUME FrameInv, cur \in Ranks, NEW v \in Handled, slot[v] # 0, last[v] >= def[cur]
  PROVE  slot[v] \in BusyAfterExpiry(def[cur]) /\ slotLast[slot[v]] = last[v]
<1>1. v \in Ranks /\ cur - 1 \in Ranks /\ cur - 1 < cur /\ cur > 1
  BY CountsAreNat DEF Handled, Ranks
<1>2. last[v] \in Int /\ def[cur] \in Int /\ def[cur - 1] \in Int /\ def[cur - 1] <= def[cur]
  BY <1>1, CountsAreNat DEF FrameInv, RegInv, Intervals, TypeOK, Pos, NoUse
<1>3. last[v] >= def[cur - 1]
  BY <1>2
<1>4. slot[v] \in busy /\ slotLast[slot[v]] = last[v]
  BY <1>1, <1>3 DEF FrameInv, LiveSlotsReserved
<1>5. QED
  BY <1>4 DEF BusyAfterExpiry

(* One iteration keeps the invariant. *)
LEMMA AllocateFrame ==
  ASSUME FrameInv, Allocate
  PROVE  FrameInv'
<1>1. /\ cur \in Ranks /\ cur \notin Handled /\ cur' = cur + 1 /\ cur' - 1 = cur
      /\ Handled' = Handled \cup {cur} /\ Handled \subseteq Ranks
  BY NextHandled DEF FrameInv, RegInv, Ranks
<1>2. RegInv'
  BY AllocateInv DEF FrameInv
<1>3. /\ UNCHANGED <<def, last, shape, calls>> /\ frame' = frame
      /\ shape' = shape /\ def' = def /\ last' = last
  BY DEF Allocate, input
<1>4. frame = <<>>
  <2>1. ~(cur > NumVRegs)
    BY <1>1, CountsAreNat DEF Ranks
  <2>2. QED
    BY <2>1 DEF FrameInv, FrameIsLast
<1>5. FrameIsLast'
  BY <1>3, <1>4 DEF FrameIsLast
<1>6. /\ reg \in [Ranks -> Pool \cup {NoReg}] /\ slot \in [Ranks -> 0 .. Len(slots)]
      /\ \A v \in Ranks \ Handled : reg[v] = NoReg /\ slot[v] = 0
      /\ NoReg \notin Pool
  BY CountsAreNat DEF FrameInv, RegInv, TypeOK, Homed, Pool, GpPool, FpPool, GpCount, NoReg
<1>7. \A v \in active : reg[v] \in Pool /\ v \in Handled
  BY DEF FrameInv, RegInv, HoldersProtected, TypeOK
<1>8. \A v \in Handled : slot[v] # 0 /\ last[v] >= def[cur] =>
        slot[v] \in BusyAfterExpiry(def[cur]) /\ slotLast[slot[v]] = last[v]
  BY <1>1, LiveOutlasts
<1>9. TableSound /\ Homed
  BY DEF FrameInv
<1>10. CASE TakeRegister(cur)
  <2>1. PICK r \in FreeRegs(cur) : reg' = [reg EXCEPT ![cur] = r]
    BY <1>10 DEF TakeRegister
  <2>2. /\ busy' = BusyAfterExpiry(def[cur])
        /\ UNCHANGED <<slot, slots, slotLast, spillOffset>>
    BY <1>10 DEF TakeRegister
  <2>3. r \in Pool /\ r # NoReg
    BY <2>1, AllowedInPool DEF FreeRegs
  <2>4. TableSound'
    BY <1>9, <2>2 DEF TableSound
  <2>5. Homed'
    BY <1>1, <1>3, <1>6, <1>9, <2>1, <2>2, <2>3 DEF Homed
  <2>6. LiveSlotsReserved'
    BY <1>1, <1>3, <1>6, <1>8, <2>2 DEF LiveSlotsReserved
  <2>7. QED
    BY <1>2, <1>5, <2>4, <2>5, <2>6 DEF FrameInv
<1>11. ASSUME NEW x \in Ranks, GiveSlot(x, def[cur]),
              x = cur \/ x \in Handled,
              slot[x] = 0,
              reg'[x] = NoReg,
              x # cur => reg'[cur] # NoReg,
              \A v \in Ranks \ {x, cur} : reg'[v] = reg[v]
       PROVE  FrameInv'
  <2>1. /\ TableSound'
        /\ slot'[x] # 0
        /\ slots'[slot'[x]].size >= shape[x].size
        /\ slots'[slot'[x]].offset % shape[x].align = 0
        /\ slot'[x] \in busy' /\ slotLast'[slot'[x]] = last[x]
        /\ \A w \in Ranks \ {x} :
             /\ slot'[w] = slot[w]
             /\ slot[w] # 0 => slots'[slot[w]] = slots[slot[w]]
             /\ slot[w] \in BusyAfterExpiry(def[cur]) =>
                  slot[w] \in busy' /\ slotLast'[slot[w]] = slotLast[slot[w]]
    BY <1>3, <1>11, SlotsKept
  <2>2. \A v \in Ranks \ Handled' : reg'[v] = NoReg /\ slot'[v] = 0
    BY <1>1, <1>6, <1>11, <2>1
  <2>3. ASSUME NEW v \in Handled'
        PROVE  /\ (reg'[v] = NoReg) <=> (slot'[v] # 0)
               /\ slot'[v] # 0 => /\ slots'[slot'[v]].size >= shape[v].size
                                  /\ slots'[slot'[v]].offset % shape[v].align = 0
    <3>1. CASE v = x
      BY <1>11, <2>1, <3>1
    <3>2. CASE v # x /\ v = cur
      BY <1>1, <1>6, <1>11, <2>1, <3>2
    <3>3. CASE v # x /\ v # cur
      BY <1>1, <1>9, <1>11, <2>1, <3>3 DEF Homed
    <3>4. QED
      BY <3>1, <3>2, <3>3
  <2>4. Homed'
    BY <1>3, <2>2, <2>3 DEF Homed
  <2>5. ASSUME NEW v \in Handled', slot'[v] # 0, last[v] >= def[cur]
        PROVE  slot'[v] \in busy' /\ slotLast'[slot'[v]] = last[v]
    <3>1. CASE v = x
      BY <2>1, <3>1
    <3>2. CASE v # x
      BY <1>1, <1>6, <1>8, <2>1, <2>5, <3>2
    <3>3. QED
      BY <3>1, <3>2
  <2>6. LiveSlotsReserved'
    BY <1>1, <1>3, <2>5 DEF LiveSlotsReserved
  <2>7. QED
    BY <1>2, <1>5, <2>1, <2>4, <2>6 DEF FrameInv
<1>12. CASE EvictActive(cur)
  <2>1. PICK x \in LiveActive(def[cur]) :
          /\ reg' = [reg EXCEPT ![cur] = reg[x], ![x] = NoReg]
          /\ GiveSlot(x, def[cur])
    BY <1>12 DEF EvictActive, Furthest, Victims
  <2>2. x \in Handled /\ x \in Ranks /\ reg[x] \in Pool /\ x # cur
    BY <1>1, <1>7, <2>1 DEF LiveActive
  <2>3. slot[x] = 0
    BY <1>6, <1>9, <2>2 DEF Homed
  <2>4. /\ reg'[x] = NoReg /\ reg'[cur] = reg[x]
        /\ \A v \in Ranks \ {x, cur} : reg'[v] = reg[v]
    BY <1>1, <1>6, <2>1, <2>2
  <2>5. QED
    BY <1>6, <1>11, <2>1, <2>2, <2>3, <2>4
<1>13. CASE SpillCurrent(cur)
  BY <1>1, <1>6, <1>11, <1>13 DEF SpillCurrent
<1>14. QED
  BY <1>10, <1>12, <1>13 DEF Allocate

(* FrameInv is an invariant of the allocator. *)
LEMMA FrameInvCorrect == Spec => []FrameInv
<1>1. Init => FrameInv
  <2> SUFFICES ASSUME Init PROVE FrameInv
    OBVIOUS
  <2>1. Handled = {} /\ slots = <<>> /\ DOMAIN slots = {} /\ cur = 1 /\ frame = <<>>
        /\ spillOffset \in Bases /\ spillOffset \in Nat
    BY InputsAreTyped DEF Init, Handled
  <2>2. RegInv
    BY RegInvAtStart
  <2>3. TableSound
    BY <2>1 DEF TableSound
  <2>4. Homed /\ LiveSlotsReserved /\ FrameIsLast
    BY <2>1 DEF Init, Homed, LiveSlotsReserved, FrameIsLast
  <2>5. QED
    BY <2>2, <2>3, <2>4 DEF FrameInv
<1>2. FrameInv /\ [Next]_vars => FrameInv'
  <2> SUFFICES ASSUME FrameInv, [Next]_vars PROVE FrameInv'
    OBVIOUS
  <2>1. CASE Allocate
    BY <2>1, AllocateFrame
  <2>2. CASE Finish
    <3>1. RegInv'
      BY <2>2, RegInvStep DEF FrameInv, Next
    <3>2. UNCHANGED <<def, last, shape, calls, cur, active, used, reg, slot, slots, slotLast, busy, spillOffset>>
      BY <2>2 DEF Finish, input, table
    <3>3. Handled' = Handled
      BY <3>2 DEF Handled
    <3>4. TableSound' /\ Homed' /\ LiveSlotsReserved'
      BY <3>2, <3>3 DEF FrameInv, TableSound, Homed, LiveSlotsReserved
    <3>5. FrameIsLast'
      <4>1. spillOffset \in Nat /\ frame'.stackSize = AlignTo(spillOffset, 16)
        BY <2>2 DEF Finish, FrameInv, RegInv, TypeOK
      <4>2. AlignTo(spillOffset, 16) >= spillOffset
        BY <4>1, AlignToIsAligned
      <4>3. QED
        BY <2>2, <3>2, <4>1, <4>2 DEF Finish, FrameIsLast
    <3>6. QED
      BY <3>1, <3>4, <3>5 DEF FrameInv
  <2>3. CASE UNCHANGED vars
    <3>1. RegInv'
      BY <2>3, RegInvStep DEF FrameInv
    <3>2. UNCHANGED <<def, last, shape, calls, cur, active, used, reg, slot, slots, slotLast, busy, spillOffset, frame>>
      BY <2>3 DEF vars
    <3>3. Handled' = Handled
      BY <3>2 DEF Handled
    <3>4. QED
      BY <3>1, <3>2, <3>3 DEF FrameInv, TableSound, Homed, LiveSlotsReserved, FrameIsLast
  <2>4. QED
    BY <2>1, <2>2, <2>3 DEF Next, Terminated
<1>3. QED
  BY <1>1, <1>2, PTL DEF Spec

(* Every value has one home, a register or a slot of its own size and       *)
(* alignment; slots overlap neither each other nor the locals above the     *)
(* spill base, and the frame the prologue makes holds them all: what        *)
(* allocate_spill_slot and align_to make of any types and any spill base.   *)
THEOREM FrameSound == Spec => []FrameIsSound
<1>1. FrameInv => FrameIsSound
  <2> SUFFICES ASSUME FrameInv PROVE FrameIsSound
    OBVIOUS
  <2>1. \A s \in DOMAIN slots : \E b \in Bases : b <= slots[s].offset - slots[s].size
    BY DEF FrameInv, TableSound
  <2>2. QED
    BY <2>1 DEF FrameInv, TableSound, Homed, FrameIsLast, FrameIsSound
<1>2. QED
  BY <1>1, FrameInvCorrect, PTL

(* A slot is given to a value only when every other value that has been     *)
(* given it is dead at the start of the vreg being handled: expiry frees no *)
(* slot too early, and a reused one is reserved until its new last use.     *)
THEOREM SlotsComeFromTheDead == Spec => SlotsTakenFromTheDead
<1> DEFINE Taken == \A v, w \in Ranks : v # w /\ slot'[v] # slot[v] /\ slot[w] = slot'[v] =>
                       last[w] < def[cur]
<1>1. ASSUME FrameInv, cur \in Ranks, shape' = shape, NEW x \in Ranks, GiveSlot(x, def[cur])
      PROVE  Taken
  <2>1. TypeOK /\ TableSound /\ Homed
    BY <1>1 DEF FrameInv, RegInv
  <2>2. PICK s \in Ranks \ BusyAfterExpiry(def[cur]) : s # 0 /\ Occupy(s, x, def[cur])
    BY <1>1, <2>1, GiveSlotSound
  <2>3. slot' = [slot EXCEPT ![x] = s] /\ slot \in [Ranks -> 0 .. Len(slots)]
    BY <2>1, <2>2 DEF Occupy, TypeOK
  <2>4. ASSUME NEW v \in Ranks, NEW w \in Ranks,
               v # w, slot'[v] # slot[v], slot[w] = slot'[v]
        PROVE  last[w] < def[cur]
    <3>1. v = x /\ slot[w] = s
      BY <2>3, <2>4
    <3>2. w \in Handled /\ slot[w] # 0
      BY <2>1, <2>2, <3>1 DEF Homed
    <3>3. slot[w] \notin BusyAfterExpiry(def[cur])
      BY <2>2, <3>1
    <3>4. ~(last[w] >= def[cur])
      BY <1>1, <3>2, <3>3, LiveOutlasts
    <3>5. last[w] \in Int /\ def[cur] \in Int
      BY <1>1, <2>4, CountsAreNat DEF FrameInv, RegInv, Intervals, TypeOK, Pos, NoUse
    <3>6. QED
      BY <3>4, <3>5
  <2>5. QED
    BY <2>4
<1>2. FrameInv /\ [Next]_vars => [Taken]_vars
  <2> SUFFICES ASSUME FrameInv, Next PROVE Taken
    OBVIOUS
  <2>1. ASSUME slot' = slot PROVE Taken
    BY <2>1
  <2>2. CASE Allocate
    <3>1. cur \in Ranks /\ Handled \subseteq Ranks /\ shape' = shape
      BY <2>2, NextHandled DEF FrameInv, RegInv, Ranks, Allocate, input
    <3>2. CASE TakeRegister(cur)
      BY <2>1, <3>2 DEF TakeRegister
    <3>3. CASE EvictActive(cur)
      <4>1. PICK x \in active : GiveSlot(x, def[cur])
        BY <3>3 DEF EvictActive, Furthest, Victims, LiveActive
      <4>2. x \in Ranks
        BY <3>1 DEF FrameInv, RegInv, TypeOK
      <4>3. QED
        BY <1>1, <3>1, <4>1, <4>2
    <3>4. CASE SpillCurrent(cur)
      BY <1>1, <3>1, <3>4 DEF SpillCurrent
    <3>5. QED
      BY <2>2, <3>2, <3>3, <3>4 DEF Allocate
  <2>3. CASE Finish
    BY <2>1, <2>3 DEF Finish
  <2>4. CASE Terminated
    BY <2>1, <2>4 DEF Terminated, vars
  <2>5. QED
    BY <2>2, <2>3, <2>4 DEF Next
<1>3. QED
  BY <1>2, FrameInvCorrect, PTL DEF Spec, SlotsTakenFromTheDead

-----------------------------------------------------------------------------
(* From the code of a function to intervals and registers. *)

(* Every set of naturals has a least element. *)
LEMMA LeastElement ==
  ASSUME NEW S \in SUBSET Nat, S # {}
  PROVE  \E n \in S : \A p \in S : n <= p
<1> DEFINE R == OpToRel(<, Nat)
<1>1. \A x, y \in Nat : <<y, x>> \in R <=> y < x
  BY DEF OpToRel
<1>2. IsWellFoundedOn(R, Nat)
  BY NatLessThanWellFounded
<1> HIDE DEF R
<1>3. PICK n \in S : \A p \in S : ~(<<p, n>> \in R)
  BY <1>2, WFMin
<1>4. ASSUME NEW p \in S
      PROVE  n <= p
  <2>1. ~(p < n)
    BY <1>1, <1>3
  <2>2. QED
    BY <2>1
<1>5. QED
  BY <1>4

(* First returns it. *)
LEMMA LeastIsFirst ==
  ASSUME NEW S \in SUBSET Nat, S # {}
  PROVE  First(S) \in S /\ \A p \in S : First(S) <= p
<1>1. \E n \in S : \A p \in S : n <= p
  BY LeastElement
<1>2. QED
  BY <1>1 DEF First

(* A finite one has a greatest: *)
LEMMA GreatestIsFinal ==
  ASSUME NEW n \in Nat, NEW S \in SUBSET (0 .. n - 1), S # {}
  PROVE  Final(S) \in S /\ \A p \in S : p <= Final(S)
<1> DEFINE D == {n - p : p \in S}
<1>1. D \in SUBSET Nat /\ D # {}
  OBVIOUS
<1>2. PICK d \in D : \A e \in D : d <= e
  BY <1>1, LeastElement
<1>3. PICK m \in S : d = n - m
  OBVIOUS
<1>4. ASSUME NEW p \in S
      PROVE  p <= m
  <2>1. n - p \in D /\ p \in Int /\ m \in Int
    OBVIOUS
  <2>2. QED
    BY <1>2, <1>3, <2>1
<1>5. \E f \in S : \A p \in S : p <= f
  BY <1>4
<1>6. QED
  BY <1>5 DEF Final

-----------------------------------------------------------------------------
(* Where a value is live. *)

(* What the loop of Growth leaves of live. *)
Grown(c, v, live, g) ==
  /\ live \subseteq g
  /\ g \subseteq Positions(c)
  /\ Grow(c, v, g) = g
  /\ \A X \in SUBSET Positions(c) : live \subseteq X /\ Grow(c, v, X) = X => g \subseteq X

GrowthOf(c, v, f) ==
  f = [live \in SUBSET Positions(c) |->
         IF Grow(c, v, live) = live THEN live ELSE f[Grow(c, v, live)]]

(* A step backwards only adds positions, and more the more it starts from. *)
LEMMA GrowMonotone ==
  ASSUME NEW c, NEW v, NEW X \in SUBSET Positions(c), NEW live \in SUBSET X
  PROVE  /\ live \subseteq Grow(c, v, live)
         /\ Grow(c, v, live) \in SUBSET Positions(c)
         /\ Grow(c, v, live) \subseteq Grow(c, v, X)
BY DEF Grow

(* The recursion has a solution: the least closed set that contains live. *)
LEMMA GrowthExists ==
  ASSUME NEW c, NEW v
  PROVE  \E f : GrowthOf(c, v, f)
<1> DEFINE Closed == {X \in SUBSET Positions(c) : Grow(c, v, X) = X}
           Least(live) == {p \in Positions(c) : \A X \in Closed : live \subseteq X => p \in X}
           f == [live \in SUBSET Positions(c) |-> Least(live)]
<1>1. ASSUME NEW live \in SUBSET Positions(c), Grow(c, v, live) = live
      PROVE  Least(live) = live
  BY <1>1
<1>2. ASSUME NEW live \in SUBSET Positions(c), NEW X \in Closed
      PROVE  live \subseteq X <=> Grow(c, v, live) \subseteq X
  <2>1. live \subseteq Grow(c, v, live)
    BY GrowMonotone
  <2>2. ASSUME live \subseteq X
        PROVE  Grow(c, v, live) \subseteq X
    BY <2>2, GrowMonotone
  <2>3. QED
    BY <2>1, <2>2
<1>3. ASSUME NEW live \in SUBSET Positions(c)
      PROVE  /\ Least(live) = Least(Grow(c, v, live))
             /\ Grow(c, v, live) \in SUBSET Positions(c)
  <2>1. Grow(c, v, live) \in SUBSET Positions(c)
    BY GrowMonotone
  <2>2. QED
    BY <1>2, <2>1
<1> HIDE DEF Closed, Least
<1>4. ASSUME NEW live \in SUBSET Positions(c)
      PROVE  Least(live) = IF Grow(c, v, live) = live THEN live ELSE f[Grow(c, v, live)]
  BY <1>1, <1>3
<1>5. GrowthOf(c, v, f)
  BY <1>4 DEF GrowthOf
<1>6. QED
  BY <1>5

(* Every solution of the recursion returns the least closed set. *)
LEMMA GrowthGrows ==
  ASSUME NEW c \in Seq(Insn), NEW v, NEW f, GrowthOf(c, v, f), NEW start \in SUBSET Positions(c)
  PROVE  Grown(c, v, start, f[start])
<1> DEFINE P == Positions(c)
           Bad == {live \in SUBSET P : ~Grown(c, v, live, f[live])}
           Left(live) == Cardinality(P \ live)
           N == {Left(live) : live \in Bad}
<1> SUFFICES ASSUME Bad # {} PROVE FALSE
  OBVIOUS
<1>1. IsFiniteSet(P)
  <2>1. Len(c) \in Nat /\ 0 \in Int /\ Len(c) - 1 \in Int
    OBVIOUS
  <2>2. IsFiniteSet(0 .. Len(c) - 1)
    BY <2>1, FS_Interval
  <2>3. QED
    BY <2>2 DEF Positions
<1>2. ASSUME NEW live \in SUBSET P
      PROVE  IsFiniteSet(P \ live) /\ Left(live) \in Nat
  BY <1>1, FS_Subset, FS_CardinalityType
<1>3. N \in SUBSET Nat /\ N # {}
  BY <1>2
<1>4. PICK n \in N : \A m \in N : n <= m
  BY <1>3, LeastElement
<1>5. PICK live \in Bad : n = Left(live)
  OBVIOUS
<1> DEFINE more == Grow(c, v, live)
<1>6. live \subseteq more /\ more \in SUBSET P /\ live \in SUBSET P
  BY GrowMonotone
<1>7. f[live] = IF more = live THEN live ELSE f[more]
  BY <1>6 DEF GrowthOf
<1> HIDE DEF more, Left
<1>8. more # live
  <2> SUFFICES ASSUME more = live PROVE FALSE
    OBVIOUS
  <2>1. f[live] = live /\ Grow(c, v, live) = live
    BY <1>7 DEF more
  <2>2. Grown(c, v, live, f[live])
    BY <1>6, <2>1 DEF Grown
  <2>3. QED
    BY <2>2
<1>9. Left(more) < Left(live)
  <2>1. P \ more \in SUBSET (P \ live) /\ P \ more # P \ live
    BY <1>6, <1>8
  <2>2. IsFiniteSet(P \ live)
    BY <1>2, <1>6
  <2>3. /\ Cardinality(P \ more) <= Cardinality(P \ live)
        /\ Cardinality(P \ more) # Cardinality(P \ live)
        /\ Cardinality(P \ more) \in Nat /\ Cardinality(P \ live) \in Nat
    BY <2>1, <2>2, FS_Subset, FS_CardinalityType
  <2>4. QED
    BY <2>3 DEF Left
<1>10. more \notin Bad
  <2> SUFFICES ASSUME more \in Bad PROVE FALSE
    OBVIOUS
  <2>1. Left(more) \in N
    OBVIOUS
  <2>2. Left(live) <= Left(more) /\ Left(more) \in Nat /\ Left(live) \in Nat
    BY <1>2, <1>4, <1>5, <1>6, <2>1
  <2>3. QED
    BY <1>9, <2>2
<1>11. Grown(c, v, more, f[more]) /\ f[live] = f[more]
  BY <1>6, <1>7, <1>8, <1>10
<1>12. ASSUME NEW X \in SUBSET P, live \subseteq X, Grow(c, v, X) = X
       PROVE  more \subseteq X
  BY <1>12, GrowMonotone DEF more
<1>13. Grown(c, v, live, f[live])
  BY <1>6, <1>11, <1>12 DEF Grown
<1>14. QED
  BY <1>13

(* LiveIn is the least set that holds the uses of v and, with a position,   *)
(* those it may be reached from without writing v.                          *)
LEMMA LiveInIsLeast ==
  ASSUME NEW c \in Seq(Insn), NEW v \in VRegs
  PROVE  Grown(c, v, Uses(c, v), LiveIn(c, v))
<1>1. PICK g : GrowthOf(c, v, g)
  BY GrowthExists
<1>2. Growth(c, v) = CHOOSE f : GrowthOf(c, v, f)
  BY DEF Growth, GrowthOf
<1>3. GrowthOf(c, v, Growth(c, v))
  BY <1>1, <1>2
<1>4. LiveIn(c, v) = Growth(c, v)[Uses(c, v)]
  BY DEF LiveIn, Uses
<1>5. Uses(c, v) \in SUBSET Positions(c)
  BY DEF Uses
<1>6. QED
  BY <1>3, <1>4, <1>5, GrowthGrows

Settled(n) == \A v \in VRegs : ~CrossesEdge(v, edges[n])

(* The edges behind the current one are settled, because going on to a      *)
(* later branch only lengthens intervals; from the second round on all are. *)
LoopInv ==
  /\ code \in Seq(Insn)
  /\ scan \in {"lowering", "mentions", "edges", "done"}
  /\ edge \in Nat \ {0}
  /\ round \in 0 .. 2
  /\ changed \in BOOLEAN
  /\ scan \in {"lowering", "mentions"} => round = 0 /\ edge = 1 /\ changed = FALSE
  /\ scan \in {"edges", "done"} => edges \in EdgeLists
  /\ scan = "edges" => \A n \in DOMAIN edges : n < edge => Settled(n)
  /\ scan = "edges" /\ round = 2 => changed = FALSE /\ \A n \in DOMAIN edges : Settled(n)
  /\ scan = "done" => \A n \in DOMAIN edges : Settled(n)

(* The positions an edge joins are natural numbers. *)
LEMMA EdgeType ==
  ASSUME code \in Seq(Insn), NEW e \in BackEdges
  PROVE  e[1] \in Nat /\ e[2] \in Nat
BY DEF BackEdges, Positions

(* There are finitely many back edges. *)
LEMMA EdgeCount ==
  ASSUME code \in Seq(Insn)
  PROVE  Cardinality(BackEdges) \in Nat
<1>1. Len(code) \in Nat
  OBVIOUS
<1>2. IsFiniteSet(0 .. Len(code) - 1)
  BY <1>1, FS_Interval
<1>3. IsFiniteSet(Positions(code) \X Positions(code))
  BY <1>2, FS_Product DEF Positions
<1>4. BackEdges \subseteq Positions(code) \X Positions(code)
  BY DEF BackEdges
<1> QED
  BY <1>3, <1>4, FS_Subset, FS_CardinalityType

(* A position of the edge list names an edge, and later ones branch later. *)
LEMMA EdgeListType ==
  ASSUME edges \in EdgeLists
  PROVE  /\ DOMAIN edges = 1 .. Cardinality(BackEdges)
         /\ \A n \in DOMAIN edges : edges[n] \in BackEdges
         /\ \A m, n \in DOMAIN edges : m < n => edges[m][1] <= edges[n][1]
         /\ \A e \in BackEdges : \E n \in DOMAIN edges : edges[n] = e
BY DEF EdgeLists

(* Propagating an edge settles it and keeps the earlier ones settled. *)
LEMMA PropagationSettles ==
  ASSUME code \in Seq(Insn), edges \in EdgeLists, edge \in Nat \ {0}, Propagate,
         NEW n \in DOMAIN edges, n = edge \/ (n < edge /\ Settled(n))
  PROVE  Settled(n)'
<1>1. /\ edges' = edges /\ defPos' = defPos
      /\ \A v \in VRegs : lastUse'[v] = IF CrossesEdge(v, edges[edge]) THEN edges[edge][1] ELSE lastUse[v]
  BY DEF Propagate
<1>2. edges[n][1] <= edges[edge][1] /\ edges[n][1] \in Nat /\ edges[edge][1] \in Nat
  BY EdgeListType, EdgeType DEF Propagate
<1>3. ASSUME NEW v \in VRegs
      PROVE  ~CrossesEdge(v, edges[n])'
  <2>1. CASE CrossesEdge(v, edges[edge])
    BY <1>1, <1>2, <2>1 DEF CrossesEdge
  <2>2. CASE ~CrossesEdge(v, edges[edge])
    BY <1>1, <2>2 DEF CrossesEdge, Settled
  <2> QED
    BY <2>1, <2>2
<1> QED
  BY <1>1, <1>3 DEF Settled

(* When every edge is settled a round changes nothing. *)
LEMMA SettledStays ==
  ASSUME Propagate, \A n \in DOMAIN edges : Settled(n), changed \in BOOLEAN
  PROVE  changed' = changed /\ \A n \in DOMAIN edges : Settled(n)'
<1>1. \A v \in VRegs : ~CrossesEdge(v, edges[edge])
  BY DEF Propagate, Settled
<1>2. \A v \in VRegs : lastUse'[v] = lastUse[v]
  BY <1>1 DEF Propagate
<1>3. changed' = changed
  BY <1>1 DEF Propagate
<1>4. edges' = edges /\ defPos' = defPos
  BY DEF Propagate
<1> QED
  BY <1>2, <1>3, <1>4 DEF Settled, CrossesEdge

(* The two facts behind LoopInvCorrect: it holds initially, *)
LEMMA LoopInvAtStart ==
  ASSUME IntervalInit
  PROVE  LoopInv
<1>1. code \in Seq(Insn)
  BY InputIsCode DEF IntervalInit
<1>2. scan = "lowering" /\ edge = 1 /\ round = 0 /\ changed = FALSE
  BY DEF IntervalInit
<1>3. changed \in BOOLEAN
  BY <1>2
<1> QED
  BY <1>1, <1>2, <1>3 DEF LoopInv

(* and every step keeps it. *)
LEMMA LoopInvStep ==
  ASSUME LoopInv, [IntervalNext]_intervalVars
  PROVE  LoopInv'
<1>1. CASE AppendInsn
  <2>1. code' \in Seq(Insn)
    BY <1>1, InputIsCode DEF AppendInsn, LoopInv
  <2> QED
    BY <1>1, <2>1 DEF AppendInsn, LoopInv
<1>2. CASE EndLowering
  BY <1>2 DEF EndLowering, LoopInv
<1>3. CASE MarkMentions
  <2>1. code' = code /\ edges' \in EdgeLists /\ edge' = 1 /\ round' = 1 /\ changed' = FALSE
    BY <1>3 DEF MarkMentions, LoopInv
  <2>2. edges' \in EdgeLists'
    BY <2>1 DEF EdgeLists, BackEdges
  <2>3. changed' \in BOOLEAN
    BY <2>1
  <2>4. DOMAIN edges' = 1 .. Cardinality(BackEdges)
    BY <2>1 DEF EdgeLists
  <2>5. scan' = "edges" \/ (scan' = "done" /\ BackEdges = {})
    BY <1>3 DEF MarkMentions
  <2>6. BackEdges = {} => DOMAIN edges' = {}
    BY <2>4, FS_EmptySet
  <2>7. \A n \in DOMAIN edges' : ~(n < edge')
    BY <2>1, <2>4
  <2>8. CASE scan' = "edges"
    BY <2>1, <2>2, <2>3, <2>7, <2>8 DEF LoopInv
  <2>9. CASE scan' = "done" /\ BackEdges = {}
    BY <2>1, <2>2, <2>3, <2>6, <2>9 DEF LoopInv
  <2> QED
    BY <2>5, <2>8, <2>9
<1>4. CASE Propagate
  <2>1. /\ code' = code /\ edges' = edges /\ scan' = "edges" /\ scan = "edges" /\ round' = round
        /\ edge' = edge + 1 /\ changed' \in BOOLEAN
    BY <1>4 DEF Propagate, LoopInv
  <2>2. edges \in EdgeLists /\ edges' \in EdgeLists'
    BY <2>1 DEF LoopInv, EdgeLists, BackEdges
  <2>3. \A n \in DOMAIN edges : n < edge' => Settled(n)'
    <3> SUFFICES ASSUME NEW n \in DOMAIN edges, n < edge' PROVE Settled(n)'
      OBVIOUS
    <3>1. n \in Int
      BY <2>2 DEF EdgeLists
    <3>2. n = edge \/ n < edge
      BY <3>1, <2>1 DEF LoopInv
    <3>3. n = edge \/ (n < edge /\ Settled(n))
      BY <3>2, <2>1 DEF LoopInv
    <3> QED
      BY <3>3, <1>4, <2>2, PropagationSettles DEF LoopInv
  <2>4. round' = 2 => changed' = FALSE /\ \A n \in DOMAIN edges' : Settled(n)'
    BY <1>4, <2>1, SettledStays DEF LoopInv
  <2> QED
    BY <2>1, <2>2, <2>3, <2>4 DEF LoopInv
<1>5. CASE EndOfRound
  <2>1. /\ code' = code /\ edges' = edges /\ defPos' = defPos /\ lastUse' = lastUse
        /\ scan = "edges" /\ changed' = FALSE /\ edge \notin DOMAIN edges
    BY <1>5 DEF EndOfRound
  <2>2. edges \in EdgeLists /\ edges' \in EdgeLists'
    BY <2>1 DEF LoopInv, EdgeLists, BackEdges
  <2>3. changed' \in BOOLEAN
    BY <2>1
  <2>4. \A n \in DOMAIN edges : n < edge /\ ~(n < 1)
    BY <2>1, <2>2, EdgeCount DEF LoopInv, EdgeLists
  <2>5. \A n \in DOMAIN edges : Settled(n)
    BY <2>1, <2>4 DEF LoopInv
  <2>6. \A n \in DOMAIN edges : Settled(n)'
    BY <2>1, <2>5 DEF Settled, CrossesEdge
  <2>7. CASE changed /\ round < MaxLoopIters /\ round' = round + 1 /\ edge' = 1 /\ scan' = scan
    <3>1. round # 2
      BY <2>1, <2>7 DEF LoopInv
    <3>2. round' \in 0 .. 2
      BY <2>7, <3>1 DEF LoopInv
    <3> QED
      BY <2>1, <2>2, <2>3, <2>6, <2>7, <3>2 DEF LoopInv
  <2>8. CASE scan' = "done" /\ round' = round /\ edge' = edge
    BY <2>1, <2>2, <2>3, <2>6, <2>8 DEF LoopInv
  <2> QED
    BY <1>5, <2>7, <2>8 DEF EndOfRound
<1>6. CASE UNCHANGED intervalVars
  BY <1>6 DEF intervalVars, LoopInv, EdgeLists, BackEdges, Settled, CrossesEdge
<1> QED
  BY <1>1, <1>2, <1>3, <1>4, <1>5, <1>6 DEF IntervalNext

(* LoopInv is an inductive invariant of compute_live_intervals. *)
LEMMA LoopInvCorrect == IntervalSpec => []LoopInv
BY LoopInvAtStart, LoopInvStep, PTL DEF IntervalSpec

(* At the fixed point no interval ends inside a loop it is live across. *)
LEMMA LoopInvFixes ==
  ASSUME LoopInv
  PROVE  LoopLivenessIsFixed
<1>1. round < MaxLoopIters
  BY DEF LoopInv, MaxLoopIters
<1>2. ASSUME scan = "done", NEW v \in VRegs, NEW e \in BackEdges
      PROVE  ~CrossesEdge(v, e)
  <2>1. PICK n \in DOMAIN edges : edges[n] = e
    BY <1>2, EdgeListType DEF LoopInv
  <2>2. QED
    BY <1>2, <2>1 DEF LoopInv, Settled
<1>3. QED
  BY <1>1, <1>2 DEF LoopLivenessIsFixed

(* compute_live_intervals, "Propagate loop liveness to a fixed point": for  *)
(* every function the propagation ends at the fixed point, before the bound *)
(* on the number of rounds is reached.                                      *)
THEOREM LoopLivenessReachesFixpoint == IntervalSpec => []LoopLivenessIsFixed
BY LoopInvFixes, LoopInvCorrect, PTL

-----------------------------------------------------------------------------
(* The intervals cover the positions where their values are live. *)

(* What the scans establish of code the lowering has finished: an interval  *)
(* begins where its value is first mentioned and ends at the last use or    *)
(* later.                                                                   *)
CoverInv ==
  /\ LoopInv
  /\ scan # "lowering" => WellFormed(code) /\ \A v \in VRegs : Defs(code, v) # {}
  /\ scan \in {"edges", "done"} => \A v \in VRegs :
       /\ defPos[v] = DefPos(v)
       /\ lastUse[v] \in NoPos .. Len(code) - 1
       /\ LastUse(v) <= lastUse[v]
       /\ Uses(code, v) = {} => lastUse[v] = NoPos

(* In well-formed code a value is defined before every position it is live  *)
(* at, so that its interval begins with its first definition.               *)
LEMMA DefinedFirst ==
  ASSUME code \in Seq(Insn), WellFormed(code), NEW v \in VRegs, Defs(code, v) # {}
  PROVE  /\ DefPos(v) \in Defs(code, v) /\ DefPos(v) \in Positions(code)
         /\ \A p \in Mentions(code, v) : DefPos(v) <= p
         /\ \A p \in LiveIn(code, v) : DefPos(v) < p
         /\ Uses(code, v) \subseteq LiveIn(code, v) /\ LiveIn(code, v) \subseteq Positions(code)
         /\ DefPos(v) = First(Defs(code, v)) /\ DefPos(v) = First(Mentions(code, v))
<1> DEFINE defs == Defs(code, v)
           uses == Uses(code, v)
           all == Mentions(code, v)
<1>1. /\ defs \in SUBSET Positions(code) /\ uses \in SUBSET Positions(code)
      /\ all = defs \cup uses /\ Positions(code) \in SUBSET Nat
  BY DEF Defs, Uses, Mentions, Positions
<1>2. uses \subseteq LiveIn(code, v) /\ LiveIn(code, v) \subseteq Positions(code)
  BY LiveInIsLeast DEF Grown
<1>3. \A p \in LiveIn(code, v) : First(defs) < p
  <2>1. NeededAfterDefined(code, v)
    BY DEF WellFormed
  <2>2. QED
    BY <1>1, <2>1 DEF NeededAfterDefined
<1> HIDE DEF defs, uses, all
<1>4. First(defs) \in defs /\ \A p \in defs : First(defs) <= p
  BY <1>1, LeastIsFirst DEF defs
<1>5. First(all) \in all /\ \A p \in all : First(all) <= p
  BY <1>1, <1>4, LeastIsFirst
<1>6. First(all) \in Nat /\ First(defs) \in Nat
  BY <1>1, <1>4, <1>5
<1>7. First(all) \notin uses
  <2> SUFFICES ASSUME First(all) \in uses PROVE FALSE
    OBVIOUS
  <2>1. First(defs) < First(all)
    BY <1>2, <1>3
  <2>2. First(all) <= First(defs)
    BY <1>1, <1>4, <1>5
  <2>3. QED
    BY <1>6, <2>1, <2>2
<1>8. First(all) \in defs /\ First(all) = First(defs)
  <2>1. First(all) \in defs /\ First(defs) \in all
    BY <1>1, <1>4, <1>5, <1>7
  <2>2. First(defs) <= First(all) /\ First(all) <= First(defs)
    BY <1>4, <1>5, <2>1
  <2>3. QED
    BY <1>6, <2>1, <2>2
<1>9. DefPos(v) = First(all)
  <2>1. DefPos(v) = IF all = {} THEN NoPos ELSE IF First(all) \in defs THEN First(all) ELSE 0
    BY DEF DefPos, all, defs
  <2>2. all # {}
    BY <1>5
  <2>3. QED
    BY <1>8, <2>1, <2>2
<1>10. QED
  BY <1>1, <1>2, <1>3, <1>4, <1>5, <1>8, <1>9 DEF defs, uses, all

(* The last use is one, and no use is later. *)
LEMMA UsedLast ==
  ASSUME code \in Seq(Insn), NEW v \in VRegs
  PROVE  /\ LastUse(v) \in NoPos .. Len(code) - 1
         /\ \A p \in Uses(code, v) : p <= LastUse(v)
         /\ Uses(code, v) = {} => LastUse(v) = NoPos
<1>1. Uses(code, v) \in SUBSET (0 .. Len(code) - 1) /\ Len(code) \in Nat
  BY DEF Uses, Positions
<1>2. CASE Uses(code, v) = {}
  BY <1>1, <1>2 DEF LastUse, NoPos
<1>3. CASE Uses(code, v) # {}
  <2>1. LastUse(v) = Final(Uses(code, v))
    BY <1>3 DEF LastUse
  <2>2. LastUse(v) \in Uses(code, v) /\ \A p \in Uses(code, v) : p <= LastUse(v)
    BY <1>1, <1>3, <2>1, GreatestIsFinal
  <2>3. QED
    BY <1>1, <1>3, <2>2 DEF NoPos
<1>4. QED
  BY <1>2, <1>3

(* Control goes on to the next instruction, or to a label ahead, or along a *)
(* back edge.                                                               *)
LEMMA FlowGoesOn ==
  ASSUME code \in Seq(Insn), NEW p \in Positions(code), NEW q \in Successors(code, p)
  PROVE  q \in Positions(code) /\ (p < q \/ <<p, q>> \in BackEdges)
<1>1. Positions(code) \in SUBSET Int
  BY DEF Positions
<1>2. CASE q = p + 1 /\ q \in Positions(code)
  BY <1>1, <1>2
<1>3. CASE \E l \in Targets(At(code, p)) : q \in LabelPositions(code, l)
  <2>1. PICK l \in Targets(At(code, p)) : q \in LabelPositions(code, l)
    BY <1>3
  <2>2. q \in Positions(code) /\ At(code, q).kind = "label"
    BY <2>1 DEF LabelPositions
  <2>3. At(code, p).kind \in {"jmp", "br"}
    BY <2>1 DEF Targets
  <2>4. q # p
    BY <2>2, <2>3
  <2>5. CASE q < p
    BY <2>1, <2>2, <2>5 DEF BackEdges
  <2>6. QED
    BY <1>1, <2>2, <2>4, <2>5
<1>4. QED
  BY <1>2, <1>3 DEF Successors

(* When the scan is done, an interval holds the positions its value is live at. *)
LEMMA LiveIsCovered ==
  ASSUME CoverInv, scan = "done", NEW v \in VRegs
  PROVE  LiveIn(code, v) \subseteq defPos[v] .. lastUse[v]
<1> DEFINE X == {p \in LiveIn(code, v) : p <= lastUse[v]}
           live == LiveIn(code, v)
<1>1. /\ code \in Seq(Insn) /\ WellFormed(code) /\ Defs(code, v) # {}
      /\ defPos[v] = DefPos(v) /\ lastUse[v] \in Int /\ LastUse(v) <= lastUse[v]
  BY DEF CoverInv, LoopInv, NoPos
<1>2. /\ DefPos(v) \in Nat
      /\ \A p \in live : DefPos(v) < p
      /\ Uses(code, v) \subseteq live /\ live \subseteq Positions(code)
  BY <1>1, DefinedFirst DEF Positions
<1>3. /\ Grow(code, v, live) = live
      /\ \A Y \in SUBSET Positions(code) :
           Uses(code, v) \subseteq Y /\ Grow(code, v, Y) = Y => live \subseteq Y
  BY <1>1, LiveInIsLeast DEF Grown
<1>4. Positions(code) \in SUBSET Nat
  BY DEF Positions
<1>5. Uses(code, v) \subseteq X
  <2>1. \A p \in Uses(code, v) : p <= LastUse(v) /\ p \in Nat
    BY <1>1, <1>2, <1>4, UsedLast
  <2>2. LastUse(v) \in Int
    BY <1>1, UsedLast
  <2>3. QED
    BY <1>1, <1>2, <2>1, <2>2
<1> HIDE DEF live
<1>6. ASSUME NEW p \in Positions(code), At(code, p).dst # v, Successors(code, p) \cap X # {}
      PROVE  p \in X
  <2>1. PICK q \in X : q \in Successors(code, p)
    BY <1>6
  <2>2. q \in live /\ q <= lastUse[v] /\ q \in Nat /\ p \in Nat
    BY <1>2, <1>4, <2>1 DEF live
  <2>3. p \in live
    BY <1>3, <1>6, <2>1, <2>2 DEF Grow
  <2>4. CASE p < q
    BY <1>1, <2>2, <2>3, <2>4 DEF live
  <2>5. CASE <<p, q>> \in BackEdges
    <3>1. ~CrossesEdge(v, <<p, q>>)
      <4>1. LoopLivenessIsFixed
        BY LoopInvFixes DEF CoverInv
      <4>2. QED
        BY <2>5, <4>1 DEF LoopLivenessIsFixed
    <3>2. defPos[v] < q /\ defPos[v] >= 0
      BY <1>1, <1>2, <2>2
    <3>3. ~(lastUse[v] < p)
      BY <1>1, <2>2, <3>1, <3>2 DEF CrossesEdge
    <3>4. QED
      BY <1>1, <2>2, <2>3, <3>3 DEF live
  <2>6. QED
    BY <1>1, <2>1, <2>4, <2>5, FlowGoesOn
<1>7. Grow(code, v, X) = X
  BY <1>6 DEF Grow
<1>8. live \subseteq X
  BY <1>2, <1>3, <1>5, <1>7 DEF live
<1>9. QED
  BY <1>1, <1>2, <1>4, <1>8 DEF live

(* CoverInv holds initially, *)
LEMMA CoverInvAtStart ==
  ASSUME IntervalInit
  PROVE  CoverInv
<1>1. LoopInv
  BY LoopInvAtStart
<1>2. scan = "lowering"
  BY DEF IntervalInit
<1>3. QED
  BY <1>1, <1>2 DEF CoverInv

(* and every step keeps it. *)
LEMMA CoverInvStep ==
  ASSUME CoverInv, [IntervalNext]_intervalVars
  PROVE  CoverInv'
<1>1. LoopInv /\ LoopInv'
  BY LoopInvStep DEF CoverInv
<1>2. CASE AppendInsn
  <2>1. scan' = "lowering"
    BY <1>2 DEF AppendInsn
  <2>2. QED
    BY <1>1, <2>1 DEF CoverInv
<1>3. CASE EndLowering
  <2>1. scan' = "mentions" /\ code' = code /\ WellFormed(code) /\ \A v \in VRegs : Defs(code, v) # {}
    BY <1>3 DEF EndLowering
  <2>2. QED
    BY <1>1, <2>1 DEF CoverInv
<1>4. CASE MarkMentions
  <2>1. /\ scan = "mentions" /\ scan' \in {"edges", "done"} /\ code' = code
        /\ \A v \in VRegs : defPos'[v] = DefPos(v) /\ lastUse'[v] = LastUse(v)
    BY <1>4 DEF MarkMentions
  <2>2. WellFormed(code) /\ \A v \in VRegs : Defs(code, v) # {}
    BY <2>1 DEF CoverInv
  <2>3. ASSUME NEW v \in VRegs
        PROVE  /\ DefPos(v)' = DefPos(v) /\ LastUse(v)' = LastUse(v)
               /\ LastUse(v) \in NoPos .. Len(code) - 1 /\ LastUse(v) <= LastUse(v)
               /\ Uses(code, v) = {} => LastUse(v) = NoPos
    <3>1. DefPos(v)' = DefPos(v) /\ LastUse(v)' = LastUse(v)
      BY <2>1 DEF DefPos, LastUse
    <3>2. LastUse(v) \in NoPos .. Len(code) - 1 /\ (Uses(code, v) = {} => LastUse(v) = NoPos)
      BY <1>1, UsedLast DEF LoopInv
    <3>3. LastUse(v) <= LastUse(v)
      BY <3>2 DEF NoPos
    <3>4. QED
      BY <3>1, <3>2, <3>3
  <2>4. QED
    BY <1>1, <2>1, <2>2, <2>3 DEF CoverInv
<1>5. CASE Propagate
  <2>1. /\ scan = "edges" /\ scan' = "edges" /\ code' = code /\ defPos' = defPos
        /\ \A v \in VRegs : lastUse'[v] = IF CrossesEdge(v, edges[edge]) THEN edges[edge][1] ELSE lastUse[v]
    BY <1>5 DEF Propagate
  <2>2. edges[edge][1] \in 0 .. Len(code) - 1 /\ edges[edge][2] \in Nat
    <3>1. edges[edge] \in BackEdges
      BY <1>1, <1>5, EdgeListType DEF Propagate, LoopInv
    <3>2. QED
      BY <3>1 DEF BackEdges, Positions
  <2>3. ASSUME NEW v \in VRegs
        PROVE  /\ defPos'[v] = DefPos(v)'
               /\ lastUse'[v] \in NoPos .. Len(code) - 1
               /\ LastUse(v)' <= lastUse'[v]
               /\ Uses(code, v) = {} => lastUse'[v] = NoPos
    <3>1. /\ defPos[v] = DefPos(v) /\ lastUse[v] \in NoPos .. Len(code) - 1
          /\ LastUse(v) <= lastUse[v] /\ (Uses(code, v) = {} => lastUse[v] = NoPos)
      BY <2>1 DEF CoverInv
    <3>2. DefPos(v)' = DefPos(v) /\ LastUse(v)' = LastUse(v)
      BY <2>1 DEF DefPos, LastUse
    <3>3. LastUse(v) \in Int /\ Len(code) \in Nat
      BY <1>1, UsedLast DEF LoopInv
    <3>4. CASE CrossesEdge(v, edges[edge])
      <4>1. lastUse[v] < edges[edge][1] /\ lastUse[v] >= edges[edge][2]
        BY <3>4 DEF CrossesEdge
      <4>2. lastUse'[v] = edges[edge][1]
        BY <2>1, <3>4
      <4>3. lastUse[v] # NoPos
        BY <2>2, <3>1, <4>1 DEF NoPos
      <4>4. QED
        BY <2>1, <2>2, <3>1, <3>2, <3>3, <4>1, <4>2, <4>3 DEF NoPos
    <3>5. CASE ~CrossesEdge(v, edges[edge])
      BY <2>1, <3>1, <3>2, <3>5
    <3>6. QED
      BY <3>4, <3>5
  <2>4. QED
    BY <1>1, <2>1, <2>3 DEF CoverInv
<1>6. CASE EndOfRound
  <2>1. scan = "edges" /\ scan' \in {"edges", "done"} /\ code' = code /\ defPos' = defPos /\ lastUse' = lastUse
    BY <1>6 DEF EndOfRound
  <2>2. QED
    BY <1>1, <2>1 DEF CoverInv, DefPos, LastUse
<1>7. CASE UNCHANGED intervalVars
  BY <1>1, <1>7 DEF intervalVars, CoverInv, DefPos, LastUse
<1>8. QED
  BY <1>2, <1>3, <1>4, <1>5, <1>6, <1>7 DEF IntervalNext

(* CoverInv is an inductive invariant too. *)
LEMMA CoverInvCorrect == IntervalSpec => []CoverInv
BY CoverInvAtStart, CoverInvStep, PTL DEF IntervalSpec

(* The interval of a value covers every position at which some path of the  *)
(* function may still read it, across backward branches and nested loops,   *)
(* for every function the lowering can produce (src/ir/regalloc.c:236-385). *)
THEOREM LiveRangesAreCovered == IntervalSpec => []IntervalsCoverLiveness
<1>1. CoverInv => IntervalsCoverLiveness
  BY LiveIsCovered DEF IntervalsCoverLiveness
<1>2. QED
  BY <1>1, CoverInvCorrect, PTL

-----------------------------------------------------------------------------
(* The whole allocation. *)

(* Before the intervals are sorted the allocator has not begun; afterwards  *)
(* its input is what the scans computed, and its own invariant holds.       *)
Unallocated ==
  /\ cur = 1 /\ active = {} /\ used = {} /\ busy = {}
  /\ reg = [v \in Ranks |-> NoReg] /\ slot = [v \in Ranks |-> 0]
  /\ slots = <<>> /\ slotLast = [s \in Ranks |-> NoUse]
  /\ spillOffset \in Bases /\ frame = <<>>

Sorted ==
  /\ scan = "done"
  /\ sorted \in [Ranks -> VRegs] /\ OrderedByStart(sorted)
  /\ def = [i \in Ranks |-> defPos[sorted[i]]]
  /\ last = [i \in Ranks |-> lastUse[sorted[i]]]
  /\ calls = CallPositions
  /\ frame # <<>> => cur > NumVRegs

ScanInv ==
  /\ CoverInv
  /\ Len(code) <= MaxLen
  /\ sorted = <<>> => Unallocated
  /\ sorted # <<>> => Sorted /\ RegInv

(* The allocator's start, one step on. *)
LEMMA RegInvStarts == Init' => RegInv'
<1>1. Init => RegInv
  BY RegInvAtStart
<1>2. QED
  BY <1>1, PTL

(* Two values are never defined by the same instruction. *)
LEMMA StartsDiffer ==
  ASSUME CoverInv, scan = "done", NEW v \in VRegs, NEW w \in VRegs, defPos[v] = defPos[w]
  PROVE  v = w
<1>1. DefPos(v) \in Defs(code, v) /\ DefPos(w) \in Defs(code, w) /\ DefPos(v) = DefPos(w)
  BY DefinedFirst DEF CoverInv, LoopInv
<1>2. QED
  BY <1>1 DEF Defs

(* What the scans leave of a value is an interval. *)
LEMMA IntervalOf ==
  ASSUME CoverInv, scan = "done", Len(code) <= MaxLen, NEW v \in VRegs
  PROVE  /\ defPos[v] \in Pos
         /\ lastUse[v] \in Pos \cup {NoUse}
         /\ lastUse[v] = NoUse \/ defPos[v] <= lastUse[v]
<1>1. /\ code \in Seq(Insn) /\ WellFormed(code) /\ Defs(code, v) # {}
      /\ defPos[v] = DefPos(v) /\ lastUse[v] \in NoPos .. Len(code) - 1
      /\ LastUse(v) <= lastUse[v]
      /\ Uses(code, v) = {} => lastUse[v] = NoPos
  BY DEF CoverInv, LoopInv
<1>2. Len(code) \in Nat /\ Len(code) <= MaxPos /\ MaxPos \in Nat
  BY <1>1, ScanFits, CountsAreNat
<1>3. DefPos(v) \in 0 .. Len(code) - 1
  BY <1>1, DefinedFirst DEF Positions
<1>4. defPos[v] \in Pos
  BY <1>1, <1>2, <1>3 DEF Pos
<1>5. lastUse[v] \in Pos \cup {NoUse}
  BY <1>1, <1>2 DEF Pos, NoUse, NoPos
<1>6. CASE Uses(code, v) # {}
  <2>1. PICK p \in Uses(code, v) : TRUE
    BY <1>6
  <2>2. DefPos(v) < p /\ p \in Nat
    <3>1. p \in LiveIn(code, v) /\ \A q \in LiveIn(code, v) : DefPos(v) < q
      BY <1>1, <2>1, DefinedFirst
    <3>2. QED
      BY <2>1, <3>1 DEF Uses, Positions
  <2>3. p <= LastUse(v) /\ LastUse(v) \in Int
    BY <1>1, <2>1, UsedLast DEF NoPos
  <2>4. QED
    BY <1>1, <1>3, <1>4, <1>5, <2>2, <2>3 DEF NoPos
<1>7. CASE Uses(code, v) = {}
  BY <1>1, <1>4, <1>5, <1>7 DEF NoUse, NoPos
<1>8. QED
  BY <1>6, <1>7

(* Sorting hands the allocator a state it may start in. *)
LEMMA SortStarts ==
  ASSUME ScanInv, Sort
  PROVE  sorted' # <<>> => Sorted' /\ Init'
<1> SUFFICES ASSUME sorted' # <<>> PROVE Sorted' /\ Init'
  OBVIOUS
<1>1. /\ scan = "done" /\ CoverInv /\ Len(code) <= MaxLen /\ Unallocated
      /\ code' = code /\ scan' = scan /\ defPos' = defPos /\ lastUse' = lastUse
  BY DEF Sort, ScanInv, intervalVars
<1>2. /\ sorted' \in [Ranks -> VRegs]
      /\ \A i, j \in Ranks : sorted'[i] = sorted'[j] => i = j
      /\ \A i, j \in Ranks : i < j => defPos[sorted'[i]] <= defPos[sorted'[j]]
  BY DEF Sort, OrderedByStart
<1>3. OrderedByStart(sorted)'
  BY <1>1, <1>2 DEF OrderedByStart
<1>4. /\ def' = [i \in Ranks |-> defPos[sorted'[i]]]
      /\ last' = [i \in Ranks |-> lastUse[sorted'[i]]]
      /\ shape' \in [Ranks -> Shapes]
      /\ calls' = CallPositions
  BY DEF Sort
<1>5. ASSUME NEW i \in Ranks
      PROVE  /\ def'[i] \in Pos
             /\ last'[i] \in Pos \cup {NoUse}
             /\ last'[i] = NoUse \/ def'[i] <= last'[i]
  BY <1>1, <1>2, <1>4, IntervalOf
<1>6. ASSUME NEW i \in Ranks, NEW j \in Ranks, i < j
      PROVE  def'[i] < def'[j]
  <2>1. def'[i] <= def'[j] /\ def'[i] \in Nat /\ def'[j] \in Nat
    BY <1>2, <1>4, <1>5, <1>6 DEF Pos
  <2>2. i # j
    BY <1>6 DEF Ranks
  <2>3. def'[i] # def'[j]
    <3> SUFFICES ASSUME def'[i] = def'[j] PROVE FALSE
      OBVIOUS
    <3>1. defPos[sorted'[i]] = defPos[sorted'[j]] /\ sorted'[i] \in VRegs /\ sorted'[j] \in VRegs
      BY <1>2, <1>4
    <3>2. sorted'[i] = sorted'[j]
      BY <1>1, <3>1, StartsDiffer
    <3>3. QED
      BY <1>2, <2>2, <3>2
  <2>4. QED
    BY <2>1, <2>3
<1>7. calls' \in CallSets
  <2>1. Len(code) \in Nat /\ Len(code) <= MaxPos /\ MaxPos \in Nat
    BY <1>1, ScanFits, CountsAreNat DEF CoverInv, LoopInv
  <2>2. CallPositions \in SUBSET Pos
    BY <2>1 DEF CallPositions, Positions, Pos
  <2>3. QED
    BY <1>4, <2>2, ScanFits
<1>8. Intervals'
  <2>1. def' \in [Ranks -> Pos] /\ last' \in [Ranks -> Pos \cup {NoUse}]
    BY <1>4, <1>5
  <2>2. QED
    BY <1>4, <1>5, <1>6, <1>7, <2>1 DEF Intervals
<1>9. /\ cur' = cur /\ active' = active /\ used' = used /\ reg' = reg /\ slot' = slot
      /\ slots' = slots /\ slotLast' = slotLast /\ busy' = busy
      /\ spillOffset' = spillOffset /\ frame' = frame
  BY DEF Sort
<1>10. Init'
  BY <1>1, <1>8, <1>9 DEF Init, Unallocated
<1>11. CallPositions' = CallPositions
  BY <1>1 DEF CallPositions
<1>12. Sorted'
  BY <1>1, <1>2, <1>3, <1>4, <1>9, <1>11 DEF Sorted, Unallocated
<1>13. QED
  BY <1>10, <1>12

(* ScanInv is an inductive invariant of regalloc_function. *)
LEMMA ScanInvAtStart ==
  ASSUME ScanInit
  PROVE  ScanInv
<1>1. CoverInv
  BY CoverInvAtStart DEF ScanInit
<1>2. Len(code) <= MaxLen
  BY ScanFits DEF ScanInit, IntervalInit
<1>3. QED
  BY <1>1, <1>2 DEF ScanInit, ScanInv, Unallocated

(* Every step keeps ScanInv: computing the intervals, sorting, allocating. *)
LEMMA ScanInvStep ==
  ASSUME ScanInv, [ScanNext]_scanVars
  PROVE  ScanInv'
<1>1. CASE ComputeIntervals
  <2>1. IntervalNext /\ sorted' = sorted /\ UNCHANGED allocVars
    BY <1>1 DEF ComputeIntervals
  <2>2. CoverInv'
    BY <2>1, CoverInvStep DEF ScanInv
  <2>3. Len(code') <= MaxLen
    <3>1. CASE AppendInsn
      <4>1. PICK insn \in Menu : code' = Append(code, insn)
        BY <3>1 DEF AppendInsn
      <4>2. code \in Seq(Insn) /\ Len(code) < MaxLen /\ MaxLen \in Nat
        BY <3>1, ScanFits, CountsAreNat DEF AppendInsn, ScanInv, CoverInv, LoopInv
      <4>3. Len(code') = Len(code) + 1 /\ Len(code) \in Nat
        BY <4>1, <4>2
      <4>4. QED
        BY <4>2, <4>3
    <3>2. CASE code' = code
      BY <3>2 DEF ScanInv
    <3>3. QED
      BY <2>1, <3>1, <3>2 DEF IntervalNext, EndLowering, MarkMentions, Propagate, EndOfRound
  <2>4. scan # "done"
    BY <2>1 DEF IntervalNext, AppendInsn, EndLowering, MarkMentions, Propagate, EndOfRound
  <2>5. sorted = <<>> /\ Unallocated
    BY <2>4 DEF ScanInv, Sorted
  <2>6. Unallocated'
    BY <2>1, <2>5 DEF allocVars, Unallocated
  <2>7. QED
    BY <2>1, <2>2, <2>3, <2>5, <2>6 DEF ScanInv
<1>2. CASE Sort
  <2>1. UNCHANGED intervalVars
    BY <1>2 DEF Sort
  <2>2. CoverInv' /\ Len(code') <= MaxLen
    BY <2>1, CoverInvStep DEF ScanInv, intervalVars
  <2>3. sorted' # <<>> => Sorted' /\ Init'
    BY <1>2, SortStarts
  <2>4. sorted' # <<>> => Sorted' /\ RegInv'
    BY <2>3, RegInvStarts
  <2>5. sorted' = <<>> => Unallocated'
    BY <1>2 DEF Sort, ScanInv, Unallocated
  <2>6. QED
    BY <2>2, <2>4, <2>5 DEF ScanInv
<1>3. CASE AllocateSorted
  <2>1. UNCHANGED intervalVars /\ sorted' = sorted /\ sorted # <<>> /\ Next
    BY <1>3 DEF AllocateSorted
  <2>2. CoverInv' /\ Len(code') <= MaxLen
    BY <2>1, CoverInvStep DEF ScanInv, intervalVars
  <2>3. RegInv'
    BY <2>1, RegInvStep DEF ScanInv
  <2>4. /\ def' = def /\ last' = last /\ calls' = calls
        /\ frame' # <<>> => cur' > NumVRegs
    <3>1. Sorted /\ cur \in Nat /\ NumVRegs \in Nat
      BY <2>1, CountsAreNat DEF ScanInv, RegInv, TypeOK
    <3>2. CASE Allocate
      <4>1. frame = <<>> /\ frame' = frame
        BY <3>1, <3>2 DEF Allocate, Sorted
      <4>2. QED
        BY <3>2, <4>1 DEF Allocate, input
    <3>3. CASE Finish
      BY <3>3 DEF Finish, input
    <3>4. CASE Terminated
      BY <3>1, <3>4 DEF Terminated, vars, Sorted
    <3>5. QED
      BY <2>1, <3>2, <3>3, <3>4 DEF Next
  <2>5. Sorted'
    BY <2>1, <2>4 DEF ScanInv, Sorted, intervalVars, OrderedByStart, CallPositions
  <2>6. QED
    BY <2>1, <2>2, <2>3, <2>5 DEF ScanInv
<1>4. CASE UNCHANGED scanVars
  <2>1. UNCHANGED intervalVars /\ UNCHANGED allocVars /\ sorted' = sorted
    BY <1>4 DEF scanVars
  <2>2. CoverInv' /\ Len(code') <= MaxLen
    BY <2>1, CoverInvStep DEF ScanInv, intervalVars
  <2>3. RegInv => RegInv'
    BY <2>1, RegInvStep DEF allocVars, vars
  <2>4. Unallocated => Unallocated'
    BY <2>1 DEF allocVars, Unallocated
  <2>5. Sorted => Sorted'
    BY <2>1 DEF allocVars, intervalVars, Sorted, OrderedByStart, CallPositions
  <2>6. QED
    BY <2>1, <2>2, <2>3, <2>4, <2>5 DEF ScanInv
<1>5. QED
  BY <1>1, <1>2, <1>3, <1>4 DEF ScanNext

LEMMA ScanInvCorrect == ScanSpec => []ScanInv
BY ScanInvAtStart, ScanInvStep, PTL DEF ScanSpec
-----------------------------------------------------------------------------
(* What the registers hold. *)

(* Every value has a rank: there are as many ranks as values, and no value  *)
(* has two.                                                                 *)
LEMMA RankOf ==
  ASSUME Sorted, NEW v \in VRegs
  PROVE  \E i \in Ranks : sorted[i] = v /\ RegOf(v) = reg[i]
<1>1. /\ sorted \in [Ranks -> VRegs]
      /\ \A i, j \in Ranks : sorted[i] = sorted[j] => i = j
  BY DEF Sorted, OrderedByStart
<1>2. sorted \in Injection(Ranks, VRegs)
  BY <1>1 DEF Injection, IsInjective
<1>3. IsFiniteSet(VRegs) /\ NumVRegs = Cardinality(VRegs) /\ NumVRegs \in Nat
  BY ScanFits, CountsAreNat
<1>4. Cardinality(Ranks) = NumVRegs
  <2>1. 1 \in Int /\ NumVRegs \in Int
    BY <1>3
  <2>2. Cardinality(1 .. NumVRegs) = IF 1 > NumVRegs THEN 0 ELSE NumVRegs - 1 + 1
    BY <2>1, FS_Interval
  <2>3. QED
    BY <1>3, <2>2 DEF Ranks
<1>5. sorted \in Surjection(Ranks, VRegs)
  BY <1>2, <1>3, <1>4, FS_Injection
<1>6. PICK i \in Ranks : sorted[i] = v
  BY <1>5 DEF Surjection
<1>7. (CHOOSE j \in Ranks : sorted[j] = v) = i
  BY <1>1, <1>6
<1>8. QED
  BY <1>6, <1>7 DEF RegOf

(* A value of rank i is defined before it is live and live within its       *)
(* interval.                                                                *)
LEMMA LiveWithin ==
  ASSUME ScanInv, sorted # <<>>, NEW i \in Ranks, NEW v \in VRegs, sorted[i] = v,
         NEW p \in LiveIn(code, v)
  PROVE  p \in Nat /\ def[i] \in Nat /\ last[i] \in Int /\ def[i] < p /\ p <= last[i]
<1>1. /\ code \in Seq(Insn) /\ WellFormed(code) /\ Defs(code, v) # {}
      /\ defPos[v] = DefPos(v) /\ lastUse[v] \in NoPos .. Len(code) - 1
      /\ def[i] = defPos[v] /\ last[i] = lastUse[v] /\ CoverInv /\ scan = "done"
  BY DEF ScanInv, CoverInv, LoopInv, Sorted
<1>2. DefPos(v) \in Positions(code) /\ DefPos(v) < p /\ p \in Positions(code)
  BY <1>1, DefinedFirst
<1>3. p \in defPos[v] .. lastUse[v]
  BY <1>1, LiveIsCovered
<1>4. QED
  BY <1>1, <1>2, <1>3 DEF Positions, NoPos

(* A value that is live after an instruction that does not write it is live *)
(* before it.                                                               *)
LEMMA LiveThrough ==
  ASSUME code \in Seq(Insn), NEW v \in VRegs, NEW p \in LiveOut(code, v), At(code, p).dst # v
  PROVE  p \in LiveIn(code, v) /\ p \in Positions(code)
<1>1. p \in Positions(code) /\ Successors(code, p) \cap LiveIn(code, v) # {}
  BY DEF LiveOut
<1>2. Grow(code, v, LiveIn(code, v)) = LiveIn(code, v)
  BY LiveInIsLeast DEF Grown
<1>3. QED
  BY <1>1, <1>2 DEF Grow

(* A value written where another is live begins later than that one: the    *)
(* second writer of a merged value ends the code of its arms, where nothing *)
(* that begins in the arms is live any more.                                *)
LEMMA ResultBeginsLater ==
  ASSUME CoverInv, scan = "done", NEW v \in VRegs, NEW w \in VRegs \ {v},
         NEW p \in LiveOut(code, v), At(code, p).dst = w
  PROVE  defPos[v] < defPos[w]
<1> SUFFICES ASSUME ~(defPos[v] < defPos[w]) PROVE FALSE
  OBVIOUS
<1>1. /\ code \in Seq(Insn) /\ WellFormed(code) /\ Defs(code, v) # {} /\ Defs(code, w) # {}
      /\ defPos[v] = DefPos(v) /\ defPos[w] = DefPos(w)
  BY DEF CoverInv, LoopInv
<1>2. p \in LiveIn(code, v) /\ p \in Positions(code) /\ p \in Defs(code, w)
  <2>1. p \in LiveIn(code, v) /\ p \in Positions(code)
    BY <1>1, LiveThrough
  <2>2. QED
    BY <2>1 DEF Defs
<1>3. /\ DefPos(v) \in Defs(code, v) /\ DefPos(v) \in Nat /\ DefPos(v) < p
      /\ DefPos(v) = First(Mentions(code, v))
      /\ DefPos(w) \in Defs(code, w) /\ DefPos(w) \in Nat
      /\ DefPos(w) = First(Defs(code, w))
  BY <1>1, <1>2, DefinedFirst DEF Positions
<1>4. DefPos(w) < DefPos(v) /\ p \in Nat
  <2>1. DefPos(w) # DefPos(v)
    BY <1>3 DEF Defs
  <2>2. QED
    BY <1>1, <1>2, <1>3, <2>1 DEF Positions
<1>5. Merged(code, w)
  <2>1. Cardinality(Defs(code, w)) > 1
    <3>1. IsFiniteSet(Defs(code, w))
      <4>1. 0 \in Int /\ Len(code) - 1 \in Int
        BY <1>1
      <4>2. IsFiniteSet(0 .. Len(code) - 1)
        BY <4>1, FS_Interval
      <4>3. Defs(code, w) \in SUBSET (0 .. Len(code) - 1)
        BY DEF Defs, Positions
      <4>4. QED
        BY <4>2, <4>3, FS_Subset
    <3>2. {p, DefPos(w)} \in SUBSET Defs(code, w) /\ p # DefPos(w)
      BY <1>2, <1>3, <1>4
    <3>3. Cardinality({p, DefPos(w)}) = 2
      <4>1. IsFiniteSet({p}) /\ Cardinality({p}) = 1
        BY FS_Singleton
      <4>2. {p, DefPos(w)} = {p} \cup {DefPos(w)} /\ DefPos(w) \notin {p}
        BY <3>2
      <4>3. Cardinality({p} \cup {DefPos(w)}) = Cardinality({p}) + 1
        BY <4>1, <4>2, FS_AddElement
      <4>4. QED
        BY <4>1, <4>2, <4>3
    <3>4. Cardinality({p, DefPos(w)}) <= Cardinality(Defs(code, w))
          /\ Cardinality(Defs(code, w)) \in Nat
      BY <3>1, <3>2, FS_Subset, FS_CardinalityType
    <3>5. QED
      BY <3>3, <3>4
  <2>2. QED
    BY <1>1, <2>1 DEF WellFormed
<1>6. PICK d1, d2 : d1 = First(Defs(code, w)) /\ d2 = Final(Defs(code, w))
  OBVIOUS
<1>7. /\ Defs(code, w) = {d1, d2} /\ d1 = DefPos(w)
      /\ \A q \in Uses(code, w) : d2 < q
      /\ Mentions(code, v) \cap (d1 .. d2) # {} =>
           First(Mentions(code, v)) < d1 \/ d2 \notin LiveOut(code, v)
  BY <1>3, <1>5, <1>6 DEF Merged
<1>8. p = d2
  BY <1>2, <1>3, <1>4, <1>7
<1>9. Mentions(code, v) \cap (d1 .. d2) # {}
  <2>1. DefPos(v) \in Mentions(code, v) /\ DefPos(v) \in d1 .. d2
    BY <1>3, <1>4, <1>7, <1>8 DEF Mentions
  <2>2. QED
    BY <2>1
<1>10. First(Mentions(code, v)) < d1
  BY <1>7, <1>8, <1>9
<1>11. QED
  BY <1>3, <1>4, <1>7, <1>10

(* src/ir/regalloc.c, regalloc_function: from the code of a function to its *)
(* registers, an instruction never writes its result over a value that is   *)
(* still to be read, for every function the lowering can produce and every  *)
(* register pool.                                                           *)
THEOREM NothingClobbered == ScanSpec => []ResultsClobberNothing
<1>1. ScanInv => ResultsClobberNothing
  <2> SUFFICES ASSUME ScanInv, frame # <<>>, NEW v \in VRegs, RegOf(v) # NoReg,
                      NEW p \in LiveOut(code, v), At(code, p).dst \notin {v, None},
                      RegOf(At(code, p).dst) = RegOf(v)
               PROVE  FALSE
    BY DEF ResultsClobberNothing
  <2>1. Sorted /\ RegInv /\ CoverInv /\ sorted # <<>> /\ scan = "done" /\ code \in Seq(Insn)
    BY DEF ScanInv, Unallocated, Sorted, CoverInv, LoopInv
  <2>2. p \in LiveIn(code, v) /\ p \in Positions(code)
    BY <2>1, LiveThrough
  <2>3. PICK w : w = At(code, p).dst
    OBVIOUS
  <2>4. w \in VRegs \ {v}
    <3>1. At(code, p) \in Insn
      BY <2>1, <2>2 DEF Positions, At
    <3>2. QED
      BY <2>3, <3>1 DEF Insn
  <2>5. PICK i \in Ranks : sorted[i] = v /\ RegOf(v) = reg[i]
    BY <2>1, RankOf
  <2>6. PICK j \in Ranks : sorted[j] = w /\ RegOf(w) = reg[j]
    BY <2>1, <2>4, RankOf
  <2>7. i \in Handled /\ j \in Handled
    <3>1. cur > NumVRegs /\ cur \in Nat /\ NumVRegs \in Nat
      BY <2>1, CountsAreNat DEF Sorted, RegInv, TypeOK
    <3>2. QED
      BY <3>1 DEF Handled, Ranks
  <2>8. reg[i] # NoReg /\ reg[i] = reg[j]
    BY <2>3, <2>5, <2>6
  <2>9. Apart(i, j) /\ Apart(j, i)
    BY <2>1, <2>7, <2>8 DEF RegInv, RegistersDisjoint
  <2>10. i \in Nat /\ j \in Nat /\ i # j
    BY <2>4, <2>5, <2>6 DEF Ranks
  <2>11. p \in Nat /\ def[i] \in Nat /\ last[i] \in Int /\ def[i] < p /\ p <= last[i]
    BY <2>1, <2>2, <2>5, LiveWithin
  <2>12. def[j] = defPos[w] /\ def[i] = defPos[v]
    BY <2>1, <2>5, <2>6 DEF Sorted
  <2>13. defPos[w] \in Nat /\ defPos[w] <= p
    <3>1. p \in Mentions(code, w)
      BY <2>2, <2>3 DEF Mentions, Defs
    <3>2. defPos[w] = DefPos(w) /\ WellFormed(code) /\ Defs(code, w) # {}
      BY <2>1, <2>4 DEF CoverInv
    <3>3. DefPos(w) \in Positions(code) /\ DefPos(w) <= p
      BY <2>1, <2>4, <3>1, <3>2, DefinedFirst
    <3>4. QED
      BY <3>2, <3>3 DEF Positions
  <2>14. CASE i < j
    <3>1. last[i] < def[j]
      BY <2>9, <2>14 DEF Apart
    <3>2. QED
      BY <2>11, <2>12, <2>13, <3>1
  <2>15. CASE j < i
    <3>1. defPos[w] <= defPos[v]
      BY <2>1, <2>5, <2>6, <2>15 DEF Sorted, OrderedByStart
    <3>2. defPos[v] < defPos[w]
      BY <2>1, <2>3, <2>4, ResultBeginsLater
    <3>3. QED
      BY <2>11, <2>12, <2>13, <3>1, <3>2
  <2>16. QED
    BY <2>10, <2>14, <2>15
<1>2. QED
  BY <1>1, ScanInvCorrect, PTL

(* src/ir/regalloc.c, interval_spans_call: no value that is needed after a  *)
(* call is in a register the call clobbers, on whatever path the call is.   *)
THEOREM CallsSpareValues == ScanSpec => []CallsClobberNothing
<1>1. ScanInv => CallsClobberNothing
  <2> SUFFICES ASSUME ScanInv, frame # <<>>, NEW v \in VRegs, RegOf(v) \in Scratch,
                      NEW p \in LiveOut(code, v), At(code, p).kind = "call", At(code, p).dst # v
               PROVE  FALSE
    BY DEF CallsClobberNothing
  <2>1. Sorted /\ RegInv /\ CoverInv /\ sorted # <<>> /\ scan = "done" /\ code \in Seq(Insn)
    BY DEF ScanInv, Unallocated, Sorted, CoverInv, LoopInv
  <2>2. p \in LiveIn(code, v) /\ p \in Positions(code)
    BY <2>1, LiveThrough
  <2>3. p + 1 \in LiveIn(code, v)
    <3>1. Successors(code, p) \cap LiveIn(code, v) # {}
      BY DEF LiveOut
    <3>2. Targets(At(code, p)) = {}
      BY DEF Targets
    <3>3. QED
      BY <3>1, <3>2 DEF Successors
  <2>4. PICK i \in Ranks : sorted[i] = v /\ RegOf(v) = reg[i]
    BY <2>1, RankOf
  <2>5. i \in Handled
    <3>1. cur > NumVRegs /\ cur \in Nat /\ NumVRegs \in Nat
      BY <2>1, CountsAreNat DEF Sorted, RegInv, TypeOK
    <3>2. QED
      BY <3>1 DEF Handled, Ranks
  <2>6. reg[i] # NoReg /\ reg[i] \in Scratch
    BY <2>4, CountsAreNat DEF Scratch, NoReg
  <2>7. p \in Nat /\ def[i] \in Nat /\ last[i] \in Int /\ def[i] < p /\ p + 1 <= last[i]
    BY <2>1, <2>2, <2>3, <2>4, LiveWithin
  <2>8. p \in calls
    BY <2>1, <2>2 DEF Sorted, CallPositions
  <2>9. p <= def[i] \/ last[i] <= p
    BY <2>1, <2>5, <2>6, <2>8 DEF RegInv, RegisterSuits
  <2>10. QED
    BY <2>7, <2>9
<1>2. QED
  BY <1>1, ScanInvCorrect, PTL

-----------------------------------------------------------------------------
(* The passes of regalloc_function composed. *)

(* What happens to the intervals while a function is allocated is a run of  *)
(* compute_live_intervals: sorting and allocation leave them alone.         *)
THEOREM ScanRunsIntervals == ScanSpec => IntervalSpec
<1>1. ScanInit => IntervalInit
  BY DEF ScanInit
<1>2. [ScanNext]_scanVars => [IntervalNext]_intervalVars
  <2>1. ComputeIntervals => IntervalNext
    BY DEF ComputeIntervals
  <2>2. Sort \/ AllocateSorted => UNCHANGED intervalVars
    BY DEF Sort, AllocateSorted
  <2>3. UNCHANGED scanVars => UNCHANGED intervalVars
    BY DEF scanVars
  <2>4. QED
    BY <2>1, <2>2, <2>3 DEF ScanNext
<1>3. QED
  BY <1>1, <1>2, PTL DEF ScanSpec, IntervalSpec

(* So the ranges the allocator is given (src/ir/regalloc.c:236-385) cover   *)
(* every use, and the bounded propagation that found them was not cut       *)
(* short, in every run of the allocator as a whole.                         *)
THEOREM AllocatedRangesAreCovered == ScanSpec => [](IntervalsCoverLiveness /\ LoopLivenessIsFixed)
BY ScanRunsIntervals, LiveRangesAreCovered, LoopLivenessReachesFixpoint, PTL
=============================================================================
