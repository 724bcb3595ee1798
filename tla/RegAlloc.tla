------------------------------- MODULE RegAlloc -------------------------------
(***************************************************************************)
(* The linear-scan register allocator of ir/regalloc.c                     *)
(* (regalloc_function), from the sorted live intervals to the frame.       *)
(*                                                                         *)
(* The live intervals are the input.  Virtual registers are numbered       *)
(* 1..NumVRegs in the order qsort() leaves them in sorted_vregs, so vreg v *)
(* is the one the v-th iteration of the loop handles; vregs that are never *)
(* mentioned by an instruction (def_pos = -1) do not take part.            *)
(*                                                                         *)
(* A physical register is named by its pool index: gp_regs come first,     *)
(* then scratch_gp_regs, then fp_regs, so that gp_used and fp_used are one *)
(* set `used'.  The list `active' is a set: it is kept sorted by last use  *)
(* and, among equals, by insertion, which is the order of the vreg         *)
(* numbers, so the order can be recomputed wherever the code looks at it.  *)
(***************************************************************************)
EXTENDS Integers, FiniteSets, Sequences

CONSTANTS
  NumVRegs,    \* vregs with an interval
  MaxPos,      \* bound on instruction positions
  NumGp,       \* pool->num_gp_regs: callee-saved general registers
  NumScratch,  \* pool->num_scratch_gp_regs: clobbered by every call
  NumFp,       \* pool->num_fp_regs
  Shapes,      \* what a vreg may hold: [float, mem, size, align]
  CallSets,    \* the sets of call positions to consider
  Bases        \* the frame bytes in use before spilling (get_spill_base)

Ranks == 1 .. NumVRegs
Pos == 0 .. MaxPos
NoUse == -1
NoReg == -1

GpCount == NumGp + NumScratch
Scratch == NumGp .. GpCount - 1
GpPool  == 0 .. GpCount - 1
FpPool  == GpCount .. GpCount + NumFp - 1
Pool    == GpPool \cup FpPool

(* max_active: the room allocated for the active list. *)
MaxActive == IF GpCount > NumFp THEN GpCount ELSE NumFp

Shape == [float : BOOLEAN, mem : BOOLEAN, size : Nat \ {0}, align : Nat \ {0}]

ASSUME CountsAreNat == /\ NumVRegs \in Nat
                       /\ MaxPos \in Nat
                       /\ NumGp \in Nat
                       /\ NumScratch \in Nat
                       /\ NumFp \in Nat
ASSUME InputsAreTyped == /\ Shapes \subseteq Shape
                         /\ CallSets \subseteq SUBSET Pos
                         /\ Bases \subseteq Nat

(* The types of C: an alignment is a power of two, so it divides the word   *)
(* or the word divides it, and the size of a type is a multiple of it       *)
(* (src/parse.c:3514, 3535).                                                *)
ASSUME ShapesAreAligned ==
  \A s \in Shapes : /\ s.size % s.align = 0
                    /\ 8 % s.align = 0 \/ s.align % 8 = 0

VARIABLES
  def,         \* vreg -> def_pos
  last,        \* vreg -> last_use_pos, NoUse when nothing reads it
  shape,       \* vreg -> its register class, eligibility, size and alignment
  calls,       \* positions of LLIR_CALL instructions
  cur,         \* the vreg the loop handles next
  active,      \* vregs in the active list
  used,        \* pool registers marked in gp_used / fp_used
  reg,         \* vreg -> phys_reg (as a pool index) or NoReg
  slot,        \* vreg -> its spill slot, 0 when it has none
  slots,       \* the spill slot table: where each slot is, [offset, size]
  slotLast,    \* slot -> last_use_pos of the value it was last given to
  busy,        \* slots with in_use set
  spillOffset, \* bytes of the frame used so far
  frame        \* <<>> until the end, then callee_saved_mask and stack_size

input == <<def, last, shape, calls>>
table == <<slots, slotLast, busy, spillOffset>>
vars == <<def, last, shape, calls, cur, active, used, reg, slot, slots,
          slotLast, busy, spillOffset, frame>>

-----------------------------------------------------------------------------
(* Helpers of the allocator. *)

AlignTo(n, a) == ((n + a - 1) \div a) * a

NormalizeSize(v)  == IF shape[v].size < 8 THEN 8 ELSE shape[v].size
NormalizeAlign(v) == IF shape[v].align < 8 THEN 8 ELSE shape[v].align

(* vreg_is_aggregate(v) or a vreg no instruction defines: never in a register. *)
Eligible(v) == ~shape[v].mem

(* interval_spans_call: a call strictly inside the interval. *)
SpansCall(v) == \E c \in calls : def[v] < c /\ c < last[v]

(* Mutant: scratch registers are offered to every interval. *)
AllowedAnywhere(v) == IF shape[v].float THEN FpPool ELSE GpPool

(* The registers find_free_gp_reg / find_free_fp_reg look at for v. *)
Allowed(v) ==
  IF shape[v].float THEN FpPool
  ELSE IF SpansCall(v) THEN GpPool \ Scratch
  ELSE GpPool

(* The order they are tried in: scratch before callee-saved, then by index. *)
TriedBefore(r, q) ==
  \/ r \in Scratch /\ q \notin Scratch
  \/ (r \in Scratch <=> q \in Scratch) /\ r <= q

(* Mutant: an interval expires at its last use. *)
ExpiredAtUse(start) == {v \in active : last[v] <= start}

(* expire_active: vregs whose last use is strictly before start. *)
Expired(start) == {v \in active : last[v] < start}
LiveActive(start) == active \ Expired(start)
UsedAfterExpiry(start) == used \ {reg[v] : v \in Expired(start)}

(* expire_spill_slots: slots whose value is dead before start. *)
BusyAfterExpiry(start) == {s \in busy : slotLast[s] >= start}

-----------------------------------------------------------------------------
(* The initial states: every list of intervals compute_live_intervals can   *)
(* produce.  An instruction defines one vreg, so two intervals start at the *)
(* same position only at 0, where the vregs used before they are defined    *)
(* are made to start.                                                       *)

Intervals ==
  /\ def \in [Ranks -> Pos]
  /\ \A v, w \in Ranks : v < w => def[v] < def[w] \/ (def[v] = 0 /\ def[w] = 0)
  /\ last \in [Ranks -> Pos \cup {NoUse}]
  /\ \A v \in Ranks : last[v] = NoUse \/ def[v] <= last[v]
  /\ shape \in [Ranks -> Shapes]
  /\ calls \in CallSets

Init ==
  /\ Intervals
  /\ cur = 1
  /\ active = {}
  /\ used = {}
  /\ reg = [v \in Ranks |-> NoReg]
  /\ slot = [v \in Ranks |-> 0]
  /\ slots = <<>>
  /\ slotLast = [s \in Ranks |-> NoUse]
  /\ busy = {}
  /\ spillOffset \in Bases
  /\ frame = <<>>

-----------------------------------------------------------------------------
(* allocate_spill_slot, after expire_spill_slots(start). *)

(* Mutant: a dead slot is reused whatever its size. *)
ReusableAnySize(v, start) ==
  {s \in DOMAIN slots : /\ s \notin BusyAfterExpiry(start)
                        /\ slots[s].offset % NormalizeAlign(v) = 0}

Reusable(v, start) ==
  {s \in DOMAIN slots : /\ s \notin BusyAfterExpiry(start)
                        /\ slots[s].size >= NormalizeSize(v)
                        /\ slots[s].offset % NormalizeAlign(v) = 0}

(* Mutant: a reused slot keeps the last use of its former value. *)
OccupyStale(s, v, start) ==
  /\ slot' = [slot EXCEPT ![v] = s]
  /\ slotLast' = [slotLast EXCEPT ![s] = IF @ = NoUse THEN last[v] ELSE @]
  /\ busy' = BusyAfterExpiry(start) \cup {s}

(* The slot is reserved for the value of v until v's last use. *)
Occupy(s, v, start) ==
  /\ slot' = [slot EXCEPT ![v] = s]
  /\ slotLast' = [slotLast EXCEPT ![s] = last[v]]
  /\ busy' = BusyAfterExpiry(start) \cup {s}

(* First fit among the dead compatible slots. *)
ReuseSlot(v, start) ==
  \E s \in Reusable(v, start) :
    /\ \A t \in Reusable(v, start) : s <= t
    /\ Occupy(s, v, start)
    /\ UNCHANGED <<slots, spillOffset>>

(* No dead slot fits: a new one below the frame used so far. *)
NewSlot(v, start) ==
  /\ Reusable(v, start) = {}
  /\ Len(slots) < NumVRegs
  /\ spillOffset' = AlignTo(spillOffset, NormalizeAlign(v)) + NormalizeSize(v)
  /\ slots' = Append(slots, [offset |-> spillOffset', size |-> NormalizeSize(v)])
  /\ Occupy(Len(slots'), v, start)

GiveSlot(v, start) == ReuseSlot(v, start) \/ NewSlot(v, start)

-----------------------------------------------------------------------------
(* One iteration of the loop over sorted_vregs, by outcome.  Each one first *)
(* expires the active intervals and the slots that ended before v starts.   *)

FreeRegs(v) == IF Eligible(v) THEN Allowed(v) \ UsedAfterExpiry(def[v]) ELSE {}

(* The active intervals v may evict: same class, a register v may use, and *)
(* an end strictly later than v's.                                         *)
Victims(v) ==
  {w \in LiveActive(def[v]) :
     /\ Eligible(v)
     /\ shape[w].float = shape[v].float
     /\ shape[v].float \/ ~SpansCall(v) \/ reg[w] \notin Scratch
     /\ last[w] > last[v]}

(* The scan keeps the first of the furthest ends. *)
Furthest(W) ==
  {w \in W : \A u \in W : last[u] < last[w] \/ (last[u] = last[w] /\ w <= u)}

(* A register is free.  When the active list is full the vreg keeps its     *)
(* register without being listed.                                           *)
TakeRegister(v) ==
  \E r \in FreeRegs(v) :
    /\ \A q \in FreeRegs(v) : TriedBefore(r, q)
    /\ reg' = [reg EXCEPT ![v] = r]
    /\ used' = UsedAfterExpiry(def[v]) \cup {r}
    /\ active' = IF Cardinality(LiveActive(def[v])) < MaxActive
                 THEN LiveActive(def[v]) \cup {v}
                 ELSE LiveActive(def[v])
    /\ busy' = BusyAfterExpiry(def[v])
    /\ UNCHANGED <<slot, slots, slotLast, spillOffset>>

(* spill_active_interval: the victim moves to the frame for its whole life *)
(* and v takes its register.                                               *)
EvictActive(v) ==
  /\ FreeRegs(v) = {}
  /\ \E w \in Furthest(Victims(v)) :
       /\ reg' = [reg EXCEPT ![v] = reg[w], ![w] = NoReg]
       /\ used' = UsedAfterExpiry(def[v])
       /\ active' = (LiveActive(def[v]) \ {w}) \cup {v}
       /\ GiveSlot(w, def[v])

(* An aggregate, or nothing worth evicting: v itself goes to the frame. *)
SpillCurrent(v) ==
  /\ FreeRegs(v) = {}
  /\ Victims(v) = {}
  /\ used' = UsedAfterExpiry(def[v])
  /\ active' = LiveActive(def[v])
  /\ GiveSlot(v, def[v])
  /\ UNCHANGED reg

Allocate ==
  /\ cur <= NumVRegs
  /\ \/ TakeRegister(cur)
     \/ EvictActive(cur)
     \/ SpillCurrent(cur)
  /\ cur' = cur + 1
  /\ UNCHANGED <<input, frame>>

(* The epilogue of regalloc_function: which callee-saved registers the      *)
(* prologue must save, and the aligned frame size.                          *)
Finish ==
  /\ cur > NumVRegs
  /\ frame = <<>>
  /\ frame' = [mask |-> {r \in GpPool \ Scratch :
                           \E v \in Ranks : reg[v] = r /\ ~shape[v].float},
               stackSize |-> AlignTo(spillOffset, 16)]
  /\ UNCHANGED <<input, cur, active, used, reg, slot, table>>

Terminated == frame # <<>> /\ UNCHANGED vars

Next == Allocate \/ Finish \/ Terminated

Spec == Init /\ [][Next]_vars

-----------------------------------------------------------------------------
(* Properties. *)

Handled == 1 .. cur - 1

SlotType == [offset : Nat, size : Nat]

(* Every variable stays in its range: an active vreg has been handled, a    *)
(* pool index names a register, a slot number names a slot of the table.    *)
TypeOK ==
  /\ def \in [Ranks -> Pos]
  /\ last \in [Ranks -> Pos \cup {NoUse}]
  /\ shape \in [Ranks -> Shapes]
  /\ calls \in CallSets
  /\ cur \in 1 .. NumVRegs + 1
  /\ active \subseteq Handled
  /\ used \subseteq Pool
  /\ reg \in [Ranks -> Pool \cup {NoReg}]
  /\ slots \in Seq(SlotType)
  /\ Len(slots) < cur
  /\ slotLast \in [Ranks -> Pos \cup {NoUse}]
  /\ busy \subseteq DOMAIN slots
  /\ slot \in [Ranks -> 0 .. Len(slots)]
  /\ spillOffset \in Nat

(* The interval of the earlier vreg ends before the later one starts. *)
Apart(v, w) == v < w => last[v] < def[w]

(* regalloc.c's purpose: a register holds one value at a time.  Of two      *)
(* vregs given the same physical register, by whichever path (free          *)
(* register, eviction, expiry), the first is dead when the second starts.   *)
RegistersDisjoint ==
  \A v, w \in Handled : reg[v] # NoReg /\ reg[v] = reg[w] => Apart(v, w)

(* Scratch registers are clobbered by calls, so neither the register search *)
(* nor an eviction may put an interval with a call inside it in one; and a  *)
(* value never gets a register of the other class.                          *)
RegisterSuits ==
  \A v \in Handled : reg[v] # NoReg =>
    /\ reg[v] \in FpPool <=> shape[v].float
    /\ reg[v] \in Scratch => \A c \in calls : c <= def[v] \/ last[v] <= c

(* A register a value is given is its own, and one it may be in, as long as *)
(* it is live: regalloc_function.                                           *)
RegistersAreSound == RegistersDisjoint /\ RegisterSuits

(* Why RegistersDisjoint is preserved: only handled vregs have registers;   *)
(* active vregs hold marked registers, each its own; and a vreg that kept a *)
(* register and is still live is active, or, when the list was full, its    *)
(* register stays marked and out of every active vreg's hands.              *)
HoldersProtected ==
  /\ \A v \in Ranks \ Handled : reg[v] = NoReg
  /\ \A v \in active : reg[v] \in used
  /\ \A v, w \in active : reg[v] = reg[w] => v = w
  /\ \A v \in Handled : reg[v] # NoReg =>
       \/ v \in active
       \/ last[v] < def[cur - 1]
       \/ reg[v] \in used /\ \A w \in active : reg[w] # reg[v]

(* Every handled vreg has one home, a register or a spill slot: the code    *)
(* generator otherwise falls back on -(id + 1) * 8, which is some other     *)
(* value's place.  A slot, new or reused, is large enough and aligned for   *)
(* its vreg's type.  Slots (the size bytes that end offset bytes below the  *)
(* frame pointer) never share a byte, never reach into the locals above the *)
(* spill base, and lie in the frame.                                        *)
FrameIsSound ==
  /\ \A v \in Handled : (reg[v] = NoReg) <=> (slot[v] # 0)
  /\ \A v \in Handled : slot[v] # 0 =>
       /\ slots[slot[v]].size >= shape[v].size
       /\ slots[slot[v]].offset % shape[v].align = 0
  /\ \A s, t \in DOMAIN slots : s < t => slots[s].offset <= slots[t].offset - slots[t].size
  /\ \A s \in DOMAIN slots : \E b \in Bases : b <= slots[s].offset - slots[s].size
  /\ \A s \in DOMAIN slots : slots[s].offset <= spillOffset
  /\ frame # <<>> => spillOffset <= frame.stackSize

(* Why a slot is not given away too early: a value still needed at the      *)
(* start of the current vreg has its slot marked in use, up to its last use.*)
LiveSlotsReserved ==
  cur > 1 =>
    \A v \in Handled : slot[v] # 0 /\ last[v] >= def[cur - 1] =>
      /\ slot[v] \in busy
      /\ slotLast[slot[v]] = last[v]

(* expire_spill_slots and allocate_spill_slot: a step that gives v a slot   *)
(* takes it from values whose last use is before the vreg being handled.    *)
(* When v is that vreg, its interval and theirs are apart.  When v is       *)
(* evicted, its interval began earlier, and may have met theirs.            *)
SlotsTakenFromTheDead ==
  [][\A v, w \in Ranks : v # w /\ slot'[v] # slot[v] /\ slot[w] = slot'[v] =>
       last[w] < def[cur]]_vars

(* "Reuses an existing slot when its previous value is dead": of two values *)
(* in one slot, the first is not read after the second has been computed    *)
(* (and is itself still to be read).  It does not hold: the frame is the    *)
(* evicted interval's home for its whole life, and expire_spill_slots has   *)
(* only looked at the start of the current one.                             *)
SharedSlotsApart ==
  \A v, w \in Handled :
    v < w /\ slot[v] # 0 /\ slot[v] = slot[w] => last[v] <= def[w] \/ last[w] <= def[w]
=============================================================================
