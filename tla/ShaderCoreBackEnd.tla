------------------------- MODULE ShaderCoreBackEnd --------------------------
(***************************************************************************)
(* The steps of the back end keep the invariant of the core: operand       *)
(* collector, execution units, write-back, memory_cycle and the answers of *)
(* Ruby.  Before them, what a step keeps because it leaves the variables of *)
(* a conjunct alone, and what it means for the invariant that an instruction *)
(* moves on in the pipeline or leaves it.                                  *)
(***************************************************************************)
EXTENDS ShaderCoreInvariant, Counting, TLAPS

-----------------------------------------------------------------------------
(* What a step leaves alone. *)

\* m_warp after a change of one warp.
LEMMA WarpWrite ==
  ASSUME NEW w \in Warps, NEW u \in WarpStates, m_warp \in [Warps -> WarpStates],
         m_warp' = [m_warp EXCEPT ![w] = u]
  PROVE  /\ m_warp' \in [Warps -> WarpStates]
         /\ m_warp'[w] = u
         /\ \A v \in Warps \ {w} : m_warp'[v] = m_warp[v]
  BY Zenon

\* The instructions of warp w, its answers, and its registers are untouched.
SameInsts(w) == InstOf(w)' = InstOf(w) /\ program' = program

SameOwed(w) == owed'[w] = owed[w] /\ program' = program

SameRegs(w) ==
  /\ SameInsts(w) /\ SameOwed(w)
  /\ reg_table'[w] = reg_table[w] /\ m_pending_writes'[w] = m_pending_writes[w]
  /\ \A pc : Back(w, pc)' = Back(w, pc)

\* No fetch for warp w starts.
NoFetch(w) ==
  m_inst_fetch_buffer' # None /\ m_inst_fetch_buffer'.w = w
    => m_inst_fetch_buffer # None /\ m_inst_fetch_buffer.w = w

\* CountInv survives a step that leaves the warp's instructions, counter and buffer.
LEMMA CountFrame ==
  ASSUME NEW w, CountInv(w), SameInsts(w),
         m_warp'[w].in_pipeline = m_warp[w].in_pipeline, m_warp'[w].ibuffer = m_warp[w].ibuffer
  PROVE  CountInv(w)'
  BY Zenon DEF CountInv, SameInsts

\* FenceInv survives a step that leaves the warp's instructions, flag and fence reply.
LEMMA FenceFrame ==
  ASSUME NEW w, FenceInv(w), SameInsts(w), m_warp'[w].membar = m_warp[w].membar,
         w \in fences' <=> w \in fences
  PROVE  FenceInv(w)'
  BY Zenon DEF FenceInv, SameInsts, Op

\* AtomicInv survives a step that leaves the warp's atomics and their counter.
LEMMA AtomicFrame ==
  ASSUME NEW w, AtomicInv(w), SameInsts(w), SameOwed(w),
         m_warp'[w].n_atomic = m_warp[w].n_atomic
  PROVE  AtomicInv(w)'
  BY Zenon DEF AtomicInv, SameInsts, SameOwed, Op

\* StoreInv survives a step that leaves the warp's stores and their counter.
LEMMA StoreFrame ==
  ASSUME NEW w, StoreInv(w), SameOwed(w), m_warp'[w].stores = m_warp[w].stores
  PROVE  StoreInv(w)'
  <1>1. StoreAccesses(w)' = StoreAccesses(w) BY Zenon DEF StoreAccesses, SameOwed
  <1>2. QED BY <1>1, Zenon DEF StoreInv

\* RegInv survives a step that leaves the warp's reservations and answers.
LEMMA RegFrame ==
  ASSUME NEW w, NEW r, RegInv(w, r), SameRegs(w)
  PROVE  RegInv(w, r)'
  <1>1. \A pc : Answers(w, pc)' = Answers(w, pc) BY Zenon DEF Answers, SameRegs, SameOwed
  <1>2. /\ program' = program /\ InstOf(w)' = InstOf(w)
        /\ reg_table'[w] = reg_table[w] /\ m_pending_writes'[w] = m_pending_writes[w]
    BY Zenon DEF SameRegs, SameInsts
  <1>3. RegFree(w, r) => RegFree(w, r)'
    BY <1>1, <1>2, Zenon DEF RegFree, Out
  <1>4. \A i \in InstOf(w) : RegInPipe(w, r, i) => RegInPipe(w, r, i)'
    BY <1>1, <1>2, Zenon DEF RegInPipe, Out, Accounted, IsLoad, Op
  <1>5. \A pc \in DOMAIN program : RegReturning(w, r, pc) => RegReturning(w, r, pc)'
    BY <1>1, <1>2, Zenon DEF RegReturning, Out
  <1>6. QED BY <1>2, <1>3, <1>4, <1>5, Zenon DEF RegInv

\* ControlInv survives a step that leaves the warp and starts no fetch for it.
LEMMA ControlFrame ==
  ASSUME NEW w, ControlInv(w), program' = program, m_warp'[w] = m_warp[w],
         w \in m_warp_active' <=> w \in m_warp_active, NoFetch(w)
  PROVE  ControlInv(w)'
  BY Zenon DEF ControlInv, NoFetch

\* A warp that the step does not concern.
Untouched(v) ==
  /\ m_warp'[v] = m_warp[v]
  /\ SameRegs(v)
  /\ v \in fences' <=> v \in fences
  /\ v \in m_warp_active' <=> v \in m_warp_active
  /\ NoFetch(v)

\* All of a warp's invariant survives a step that does not concern the warp.
LEMMA OtherWarp ==
  ASSUME NEW v, WarpInv(v), Untouched(v)
  PROVE  WarpInv(v)'
  <1>1. SameInsts(v) /\ SameOwed(v) /\ program' = program
    BY Zenon DEF Untouched, SameRegs, SameInsts
  <1>2. ControlInv(v)' BY <1>1, ControlFrame, Zenon DEF WarpInv, Untouched
  <1>3. CountInv(v)' /\ FenceInv(v)' /\ AtomicInv(v)' /\ StoreInv(v)'
    BY <1>1, CountFrame, FenceFrame, AtomicFrame, StoreFrame, Zenon DEF WarpInv, Untouched
  <1>4. \A r \in Registers : RegInv(v, r)' 
    BY RegFrame, Zenon DEF WarpInv, Untouched
  <1>5. Registers' = Registers BY Zenon
  <1>6. QED BY <1>2, <1>3, <1>4, Zenon DEF WarpInv

\* KeyInv reads the instructions in flight and the next ids only.
LEMMA KeyFrame ==
  ASSUME KeyInv, insts' = insts, sm_next_uid' = sm_next_uid
  PROVE  KeyInv'
  BY Zenon DEF KeyInv

\* RoomInv reads the instructions in flight and the program only.
LEMMA RoomFrame ==
  ASSUME RoomInv, insts' = insts, program' = program
  PROVE  RoomInv'
  <1>1. \A place, p : At(place, p)' = At(place, p) BY Zenon DEF At, Op
  <1>2. QED BY <1>1, Zenon DEF RoomInv, Op

\* AccessInv survives a step that leaves instructions, answers and writeback register.
LEMMA AccessFrame ==
  ASSUME AccessInv, insts' = insts, program' = program, owed' = owed, m_next_wb' = m_next_wb
  PROVE  AccessInv'
  BY Zenon DEF AccessInv, Op

\* A warp that was reclaimed stays as it is.
LEMMA SlotFrame ==
  ASSUME SlotInv, m_cta_status' = m_cta_status,
         \A v \in Warps : /\ m_warp'[v].done_exit = m_warp[v].done_exit
                          /\ m_warp[v].done_exit => 
                               /\ m_warp'[v].live = m_warp[v].live
                               /\ m_warp'[v].stores = m_warp[v].stores
                               /\ m_warp'[v].in_pipeline = m_warp[v].in_pipeline
                               /\ reg_table'[v] \subseteq reg_table[v]
  PROVE  SlotInv'
  <1>1. \A c \in Ctas : Undone(c)' = Undone(c) BY Zenon DEF Undone, Warps, WarpsOf
  <1>2. QED BY <1>1 DEF SlotInv, hardware_done, functional_done

\* BarrierInv reads the barrier unit's state only.
LEMMA BarrierFrame ==
  ASSUME BarrierInv, UNCHANGED barrierVars
  PROVE  BarrierInv'
  BY Zenon DEF BarrierInv, barrierVars, Passed

\* The step concerns warp w only.
OnlyWarp(w) == \A v \in Warps \ {w} : Untouched(v)

\* A step that concerns one warp only has to re-establish that warp's invariant.
LEMMA WarpsKept ==
  ASSUME CoreInv, NEW w \in Warps, OnlyWarp(w), WarpInv(w)'
  PROVE  \A v \in Warps : WarpInv(v)'
  BY OtherWarp, Zenon DEF CoreInv, OnlyWarp

-----------------------------------------------------------------------------
(* Facts of one state. *)

InstsShape == insts \subseteq Issued /\ IsFiniteSet(insts) /\ \A i \in insts : i.pc \in DOMAIN program

\* A warp has finitely many instructions in flight.
LEMMA InstsFinite ==
  ASSUME CountingLaws, CoreInv, NEW w
  PROVE  IsFiniteSet(InstOf(w)) /\ Cardinality(InstOf(w)) \in Nat
  <1>1. IsFiniteSet(InstOf(w)) BY Zenon DEF CoreInv, Shape, InstOf, CountingLaws, SubsetLaw
  <1>2. QED BY <1>1, Zenon DEF CountingLaws, CardinalityLaw

\* The answers a warp still waits for are counted by a natural number.
LEMMA AnswersNat ==
  ASSUME CoreInv, NEW w \in Warps, NEW pc \in DOMAIN program
  PROVE  pc \in PCs /\ owed[w][pc] \in Nat /\ Answers(w, pc) \in Nat
  <1>1. pc \in PCs BY DEF CoreInv, Shape, PCs
  <1>2. owed[w][pc] \in Nat BY <1>1 DEF CoreInv, Shape
  <1>3. QED BY <1>1, <1>2 DEF Answers

\* While an atomic's answer is due, the warp's atomic counter is not zero.
LEMMA AtomicCounted ==
  ASSUME CoreInv, NEW w \in Warps, NEW pc \in DOMAIN program, program[pc].op = "ATOM",
         owed[w][pc] > 0
  PROVE  m_warp[w].n_atomic \in Nat \ {0}
  <1>1. AtomicInv(w) BY Zenon DEF CoreInv, WarpInv
  <1>2. owed[w][pc] \in Nat BY AnswersNat, Zenon
  <1>3. m_warp[w].n_atomic \in Nat BY Zenon DEF CoreInv, Shape, WarpStates
  <1>4. CASE m_warp[w].n_atomic = owed[w][pc] BY <1>2, <1>4
  <1>5. ASSUME NEW k \in InstOf(w), Op(k) = "ATOM", k.acc > 0
        PROVE  m_warp[w].n_atomic \in Nat \ {0}
    <2>1. k.pc = pc /\ m_warp[w].n_atomic = k.acc + owed[w][k.pc] BY <1>1, <1>5, Zenon DEF AtomicInv
    <2>2. k.acc \in Nat BY Zenon DEF CoreInv, Shape, InstOf, Issued
    <2>3. QED BY <1>2, <1>5, <2>1, <2>2
  <1>6. QED BY <1>1, <1>4, <1>5, Zenon DEF AtomicInv

-----------------------------------------------------------------------------
(* An instruction moves on, or leaves. *)

\* Instruction i goes on as j.
Replaced(i, j) ==
  /\ i \in insts /\ j \in Issued
  /\ j.w = i.w /\ j.pc = i.pc /\ j.uid = i.uid
  /\ insts' = (insts \ {i}) \cup {j}
  /\ program' = program

Gone(i) == i \in insts /\ insts' = insts \ {i} /\ program' = program

\* Moving one instruction keeps the set of instructions well formed.
LEMMA ReplacedShape ==
  ASSUME CountingLaws, CoreInv, NEW i, NEW j, Replaced(i, j)
  PROVE  InstsShape' /\ i \in Issued /\ i.w \in Warps /\ i.pc \in DOMAIN program
  <1>1. insts \subseteq Issued /\ IsFiniteSet(insts) /\ \A k \in insts : k.pc \in DOMAIN program
    BY Zenon DEF CoreInv, Shape
  <1>2. IsFiniteSet(insts \ {i}) BY <1>1, Zenon DEF CountingLaws, SubsetLaw
  <1>3. IsFiniteSet((insts \ {i}) \cup {j}) BY <1>2, Zenon DEF CountingLaws, AddLaw
  <1>4. i \in Issued /\ i.w \in Warps /\ i.pc \in DOMAIN program BY <1>1, Zenon DEF Replaced, Issued
  <1>5. IsFiniteSet(insts)' BY <1>3, Zenon DEF Replaced
  <1>6. QED BY <1>1, <1>4, <1>5, Zenon DEF Replaced, InstsShape

\* Retiring one instruction keeps the set of instructions well formed.
LEMMA GoneShape ==
  ASSUME CountingLaws, CoreInv, NEW i, Gone(i)
  PROVE  InstsShape' /\ i \in Issued /\ i.w \in Warps /\ i.pc \in DOMAIN program
  <1>1. insts \subseteq Issued /\ IsFiniteSet(insts) /\ \A k \in insts : k.pc \in DOMAIN program
    BY Zenon DEF CoreInv, Shape
  <1>2. IsFiniteSet(insts \ {i}) BY <1>1, Zenon DEF CountingLaws, SubsetLaw
  <1>3. IsFiniteSet(insts)' BY <1>2, Zenon DEF Gone
  <1>4. QED BY <1>1, <1>3, Zenon DEF Gone, InstsShape, Issued

\* Moving an instruction changes its warp's set only, and keeps its size.
LEMMA ReplacedInsts ==
  ASSUME CountingLaws, CoreInv, NEW i, NEW j, Replaced(i, j)
  PROVE  /\ i \in InstOf(i.w) /\ j \in InstOf(i.w)'
         /\ InstOf(i.w)' = (InstOf(i.w) \ {i}) \cup {j}
         /\ \A v : v # i.w => InstOf(v)' = InstOf(v)
         /\ Cardinality(InstOf(i.w)') = Cardinality(InstOf(i.w))
  <1>. DEFINE S == InstOf(i.w)
  <1>1. /\ i \in S /\ j \in S'
        /\ S' = (S \ {i}) \cup {j}
        /\ \A v : v # i.w => InstOf(v)' = InstOf(v)
    BY Zenon DEF Replaced, InstOf
  <1>2. j \notin S \ {i}
    BY Zenon DEF Replaced, InstOf, CoreInv, KeyInv
  <1>3. IsFiniteSet(S) /\ Cardinality(S) \in Nat BY InstsFinite, Zenon
  <1> HIDE DEF S
  <1>4. IsFiniteSet(S \ {i}) /\ Cardinality(S \ {i}) = Cardinality(S) - 1
    BY <1>1, <1>3, Zenon DEF CountingLaws, RemoveLaw
  <1>5. Cardinality((S \ {i}) \cup {j}) = Cardinality(S \ {i}) + 1
    BY <1>2, <1>4, Zenon DEF CountingLaws, AddLaw
  <1>6. Cardinality(S') = Cardinality(S) BY <1>1, <1>3, <1>4, <1>5
  <1>7. QED BY <1>1, <1>6, Zenon DEF S

\* Retiring an instruction takes one element from its warp's set only.
LEMMA GoneInsts ==
  ASSUME CountingLaws, CoreInv, NEW i, Gone(i)
  PROVE  /\ i \in InstOf(i.w)
         /\ InstOf(i.w)' = InstOf(i.w) \ {i}
         /\ \A v : v # i.w => InstOf(v)' = InstOf(v)
         /\ Cardinality(InstOf(i.w)') = Cardinality(InstOf(i.w)) - 1
         /\ Cardinality(InstOf(i.w)) > 0
  <1>. DEFINE S == InstOf(i.w)
  <1>1. /\ i \in S /\ S' = S \ {i}
        /\ \A v : v # i.w => InstOf(v)' = InstOf(v)
    BY Zenon DEF Gone, InstOf
  <1>3. IsFiniteSet(S) /\ Cardinality(S) \in Nat BY InstsFinite, Zenon
  <1> HIDE DEF S
  <1>4. IsFiniteSet(S \ {i}) /\ Cardinality(S \ {i}) = Cardinality(S) - 1
    BY <1>1, <1>3, Zenon DEF CountingLaws, RemoveLaw
  <1>5. Cardinality(S \ {i}) \in Nat BY <1>4, Zenon DEF CountingLaws, CardinalityLaw
  <1>6. QED BY <1>1, <1>3, <1>4, <1>5 DEF S

\* An instruction that moves keeps its id, so ids stay unique.
LEMMA ReplacedKey ==
  ASSUME CoreInv, NEW i, NEW j, Replaced(i, j), sm_next_uid' = sm_next_uid
  PROVE  KeyInv'
  BY DEF Replaced, CoreInv, KeyInv

\* Ids stay unique when an instruction retires.
LEMMA GoneKey ==
  ASSUME CoreInv, NEW i, Gone(i), sm_next_uid' = sm_next_uid
  PROVE  KeyInv'
  BY Zenon DEF Gone, CoreInv, KeyInv

\* Removing instructions overfills no pipeline register or collector unit.
LEMMA RoomSmaller ==
  ASSUME CountingLaws, CoreInv, insts' \subseteq insts, program' = program
  PROVE  RoomInv'
  <1>1. \A place, p : At(place, p)' \subseteq At(place, p) BY Zenon DEF At, Op
  <1>2. ASSUME NEW p \in Pipes PROVE Cardinality(At("CU", p)') <= Units[p]
    <2>1. IsFiniteSet(At("CU", p)) BY Zenon DEF At, CoreInv, Shape, CountingLaws, SubsetLaw
    <2>2. Cardinality(At("CU", p)') <= Cardinality(At("CU", p))
          /\ Cardinality(At("CU", p)') \in Nat /\ Cardinality(At("CU", p)) \in Nat
      BY <1>1, <2>1, Zenon DEF CountingLaws, SubsetLaw, CardinalityLaw
    <2>3. Cardinality(At("CU", p)) <= Units[p] /\ Units[p] \in Nat
      BY <1>2, CoreAssumption, Zenon DEF CoreInv, RoomInv
    <2>4. QED BY <2>2, <2>3
  <1>3. RoomInv BY Zenon DEF CoreInv
  <1>4. QED BY <1>1, <1>2, <1>3, Zenon DEF RoomInv, Op

\* A move into a place that had room overfills nothing.
LEMMA RoomMove ==
  ASSUME CountingLaws, CoreInv, NEW i, NEW j, Replaced(i, j), j.at # "ID_OC",
         j.at = "OC_EX" => At("OC_EX", PipeOf(Op(i))) = {},
         j.at = "EX" /\ PipeOf(Op(i)) = "MEM" => At("EX", "MEM") \subseteq {i},
         j.at = "CU" => Cardinality(At("CU", PipeOf(Op(i)))) < Units[PipeOf(Op(i))]
  PROVE  RoomInv'
  <1>1. \A k : Op(k)' = Op(k) BY Zenon DEF Op, Replaced
  <1>2. Op(j) = Op(i) BY Zenon DEF Op, Replaced
  <1>3. \A place, p : At(place, p)' \subseteq At(place, p) \cup {j}
    BY <1>1, Zenon DEF At, Replaced
  <1>4. \A place, p : At(place, p)' \subseteq At(place, p) \/ (j.at = place /\ PipeOf(Op(i)) = p)
    BY <1>1, <1>2, Zenon DEF At, Replaced
  <1>5. ASSUME NEW p \in Pipes PROVE Cardinality(At("CU", p)') <= Units[p]
    <2>0. PICK S, T : S = At("CU", p) /\ T = At("CU", p)' BY Zenon
    <2>1. IsFiniteSet(S)
      <3>1. S \in SUBSET insts /\ IsFiniteSet(insts) BY <2>0, Zenon DEF At, CoreInv, Shape
      <3>2. QED BY <3>1, Zenon DEF CountingLaws, SubsetLaw
    <2>2. Cardinality(S) \in Nat BY <2>1, Zenon DEF CountingLaws, CardinalityLaw
    <2>3. Cardinality(S) <= Units[p] /\ Units[p] \in Nat
      BY <1>5, <2>0, CoreAssumption, Zenon DEF CoreInv, RoomInv
    <2>4. T \in SUBSET (S \cup {j}) /\ (T \in SUBSET S \/ (j.at = "CU" /\ PipeOf(Op(i)) = p))
      BY <1>3, <1>4, <2>0, Zenon
    <2>5. CASE T \in SUBSET S
      <3>1. Cardinality(T) <= Cardinality(S) /\ IsFiniteSet(T)
        BY <2>1, <2>5, Zenon DEF CountingLaws, SubsetLaw
      <3>2. Cardinality(T) \in Nat BY <3>1, Zenon DEF CountingLaws, CardinalityLaw
      <3>3. QED BY <2>0, <2>2, <2>3, <3>1, <3>2
    <2>6. CASE j.at = "CU" /\ PipeOf(Op(i)) = p
      <3>1. PICK U : U = S \cup {j} BY Zenon
      <3>2. IsFiniteSet(U) /\ Cardinality(U) <= Cardinality(S) + 1
        <4>1. /\ IsFiniteSet(U)
              /\ Cardinality(U) = IF j \in S THEN Cardinality(S) ELSE Cardinality(S) + 1
          BY <2>1, <3>1, Zenon DEF CountingLaws, AddLaw
        <4>2. QED BY <2>2, <4>1
      <3>3. Cardinality(T) <= Cardinality(U) /\ IsFiniteSet(T)
        BY <2>4, <3>1, <3>2, Zenon DEF CountingLaws, SubsetLaw
      <3>4. Cardinality(T) \in Nat /\ Cardinality(U) \in Nat
        BY <3>2, <3>3, Zenon DEF CountingLaws, CardinalityLaw
      <3>5. Cardinality(S) < Units[p] BY <2>0, <2>6, Zenon
      <3>6. QED BY <2>0, <2>2, <2>3, <3>2, <3>3, <3>4, <3>5
    <2>7. QED BY <2>4, <2>5, <2>6, Zenon
  <1>6. ASSUME NEW k \in insts', NEW l \in insts', k.at \in {"ID_OC", "OC_EX"}, l.at = k.at,
               PipeOf(Op(k)) = PipeOf(Op(l))
        PROVE  k = l
    <2>1. CASE k \in insts /\ l \in insts BY <1>6, <2>1, Zenon DEF CoreInv, RoomInv
    <2>2. CASE k = j /\ l \in insts BY <1>2, <1>6, <2>2, Zenon DEF At
    <2>3. CASE l = j /\ k \in insts BY <1>2, <1>6, <2>3, Zenon DEF At
    <2>4. QED BY <2>1, <2>2, <2>3, Zenon DEF Replaced
  <1>7. ASSUME NEW k \in At("EX", "MEM")', NEW l \in At("EX", "MEM")'
        PROVE  k = l
    <2>1. CASE At("EX", "MEM")' \subseteq At("EX", "MEM")
      BY <1>7, <2>1, Zenon DEF CoreInv, RoomInv
    <2>2. CASE j.at = "EX" /\ PipeOf(Op(i)) = "MEM"
      <3>1. At("EX", "MEM")' \subseteq {j}
        BY <1>1, <2>2, Zenon DEF At, Replaced
      <3>2. QED BY <1>7, <3>1, Zenon
    <2>3. QED BY <1>4, <2>1, <2>2, Zenon
  <1>8. QED BY <1>1, <1>5, <1>6, <1>7, Zenon DEF RoomInv

\* Moving an instruction leaves the warp's memory fence accounted for.
LEMMA ReplacedFence ==
  ASSUME CountingLaws, CoreInv, NEW i, NEW j, Replaced(i, j),
         m_warp'[i.w].membar = m_warp[i.w].membar, fences' = fences
  PROVE  FenceInv(i.w)'
  <1>1. /\ i \in InstOf(i.w) /\ InstOf(i.w)' = (InstOf(i.w) \ {i}) \cup {j} BY ReplacedInsts, Zenon
  <1>2. \A k : Op(k)' = Op(k) BY Zenon DEF Op, Replaced
  <1>3. Op(j) = Op(i) BY Zenon DEF Op, Replaced
  <1>4. FenceInv(i.w) BY ReplacedShape, Zenon DEF CoreInv, WarpInv
  <1>5. QED BY <1>1, <1>2, <1>3, <1>4, Zenon DEF FenceInv

\* Moving an instruction keeps the warp's count of instructions in the pipeline.
LEMMA ReplacedCount ==
  ASSUME CountingLaws, CoreInv, NEW i, NEW j, Replaced(i, j),
         m_warp'[i.w].in_pipeline = m_warp[i.w].in_pipeline,
         m_warp'[i.w].ibuffer = m_warp[i.w].ibuffer
  PROVE  CountInv(i.w)'
  <1>1. CountInv(i.w) BY ReplacedShape, Zenon DEF CoreInv, WarpInv
  <1>2. Cardinality(InstOf(i.w)') = Cardinality(InstOf(i.w)) BY ReplacedInsts, Zenon
  <1>3. QED BY <1>1, <1>2, Zenon DEF CountInv

\* A register that an instruction in the pipeline writes is reserved for it.
LEMMA WriterInPipe ==
  ASSUME CoreInv, NEW w \in Warps, NEW r \in Registers, NEW i \in InstOf(w), r \in Out(i)
  PROVE  RegInPipe(w, r, i)
  <1>1. RegInv(w, r) BY Zenon DEF CoreInv, WarpInv
  <1>2. ~RegFree(w, r) BY Zenon DEF RegFree
  <1>3. \A pc \in DOMAIN program : ~RegReturning(w, r, pc) BY Zenon DEF RegReturning
  <1>4. PICK k \in InstOf(w) : RegInPipe(w, r, k) BY <1>1, <1>2, <1>3, Zenon DEF RegInv
  <1>5. k = i BY <1>4, Zenon DEF RegInPipe
  <1>6. QED BY <1>4, <1>5, Zenon

\* The registers that a leaving instruction does not write keep their state.
LEMMA GoneRegOther ==
  ASSUME CountingLaws, CoreInv, NEW i, Gone(i), NEW r \in Registers, r \notin Out(i),
         r \in reg_table'[i.w] <=> r \in reg_table[i.w],
         m_pending_writes'[i.w][r] = m_pending_writes[i.w][r],
         \A pc \in DOMAIN program : r \in program[pc].out => Answers(i.w, pc)' = Answers(i.w, pc)
  PROVE  RegInv(i.w, r)'
  <1>0. PICK w \in Warps : w = i.w BY GoneShape, Zenon
  <1> SUFFICES RegInv(w, r)' BY <1>0, Zenon
  <1>2. i \in InstOf(w) /\ InstOf(w)' = InstOf(w) \ {i} BY <1>0, GoneInsts, Zenon
  <1>4. program' = program BY Zenon DEF Gone
  <1>5. /\ \A k : Out(k)' = Out(k)
        /\ \A k : Accounted(k)' = Accounted(k)
    BY <1>4, Zenon DEF Out, Accounted, IsLoad, Op
  <1>6. RegInv(w, r) BY Zenon DEF CoreInv, WarpInv
  <1>7. /\ r \in reg_table'[w] <=> r \in reg_table[w]
        /\ m_pending_writes'[w][r] = m_pending_writes[w][r]
        /\ \A pc \in DOMAIN program : r \in program[pc].out => Answers(w, pc)' = Answers(w, pc)
    BY <1>0, Zenon
  <1>9. CASE RegFree(w, r)
    <2>3. RegFree(w, r)' BY <1>2, <1>4, <1>5, <1>7, <1>9, Zenon DEF RegFree
    <2>4. QED BY <2>3, Zenon DEF RegInv
  <1>10. CASE \E pc \in DOMAIN program : RegReturning(w, r, pc)
    <2>1. PICK pc \in DOMAIN program : RegReturning(w, r, pc) BY <1>10, Zenon
    <2>4. RegReturning(w, r, pc)' BY <1>2, <1>4, <1>5, <1>7, <2>1, Zenon DEF RegReturning
    <2>5. QED BY <1>4, <2>1, <2>4, Zenon DEF RegInv
  <1>11. CASE \E k \in InstOf(w) : RegInPipe(w, r, k)
    <2>1. PICK k \in InstOf(w) : RegInPipe(w, r, k) BY <1>11, Zenon
    <2>2. k # i /\ r \in Out(k) BY <2>1, Zenon DEF RegInPipe
    <2>3. k \in insts BY Zenon DEF InstOf
    <2>4. k.pc \in DOMAIN program BY <2>3, Zenon DEF CoreInv, Shape
    <2>5. Answers(w, k.pc)' = Answers(w, k.pc) BY <1>7, <2>2, <2>4, Zenon DEF Out
    <2>6. RegInPipe(w, r, k)' BY <1>2, <1>4, <1>5, <1>7, <2>1, <2>2, <2>5, Zenon DEF RegInPipe
    <2>7. QED BY <1>2, <2>1, <2>2, <2>6, Zenon DEF RegInv
  <1>12. QED BY <1>6, <1>9, <1>10, <1>11, Zenon DEF RegInv

\* Arithmetic: taking one from a sum takes it from its second term.
LEMMA OneLess ==
  ASSUME NEW a \in Nat, NEW b \in Nat
  PROVE  (a + b) - 1 = a + (b - 1)
  OBVIOUS

\* Retiring an instruction takes one from the warp's pipeline count.
LEMMA GoneCount ==
  ASSUME CountingLaws, CoreInv, NEW i, Gone(i),
         m_warp'[i.w].in_pipeline = m_warp[i.w].in_pipeline - 1,
         m_warp'[i.w].ibuffer = m_warp[i.w].ibuffer
  PROVE  CountInv(i.w)'
  <1>1. CountInv(i.w) BY GoneShape, Zenon DEF CoreInv, WarpInv
  <1>2. Cardinality(InstOf(i.w)') = Cardinality(InstOf(i.w)) - 1
        /\ Cardinality(InstOf(i.w)) > 0
    BY GoneInsts, Zenon
  <1>0. i.w \in Warps BY GoneShape, Zenon
  <1>3. Len(m_warp[i.w].ibuffer) \in Nat BY <1>0 DEF CoreInv, Shape, WarpStates
  <1>4. Cardinality(InstOf(i.w)) \in Nat BY InstsFinite, Zenon
  <1>5. m_warp'[i.w].in_pipeline
          = (Len(m_warp[i.w].ibuffer) + Cardinality(InstOf(i.w))) - 1
    <2>1. m_warp[i.w].in_pipeline = Len(m_warp[i.w].ibuffer) + Cardinality(InstOf(i.w))
      BY <1>1, Zenon DEF CountInv
    <2>2. QED BY <2>1, Zenon
  <1>6. m_warp'[i.w].in_pipeline = Len(m_warp[i.w].ibuffer) + (Cardinality(InstOf(i.w)) - 1)
    BY <1>3, <1>4, <1>5, OneLess, Zenon
  <1>7. QED BY <1>2, <1>6, Zenon DEF CountInv

\* A warp with an instruction in the pipeline has not been reclaimed.
LEMMA InFlightUndone ==
  ASSUME CountingLaws, CoreInv, NEW i \in insts
  PROVE  m_warp[i.w].in_pipeline \in Nat \ {0} /\ ~m_warp[i.w].done_exit
  <1>0. PICK w \in Warps : w = i.w BY Zenon DEF CoreInv, Shape, Issued
  <1>1. CountInv(w) BY Zenon DEF CoreInv, WarpInv
  <1>2. IsFiniteSet(InstOf(w)) /\ Cardinality(InstOf(w)) \in Nat BY InstsFinite, Zenon
  <1>3. i \in InstOf(w) BY <1>0, Zenon DEF InstOf
  <1>4. Cardinality(InstOf(w)) # 0 BY <1>2, <1>3, Zenon DEF CountingLaws, EmptyLaw
  <1>5. Len(m_warp[w].ibuffer) \in Nat BY DEF CoreInv, Shape, WarpStates
  <1>6. m_warp[w].in_pipeline \in Nat \ {0} BY <1>1, <1>2, <1>4, <1>5 DEF CountInv
  <1>7. ~m_warp[w].done_exit BY <1>6, Zenon DEF CoreInv, SlotInv, hardware_done
  <1>8. QED BY <1>0, <1>6, <1>7, Zenon

\* Retiring an instruction leaves the warp's memory fence accounted for.
LEMMA GoneFence ==
  ASSUME CountingLaws, CoreInv, NEW i, Gone(i),
         m_warp'[i.w].membar = m_warp[i.w].membar, fences' = fences
  PROVE  FenceInv(i.w)'
  <1>1. InstOf(i.w)' = InstOf(i.w) \ {i} BY GoneInsts, Zenon
  <1>2. \A k : Op(k)' = Op(k) BY Zenon DEF Op, Gone
  <1>4. FenceInv(i.w) BY GoneShape, Zenon DEF CoreInv, WarpInv
  <1>5. QED BY <1>1, <1>2, <1>4, Zenon DEF FenceInv

\* The state of a register depends on the answers that are still to come, in Ruby
\* or in m_next_wb.
LEMMA RegAnswersFrame ==
  ASSUME CoreInv, NEW w \in Warps, NEW r, RegInv(w, r), program' = program, insts' = insts,
         r \in reg_table'[w] <=> r \in reg_table[w],
         m_pending_writes'[w][r] = m_pending_writes[w][r],
         \A pc \in DOMAIN program : r \in program[pc].out => Answers(w, pc)' = Answers(w, pc)
  PROVE  RegInv(w, r)'
  <1>1. InstOf(w)' = InstOf(w) BY Zenon DEF InstOf
  <1>2. /\ \A k : Out(k)' = Out(k)
        /\ \A k : Accounted(k)' = Accounted(k)
    BY Zenon DEF Out, Accounted, IsLoad, Op
  <1>3. RegFree(w, r) => RegFree(w, r)' BY <1>1, <1>2, Zenon DEF RegFree
  <1>4. ASSUME NEW i \in InstOf(w), RegInPipe(w, r, i) PROVE RegInPipe(w, r, i)'
    <2>1. r \in Out(i) BY <1>4, Zenon DEF RegInPipe
    <2>2. i.pc \in DOMAIN program BY Zenon DEF CoreInv, Shape, InstOf
    <2>3. Answers(w, i.pc)' = Answers(w, i.pc) BY <2>1, <2>2, Zenon DEF Out
    <2>4. QED BY <1>1, <1>2, <1>4, <2>3, Zenon DEF RegInPipe
  <1>5. \A pc \in DOMAIN program : RegReturning(w, r, pc) => RegReturning(w, r, pc)'
    BY <1>1, <1>2, Zenon DEF RegReturning
  <1>6. QED BY <1>1, <1>3, <1>4, <1>5, Zenon DEF RegInv

-----------------------------------------------------------------------------
(* Operand collector and execution units. *)

\* A step that leaves the accesses sent and written back leaves the answers due.
LEMMA AnswersSame ==
  ASSUME NEW w, SameOwed(w), \A pc : Back(w, pc)' = Back(w, pc)
  PROVE  \A pc : Answers(w, pc)' = Answers(w, pc)
  BY Zenon DEF SameOwed, Answers

\* An instruction that the load/store unit had not taken moves on; if it takes
\* it now, its accesses are noted.
LEMMA MoveReg ==
  ASSUME CountingLaws, CoreInv, NEW i, NEW j, Replaced(i, j), j.acc = i.acc, ~Accounted(i),
         SameOwed(i.w), \A pc : Back(i.w, pc)' = Back(i.w, pc),
         reg_table'[i.w] = reg_table[i.w], NEW r \in Registers,
         m_pending_writes'[i.w][r] =
            IF Accounted(j) /\ r \in Out(i) THEN m_pending_writes[i.w][r] + i.acc
                                            ELSE m_pending_writes[i.w][r]
  PROVE  RegInv(i.w, r)'
  <1>0. PICK w \in Warps : w = i.w BY ReplacedShape, Zenon
  <1> SUFFICES RegInv(w, r)' BY <1>0, Zenon
  <1>1. i.pc \in DOMAIN program /\ i \in Issued BY ReplacedShape, Zenon
  <1>2. /\ i \in InstOf(w) /\ j \in InstOf(w)' /\ InstOf(w)' = (InstOf(w) \ {i}) \cup {j}
    BY <1>0, ReplacedInsts, Zenon
  <1>3. \A pc : Answers(w, pc)' = Answers(w, pc) BY <1>0, AnswersSame, Zenon
  <1>4. program' = program /\ j.pc = i.pc BY Zenon DEF Replaced
  <1>5. /\ \A k : Out(k)' = Out(k)
        /\ \A k : Accounted(k)' = Accounted(k)
        /\ Out(j) = Out(i)
    BY <1>4, Zenon DEF Out, Accounted, IsLoad, Op
  <1>6. RegInv(w, r) BY <1>1, Zenon DEF CoreInv, WarpInv
  <1>7. i.acc \in Nat BY <1>1, Zenon DEF Issued
  <1>8. reg_table'[w] = reg_table[w] BY <1>0, Zenon
  <1>9. CASE RegFree(w, r)
    <2>1. r \notin Out(i) BY <1>2, <1>9, Zenon DEF RegFree
    <2>2. m_pending_writes'[w][r] = m_pending_writes[w][r] BY <1>0, <2>1, Zenon
    <2>3. RegFree(w, r)' BY <1>2, <1>3, <1>4, <1>5, <1>8, <1>9, <2>1, <2>2, Zenon DEF RegFree
    <2>4. QED BY <2>3, Zenon DEF RegInv
  <1>10. CASE \E pc \in DOMAIN program : RegReturning(w, r, pc)
    <2>1. PICK pc \in DOMAIN program : RegReturning(w, r, pc) BY <1>10, Zenon
    <2>2. r \notin Out(i) BY <1>2, <2>1, Zenon DEF RegReturning
    <2>3. m_pending_writes'[w][r] = m_pending_writes[w][r] BY <1>0, <2>2, Zenon
    <2>4. RegReturning(w, r, pc)'
      BY <1>2, <1>3, <1>4, <1>5, <1>8, <2>1, <2>2, <2>3, Zenon DEF RegReturning
    <2>5. QED BY <1>4, <2>1, <2>4, Zenon DEF RegInv
  <1>11. CASE \E k \in InstOf(w) : RegInPipe(w, r, k)
    <2>1. PICK k \in InstOf(w) : RegInPipe(w, r, k) BY <1>11, Zenon
    <2>2. CASE k = i
      <3>1. r \in Out(i) /\ m_pending_writes[w][r] = 0 BY <2>1, <2>2, Zenon DEF RegInPipe
      <3>2. \A pc \in DOMAIN program : r \in program[pc].out => Answers(w, pc) = 0
        <4>1. \A pc \in DOMAIN program : r \in program[pc].out => ~(Answers(w, pc) > 0)
          BY <2>1, <2>2, Zenon DEF RegInPipe
        <4>2. \A pc \in DOMAIN program : Answers(w, pc) \in Nat BY <1>0, <1>1, AnswersNat, Zenon
        <4>3. QED BY <4>1, <4>2
      <3>3. Answers(w, i.pc) = 0 BY <1>1, <3>1, <3>2, Zenon DEF Out
      <3>4. m_pending_writes'[w][r] = IF Accounted(j) THEN i.acc + Answers(w, i.pc) ELSE 0
        BY <1>0, <1>7, <3>1, <3>3
      <3>5. RegInPipe(w, r, j)'
        BY <1>2, <1>3, <1>4, <1>5, <1>8, <2>1, <2>2, <3>1, <3>2, <3>4, Zenon DEF RegInPipe
      <3>6. QED BY <1>2, <3>5, Zenon DEF RegInv
    <2>3. CASE k # i
      <3>1. r \notin Out(i) BY <1>2, <2>1, <2>3, Zenon DEF RegInPipe
      <3>2. m_pending_writes'[w][r] = m_pending_writes[w][r] BY <1>0, <3>1, Zenon
      <3>3. RegInPipe(w, r, k)'
        BY <1>2, <1>3, <1>4, <1>5, <1>8, <2>1, <3>1, <3>2, Zenon DEF RegInPipe
      <3>4. QED BY <1>2, <2>1, <2>3, <3>3, Zenon DEF RegInv
    <2>4. QED BY <2>2, <2>3, Zenon
  <1>12. QED BY <1>0, <1>6, <1>9, <1>10, <1>11, Zenon DEF RegInv

\* Moving an instruction keeps the warp's atomic counter exact.
LEMMA MoveAtomic ==
  ASSUME CountingLaws, CoreInv, NEW i, NEW j, Replaced(i, j), j.acc = i.acc, SameOwed(i.w),
         m_warp'[i.w].n_atomic = m_warp[i.w].n_atomic
  PROVE  AtomicInv(i.w)'
  <1>1. /\ i \in InstOf(i.w) /\ InstOf(i.w)' = (InstOf(i.w) \ {i}) \cup {j} BY ReplacedInsts, Zenon
  <1>2. \A k : Op(k)' = Op(k) BY Zenon DEF Op, Replaced
  <1>3. Op(j) = Op(i) /\ j.pc = i.pc /\ program' = program BY Zenon DEF Op, Replaced
  <1>4. AtomicInv(i.w) BY ReplacedShape, Zenon DEF CoreInv, WarpInv
  <1>5. owed'[i.w] = owed[i.w] BY Zenon DEF SameOwed
  <1>0. PICK w : w = i.w BY Zenon
  <1>6. ASSUME NEW k \in InstOf(w)', Op(k) = "ATOM", k.acc > 0
        PROVE  /\ m_warp'[w].n_atomic = k.acc + owed'[w][k.pc]
               /\ \A l \in InstOf(w)' : Op(l) = "ATOM" /\ l.acc > 0 => k = l
               /\ \A pc \in DOMAIN program :
                     program[pc].op = "ATOM" /\ owed'[w][pc] > 0 => pc = k.pc
    <2>1. CASE k = j BY <1>0, <1>1, <1>3, <1>4, <1>5, <1>6, <2>1, Zenon DEF AtomicInv
    <2>2. CASE k # j BY <1>0, <1>1, <1>3, <1>4, <1>5, <1>6, <2>2, Zenon DEF AtomicInv
    <2>3. QED BY <2>1, <2>2, Zenon
  <1>7. ASSUME NEW pc \in DOMAIN program, program[pc].op = "ATOM", owed'[w][pc] > 0
        PROVE  /\ \/ m_warp'[w].n_atomic = owed'[w][pc]
                  \/ \E k \in InstOf(w)' : Op(k) = "ATOM" /\ k.acc > 0
               /\ \A qc \in DOMAIN program : program[qc].op = "ATOM" /\ owed'[w][qc] > 0 => qc = pc
    BY <1>0, <1>1, <1>3, <1>4, <1>5, <1>7 DEF AtomicInv
  <1>8. QED BY <1>0, <1>2, <1>3, <1>6, <1>7, Zenon DEF AtomicInv

\* What a move of instruction i leaves alone.
MoveSame ==
  UNCHANGED <<program, frontVars, m_warp, reg_table, barrierVars, m_next_wb, owed, fences,
              sm_next_uid>>

\* The fields of an instruction after a move.
LEMMA MoveUpdate ==
  ASSUME NEW i \in Issued, NEW p \in Places
  PROVE  LET j == [i EXCEPT !.at = p]
         IN j \in Issued /\ j.w = i.w /\ j.pc = i.pc /\ j.acc = i.acc /\ j.uid = i.uid /\ j.at = p
  BY Zenon DEF Issued

\* A move along the pipeline, noting accesses on entry to the unit, keeps CoreInv.
LEMMA MoveKept ==
  ASSUME CountingLaws, CoreInv, NEW i, NEW j, Replaced(i, j), j.acc = i.acc, MoveSame,
         ~Accounted(i),
         RoomInv', j.at = "SHARED" => Op(i) = "SHLOAD",
         m_pending_writes' \in [Warps -> [Registers -> Nat]],
         \A v \in Warps \ {i.w} : m_pending_writes'[v] = m_pending_writes[v],
         \A r \in Registers : m_pending_writes'[i.w][r] =
            IF Accounted(j) /\ r \in Out(i) THEN m_pending_writes[i.w][r] + i.acc
                                            ELSE m_pending_writes[i.w][r]
  PROVE  CoreInv'
  <1>1. InstsShape' /\ i \in Issued /\ i.w \in Warps /\ i.pc \in DOMAIN program
    BY ReplacedShape, Zenon
  <1>2. /\ i \in InstOf(i.w) /\ InstOf(i.w)' = (InstOf(i.w) \ {i}) \cup {j}
        /\ \A v : v # i.w => InstOf(v)' = InstOf(v)
    BY ReplacedInsts, Zenon
  <1>3. Shape' BY <1>1, Zenon DEF CoreInv, Shape, InstsShape, MoveSame, frontVars, barrierVars
  <1>4. \A v : SameOwed(v) /\ \A pc : Back(v, pc)' = Back(v, pc)
    BY Zenon DEF SameOwed, Back, MoveSame
  <1>5. OnlyWarp(i.w)
    <2>1. ASSUME NEW v \in Warps \ {i.w} PROVE Untouched(v)
      <3>1. SameInsts(v) BY <1>2, <2>1, Zenon DEF SameInsts, Replaced
      <3>2. SameRegs(v) BY <1>4, <2>1, <3>1, Zenon DEF SameRegs, MoveSame
      <3>3. QED BY <3>2, Zenon DEF Untouched, NoFetch, MoveSame, frontVars, barrierVars
    <2>2. QED BY <2>1, Zenon DEF OnlyWarp
  <1>6. WarpInv(i.w)'
    <2>1. m_warp' = m_warp /\ fences' = fences /\ reg_table' = reg_table BY Zenon DEF MoveSame
    <2>2. ControlInv(i.w)'
      <3>1. ControlInv(i.w) BY <1>1, Zenon DEF CoreInv, WarpInv
      <3>2. QED BY <3>1, ControlFrame, Zenon DEF MoveSame, NoFetch, frontVars, barrierVars
    <2>3. CountInv(i.w)' /\ FenceInv(i.w)' /\ AtomicInv(i.w)'
      BY <1>4, <2>1, ReplacedCount, ReplacedFence, MoveAtomic, Zenon
    <2>4. StoreInv(i.w)'
      <3>1. StoreInv(i.w) BY <1>1, Zenon DEF CoreInv, WarpInv
      <3>2. QED BY <1>4, <2>1, <3>1, StoreFrame, Zenon
    <2>5. \A r \in Registers : RegInv(i.w, r)' BY <1>4, <2>1, MoveReg, Zenon
    <2>6. QED BY <2>2, <2>3, <2>4, <2>5, Zenon DEF WarpInv
  <1>7. \A v \in Warps : WarpInv(v)' BY <1>1, <1>5, <1>6, WarpsKept, Zenon
  <1>8. SlotInv'
    <2>1. SlotInv BY Zenon DEF CoreInv
    <2>2. QED BY <2>1, SlotFrame, Zenon DEF MoveSame, frontVars
  <1>9. KeyInv' BY ReplacedKey, Zenon DEF MoveSame
  <1>10. BarrierInv' BY BarrierFrame, Zenon DEF CoreInv, MoveSame
  <1>11. AccessInv'
    <2>1. /\ program' = program /\ owed' = owed /\ m_next_wb' = m_next_wb
          /\ insts' = (insts \ {i}) \cup {j} /\ i \in insts /\ j.pc = i.pc
      BY Zenon DEF MoveSame, Replaced
    <2>2. QED BY <2>1 DEF CoreInv, AccessInv, Op
  <1>12. QED BY <1>3, <1>7, <1>8, <1>9, <1>10, <1>11, Zenon DEF CoreInv

\* Moved exchanges one instruction for the same one at another place.
LEMMA MovedReplaced ==
  ASSUME CoreInv, NEW i \in insts, NEW p \in Places, insts' = Moved(i, p), program' = program
  PROVE  LET j == [i EXCEPT !.at = p]
         IN Replaced(i, j) /\ j.acc = i.acc /\ j.at = p
  <1>1. i \in Issued BY Zenon DEF CoreInv, Shape
  <1>. DEFINE j == [i EXCEPT !.at = p]
  <1>2. j \in Issued /\ j.w = i.w /\ j.pc = i.pc /\ j.acc = i.acc /\ j.uid = i.uid /\ j.at = p
    BY <1>1, MoveUpdate, Zenon
  <1>3. insts' = (insts \ {i}) \cup {j} BY Zenon DEF Moved
  <1> HIDE DEF j
  <1>4. Replaced(i, j) BY <1>2, <1>3, Zenon DEF Replaced
  <1>5. QED BY <1>2, <1>4, Zenon DEF j

\* The moves that note no access.
LEMMA PlainMoveKept ==
  ASSUME CountingLaws, CoreInv, NEW i, NEW j, Replaced(i, j), j.acc = i.acc, MoveSame,
         m_pending_writes' = m_pending_writes, ~Accounted(i), ~Accounted(j),
         RoomInv', j.at = "SHARED" => Op(i) = "SHLOAD"
  PROVE  CoreInv'
  <1>1. m_pending_writes \in [Warps -> [Registers -> Nat]] BY Zenon DEF CoreInv, Shape
  <1>2. QED BY <1>1, MoveKept, Zenon

\* Allocating a collector unit keeps CoreInv.
LEMMA AllocateCUKept ==
  ASSUME CountingLaws, CoreInv, NEW i \in insts, AllocateCU(i)
  PROVE  CoreInv'
  <1>1. MoveSame /\ m_pending_writes' = m_pending_writes /\ program' = program
    BY Zenon DEF MoveSame, AllocateCU, memVars
  <1>2. PICK j : Replaced(i, j) /\ j.acc = i.acc /\ j.at = "CU"
    BY <1>1, MovedReplaced, Zenon DEF AllocateCU, Places
  <1>3. RoomInv' BY <1>2, RoomMove, Zenon DEF AllocateCU
  <1>4. ~Accounted(i) /\ ~Accounted(j) BY <1>2, Zenon DEF AllocateCU, Accounted
  <1>5. QED BY <1>1, <1>2, <1>3, <1>4, PlainMoveKept, Zenon

\* Dispatching a collector unit keeps CoreInv.
LEMMA DispatchCUKept ==
  ASSUME CountingLaws, CoreInv, NEW i \in insts, DispatchCU(i)
  PROVE  CoreInv'
  <1>1. MoveSame /\ m_pending_writes' = m_pending_writes /\ program' = program
    BY Zenon DEF MoveSame, DispatchCU, memVars
  <1>2. PICK j : Replaced(i, j) /\ j.acc = i.acc /\ j.at = "OC_EX"
    BY <1>1, MovedReplaced, Zenon DEF DispatchCU, Places
  <1>3. RoomInv' BY <1>2, RoomMove, Zenon DEF DispatchCU
  <1>4. ~Accounted(i) /\ ~Accounted(j) BY <1>2, Zenon DEF DispatchCU, Accounted
  <1>5. QED BY <1>1, <1>2, <1>3, <1>4, PlainMoveKept, Zenon

\* A shared-memory cycle keeps CoreInv.
LEMMA SharedCycleKept ==
  ASSUME CountingLaws, CoreInv, NEW i \in insts, SharedCycle(i)
  PROVE  CoreInv'
  <1>1. MoveSame /\ m_pending_writes' = m_pending_writes /\ program' = program
    BY Zenon DEF MoveSame, SharedCycle, memVars
  <1>2. PICK j : Replaced(i, j) /\ j.acc = i.acc /\ j.at = "SHARED"
    BY <1>1, MovedReplaced, Zenon DEF SharedCycle, Places
  <1>3. RoomInv' BY <1>2, RoomMove, Zenon
  <1>4. ~Accounted(i) /\ ~Accounted(j) BY <1>2, Zenon DEF SharedCycle, Accounted, IsLoad
  <1>5. Op(i) = "SHLOAD" BY Zenon DEF SharedCycle
  <1>6. QED BY <1>1, <1>2, <1>3, <1>4, <1>5, PlainMoveKept, Zenon

\* Issuing to a functional unit keeps CoreInv.
LEMMA IssueToUnitKept ==
  ASSUME CountingLaws, CoreInv, NEW i \in insts, IssueToUnit(i)
  PROVE  CoreInv'
  <1>1. MoveSame /\ program' = program BY Zenon DEF MoveSame, IssueToUnit
  <1>2. PICK j : Replaced(i, j) /\ j.acc = i.acc /\ j.at = "EX"
    BY <1>1, MovedReplaced, Zenon DEF IssueToUnit, Places
  <1>3. RoomInv' BY <1>2, RoomMove, Zenon DEF IssueToUnit
  <1>4. ~Accounted(i) BY Zenon DEF IssueToUnit, Accounted
  <1>5. Accounted(j) <=> IsLoad(i) BY <1>2, Zenon DEF Accounted, IsLoad, Op, Replaced
  <1>6. i.acc \in Nat /\ i.w \in Warps BY Zenon DEF CoreInv, Shape, Issued
  <1>7. m_pending_writes \in [Warps -> [Registers -> Nat]] BY Zenon DEF CoreInv, Shape
  <1>8. /\ m_pending_writes' \in [Warps -> [Registers -> Nat]]
        /\ \A v \in Warps \ {i.w} : m_pending_writes'[v] = m_pending_writes[v]
        /\ \A r \in Registers : m_pending_writes'[i.w][r] =
              IF Accounted(j) /\ r \in Out(i) THEN m_pending_writes[i.w][r] + i.acc
                                              ELSE m_pending_writes[i.w][r]
    <2>1. CASE ~IsLoad(i) BY <1>5, <1>7, <2>1, Zenon DEF IssueToUnit
    <2>2. CASE IsLoad(i)
      <3>. DEFINE f == [r \in Registers |-> IF r \in Out(i) THEN m_pending_writes[i.w][r] + i.acc
                                                          ELSE m_pending_writes[i.w][r]]
      <3>1. m_pending_writes' = [m_pending_writes EXCEPT ![i.w] = f]
        BY <2>2, Zenon DEF IssueToUnit
      <3>2. f \in [Registers -> Nat] BY <1>6, <1>7
      <3>3. \A r \in Registers : f[r] = IF r \in Out(i) THEN m_pending_writes[i.w][r] + i.acc
                                                        ELSE m_pending_writes[i.w][r]
        BY Zenon
      <3> HIDE DEF f
      <3>4. QED BY <1>5, <1>6, <1>7, <2>2, <3>1, <3>2, <3>3, Zenon
    <2>3. QED BY <2>1, <2>2, Zenon
  <1>9. j.at # "SHARED" BY <1>2, Zenon
  <1>10. QED BY <1>1, <1>2, <1>3, <1>4, <1>8, <1>9, MoveKept, Zenon

-----------------------------------------------------------------------------
(* An instruction leaves the pipeline. *)

\* Retiring an instruction with no atomic access left keeps the counter exact.
LEMMA GoneAtomic ==
  ASSUME CountingLaws, CoreInv, NEW i, Gone(i), Op(i) # "ATOM" \/ i.acc = 0, SameOwed(i.w),
         m_warp'[i.w].n_atomic = m_warp[i.w].n_atomic
  PROVE  AtomicInv(i.w)'
  <1>0. PICK w \in Warps : w = i.w BY GoneShape, Zenon
  <1>1. InstOf(w)' = InstOf(w) \ {i} BY <1>0, GoneInsts, Zenon
  <1>2. \A k : Op(k)' = Op(k) BY Zenon DEF Op, Gone
  <1>3. program' = program BY Zenon DEF Gone
  <1>4. AtomicInv(w) BY Zenon DEF CoreInv, WarpInv
  <1>5. owed'[w] = owed[w] /\ m_warp'[w].n_atomic = m_warp[w].n_atomic BY <1>0, Zenon DEF SameOwed
  <1>6. \A k \in InstOf(w) : Op(k) = "ATOM" /\ k.acc > 0 => k \in InstOf(w)' BY <1>1
  <1>7. AtomicInv(w)' BY <1>1, <1>2, <1>3, <1>4, <1>5, <1>6, Zenon DEF AtomicInv
  <1>8. QED BY <1>0, <1>7, Zenon

\* What such a step does to the warp of the instruction.
Left(u, x) ==
  /\ u \in WarpStates
  /\ u.pc = x.pc /\ u.live = x.live /\ u.imiss = x.imiss /\ u.ibuffer = x.ibuffer
  /\ u.n_atomic = x.n_atomic /\ u.done_exit = x.done_exit /\ u.stores = x.stores
  /\ u.in_pipeline = x.in_pipeline - 1
  /\ u.membar => x.membar

\* An instruction that retires, with its registers and fence settled, keeps CoreInv.
LEMMA GoneKept ==
  ASSUME CountingLaws, CoreInv, NEW i, Gone(i), Op(i) # "ATOM" \/ i.acc = 0,
         UNCHANGED <<frontVars, barrierVars, m_pending_writes, owed, sm_next_uid>>,
         NEW u, Left(u, m_warp[i.w]), m_warp' = [m_warp EXCEPT ![i.w] = u],
         reg_table' \in [Warps -> SUBSET Registers],
         \A v \in Warps \ {i.w} : reg_table'[v] = reg_table[v],
         fences' \subseteq Warps,
         \A v \in Warps \ {i.w} : v \in fences' <=> v \in fences,
         m_next_wb' \in {None} \cup [w : Warps, pc : DOMAIN program],
         \A v \in Warps \ {i.w} : \A pc : Back(v, pc)' = Back(v, pc),
         FenceInv(i.w)', AccessInv', \A r \in Registers : RegInv(i.w, r)'
  PROVE  CoreInv'
  <1>0. PICK w \in Warps : w = i.w BY GoneShape, Zenon
  <1>1. InstsShape' BY GoneShape, Zenon
  <1>2. \A v : v # w => InstOf(v)' = InstOf(v) BY <1>0, GoneInsts, Zenon
  <1>3. /\ m_warp' \in [Warps -> WarpStates]
        /\ m_warp'[w] = u
        /\ \A v \in Warps \ {w} : m_warp'[v] = m_warp[v]
    BY <1>0, WarpWrite, Zenon DEF CoreInv, Shape, Left
  <1>4. /\ program' = program /\ ctas_left' = ctas_left /\ m_cta_status' = m_cta_status
        /\ m_inst_fetch_buffer' = m_inst_fetch_buffer
        /\ m_warp_active' = m_warp_active /\ m_warp_at_barrier' = m_warp_at_barrier
        /\ arrived' = arrived /\ m_pending_writes' = m_pending_writes /\ owed' = owed
        /\ sm_next_uid' = sm_next_uid
    BY Zenon DEF Gone, frontVars, barrierVars
  <1>5. Shape' BY <1>1, <1>3, <1>4, Zenon DEF CoreInv, Shape, InstsShape
  <1>6. OnlyWarp(w)
    <2>1. ASSUME NEW v \in Warps \ {w} PROVE Untouched(v)
      <3>1. SameInsts(v) /\ SameOwed(v) BY <1>2, <1>4, <2>1, Zenon DEF SameInsts, SameOwed
      <3>2. SameRegs(v) BY <1>0, <1>4, <2>1, <3>1, Zenon DEF SameRegs
      <3>3. QED BY <1>0, <1>3, <1>4, <2>1, <3>2, Zenon DEF Untouched, NoFetch
    <2>2. QED BY <2>1, Zenon DEF OnlyWarp
  <1>7. WarpInv(w)'
    <2>1. SameOwed(w) BY <1>4, Zenon DEF SameOwed
    <2>2. Left(m_warp'[w], m_warp[w]) BY <1>0, <1>3, Zenon
    <2>3. ControlInv(w)'
      <3>1. ControlInv(w) BY Zenon DEF CoreInv, WarpInv
      <3>2. QED BY <1>4, <2>2, <3>1, Zenon DEF ControlInv, Left
    <2>4. CountInv(w)' BY <1>0, <2>2, GoneCount, Zenon DEF Left
    <2>5. AtomicInv(w)' BY <1>0, <2>1, <2>2, GoneAtomic, Zenon DEF Left
    <2>6. StoreInv(w)'
      <3>1. StoreInv(w) BY Zenon DEF CoreInv, WarpInv
      <3>2. QED BY <2>1, <2>2, <3>1, StoreFrame, Zenon DEF Left
    <2>7. QED BY <1>0, <2>3, <2>4, <2>5, <2>6, Zenon DEF WarpInv
  <1>8. \A v \in Warps : WarpInv(v)' BY <1>6, <1>7, WarpsKept, Zenon
  <1>9. SlotInv'
    <2>1. SlotInv BY Zenon DEF CoreInv
    <2>2. ~m_warp[w].done_exit BY <1>0, InFlightUndone, Zenon DEF Gone
    <2>3. m_warp'[w].done_exit = m_warp[w].done_exit BY <1>0, <1>3, Zenon DEF Left
    <2>4. QED BY <1>0, <1>3, <1>4, <2>1, <2>2, <2>3, SlotFrame, Zenon
  <1>10. KeyInv' BY <1>4, GoneKey, Zenon
  <1>11. BarrierInv' BY BarrierFrame, Zenon DEF CoreInv
  <1>12. RoomInv' BY RoomSmaller, Zenon DEF Gone
  <1>13. QED BY <1>5, <1>8, <1>9, <1>10, <1>11, <1>12, Zenon DEF CoreInv

LeftTo(u, x, b) == Left(u, x) /\ u.membar = b

\* The warp's fields after an instruction leaves the pipeline.
LEMMA LeftUpdate ==
  ASSUME NEW x \in WarpStates, NEW n \in Nat, NEW b \in BOOLEAN,
         n = x.in_pipeline - 1, b => x.membar
  PROVE  /\ LeftTo([x EXCEPT !.in_pipeline = n], x, x.membar)
         /\ LeftTo([x EXCEPT !.in_pipeline = n, !.membar = b], x, b)
  BY Zenon DEF LeftTo, Left, WarpStates

\* releaseRegisters frees the instruction's registers and no other.
LEMMA GoneRegisters ==
  ASSUME CoreInv, NEW i \in insts, reg_table' = releaseRegisters(i.w, Out(i))
  PROVE  /\ reg_table' \in [Warps -> SUBSET Registers]
         /\ \A v \in Warps \ {i.w} : reg_table'[v] = reg_table[v]
         /\ reg_table'[i.w] = reg_table[i.w] \ Out(i)
  <1>1. i.w \in Warps BY Zenon DEF CoreInv, Shape, Issued
  <1>2. reg_table \in [Warps -> SUBSET Registers] BY Zenon DEF CoreInv, Shape
  <1>3. reg_table' = [reg_table EXCEPT ![i.w] = reg_table[i.w] \ Out(i)]
    BY Zenon DEF releaseRegisters
  <1>4. QED BY <1>1, <1>2, <1>3, Zenon

\* Writeback from a functional unit keeps CoreInv.
LEMMA WritebackKept ==
  ASSUME CountingLaws, CoreInv, NEW i \in insts, Writeback(i)
  PROVE  CoreInv'
  <1>1. Gone(i) BY Zenon DEF Writeback, Gone
  <1>2. PICK w \in Warps : w = i.w BY <1>1, GoneShape, Zenon
  <1>3. /\ UNCHANGED <<frontVars, barrierVars, m_pending_writes, owed, sm_next_uid>>
        /\ fences' = fences /\ m_next_wb' = m_next_wb
    BY Zenon DEF Writeback, memVars
  <1>4. Op(i) \notin {"LOAD", "ATOM", "STORE", "SHLOAD", "MEMBAR"}
    BY Zenon DEF Writeback, PipeOf, MemOps
  <1>5. ~Accounted(i) BY <1>4, Zenon DEF Accounted, IsLoad
  <1>6. PICK x : x = m_warp[w] BY Zenon
  <1>7. x \in WarpStates BY <1>6, Zenon DEF CoreInv, Shape
  <1>. DEFINE n == x.in_pipeline - 1
              u == [x EXCEPT !.in_pipeline = n]
  <1>8. n \in Nat
    <2>1. x.in_pipeline \in Nat \ {0} BY <1>2, <1>6, InFlightUndone, Zenon
    <2>2. QED BY <2>1
  <1>9. m_warp' = [m_warp EXCEPT ![i.w] = u] BY <1>2, <1>6, Zenon DEF Writeback
  <1>10. Left(u, m_warp[i.w]) /\ u.membar = x.membar
    <2> HIDE DEF n
    <2>1. n = x.in_pipeline - 1 BY Zenon DEF n
    <2>2. x.membar \in BOOLEAN BY <1>7, Zenon DEF WarpStates
    <2>3. LeftTo(u, x, x.membar) BY <1>7, <1>8, <2>1, <2>2, LeftUpdate, Zenon
    <2> HIDE DEF u
    <2>4. QED BY <1>2, <1>6, <2>3, Zenon DEF LeftTo
  <1> HIDE DEF u
  <1>11. /\ reg_table' \in [Warps -> SUBSET Registers]
         /\ \A v \in Warps \ {w} : reg_table'[v] = reg_table[v]
         /\ reg_table'[w] = reg_table[w] \ Out(i)
    BY <1>2, GoneRegisters, Zenon DEF Writeback
  <1>12. \A v, pc : Back(v, pc)' = Back(v, pc) BY <1>3, Zenon DEF Back
  <1>13. SameOwed(w) BY <1>1, <1>3, Zenon DEF SameOwed, Gone
  <1>14. \A pc : Answers(w, pc)' = Answers(w, pc) BY <1>12, <1>13, AnswersSame, Zenon
  <1>15. ASSUME NEW r \in Registers PROVE RegInv(w, r)'
    <2>1. CASE r \notin Out(i)
      BY <1>1, <1>2, <1>3, <1>11, <1>14, <2>1, GoneRegOther, Zenon
    <2>2. CASE r \in Out(i)
      <3>1. i \in InstOf(w) /\ InstOf(w)' = InstOf(w) \ {i} BY <1>1, <1>2, GoneInsts, Zenon
      <3>2. RegInPipe(w, r, i) BY <2>2, <3>1, WriterInPipe, Zenon
      <3>3. \A pc \in DOMAIN program : Answers(w, pc) \in Nat BY AnswersNat, Zenon
      <3>4. program' = program /\ m_pending_writes' = m_pending_writes BY <1>1, <1>3, Zenon DEF Gone
      <3>5. /\ r \notin reg_table'[w] /\ m_pending_writes'[w][r] = 0
            /\ \A k \in InstOf(w)' : r \notin Out(k)
            /\ \A pc \in DOMAIN program : r \in program[pc].out => Answers(w, pc) = 0
        BY <1>5, <1>11, <2>2, <3>1, <3>2, <3>3, <3>4 DEF RegInPipe
      <3>6. RegFree(w, r)' BY <1>14, <3>4, <3>5, Zenon DEF RegFree, Out
      <3>7. QED BY <3>6, Zenon DEF RegInv
    <2>3. QED BY <2>1, <2>2, Zenon
  <1>16. FenceInv(w)'
    <2>1. m_warp'[i.w] = u BY <1>2, <1>9, Zenon DEF CoreInv, Shape
    <2>2. QED BY <1>1, <1>2, <1>3, <1>6, <1>10, <2>1, GoneFence, Zenon
  <1>17. AccessInv' BY <1>1, <1>3, Zenon DEF CoreInv, AccessInv, Op, Gone
  <1>18. /\ fences' \subseteq Warps
         /\ m_next_wb' \in {None} \cup [w : Warps, pc : DOMAIN program]
    BY <1>3, Zenon DEF CoreInv, Shape
  <1>19. QED
    BY <1>1, <1>2, <1>3, <1>4, <1>9, <1>10, <1>11, <1>12, <1>15, <1>16, <1>17, <1>18, GoneKept,
       Zenon

\* A fence leaving the load/store unit keeps CoreInv.
LEMMA MembarCycleKept ==
  ASSUME CountingLaws, CoreInv, NEW i \in insts, MembarCycle(i)
  PROVE  CoreInv'
  <1>1. Gone(i) BY Zenon DEF MembarCycle, Gone
  <1>2. PICK w \in Warps : w = i.w BY <1>1, GoneShape, Zenon
  <1>3. /\ UNCHANGED <<frontVars, barrierVars, m_pending_writes, owed, sm_next_uid>>
        /\ reg_table' = reg_table /\ m_next_wb' = m_next_wb /\ Op(i) = "MEMBAR"
    BY Zenon DEF MembarCycle
  <1>6. PICK x : x = m_warp[w] BY Zenon
  <1>7. x \in WarpStates BY <1>6, Zenon DEF CoreInv, Shape
  <1>. DEFINE n == x.in_pipeline - 1
              b == x.membar /\ SendMemfence
              u == [x EXCEPT !.in_pipeline = n, !.membar = b]
  <1>8. n \in Nat
    <2>1. x.in_pipeline \in Nat \ {0} BY <1>2, <1>6, InFlightUndone, Zenon
    <2>2. QED BY <2>1
  <1>9. m_warp' = [m_warp EXCEPT ![i.w] = u]
    <2>1. m_warp' = [m_warp EXCEPT ![i.w].in_pipeline = @ - 1,
                                   ![i.w].membar = @ /\ SendMemfence] 
      BY Zenon DEF MembarCycle
    <2>2. QED BY <1>2, <1>6, <1>7, <2>1, Zenon DEF CoreInv, Shape, WarpStates
  <1>10. Left(u, m_warp[i.w]) /\ u.membar = b
    <2> HIDE DEF n, b
    <2>1. n = x.in_pipeline - 1 /\ (b => x.membar) BY Zenon DEF n, b
    <2>2. b \in BOOLEAN BY <1>7, CoreAssumption, Zenon DEF WarpStates, b
    <2>3. LeftTo(u, x, b) BY <1>7, <1>8, <2>1, <2>2, LeftUpdate, Zenon
    <2> HIDE DEF u
    <2>4. QED BY <1>2, <1>6, <2>3, Zenon DEF LeftTo
  <1> HIDE DEF u
  <1>12. \A v, pc : Back(v, pc)' = Back(v, pc) BY <1>3, Zenon DEF Back
  <1>13. SameOwed(w) BY <1>1, <1>3, Zenon DEF SameOwed, Gone
  <1>14. \A pc : Answers(w, pc)' = Answers(w, pc) BY <1>12, <1>13, AnswersSame, Zenon
  <1>15. ASSUME NEW r \in Registers PROVE RegInv(w, r)'
    <2>1. i.pc \in DOMAIN program /\ program \in Programs BY Zenon DEF CoreInv, Shape
    <2>2. Out(i) = {} BY <1>3, <2>1, CoreAssumption, Zenon DEF WellFormed, Op, Out
    <2>3. QED BY <1>1, <1>2, <1>3, <1>14, <2>2, GoneRegOther, Zenon
  <1>16. fences' = (IF SendMemfence THEN fences \cup {w} ELSE fences)
    BY <1>2, Zenon DEF MembarCycle
  <1>17. FenceInv(w)'
    <2>1. m_warp'[w] = u BY <1>2, <1>9, Zenon DEF CoreInv, Shape
    <2>2. i \in InstOf(w) /\ InstOf(w)' = InstOf(w) \ {i} BY <1>1, <1>2, GoneInsts, Zenon
    <2>3. FenceInv(w) BY Zenon DEF CoreInv, WarpInv
    <2>4. \A k : Op(k)' = Op(k) BY <1>1, Zenon DEF Op, Gone
    <2>5. x.membar /\ w \notin fences BY <1>3, <1>6, <2>2, <2>3, Zenon DEF FenceInv
    <2>6. \A k \in InstOf(w)' : Op(k) # "MEMBAR" BY <1>3, <2>2, <2>3, Zenon DEF FenceInv
    <2>7. w \in fences' => u.membar BY <1>10, <1>16, <2>5, Zenon
    <2>8. QED BY <2>1, <2>4, <2>6, <2>7, Zenon DEF FenceInv
  <1>18. AccessInv' BY <1>1, <1>3, Zenon DEF CoreInv, AccessInv, Op, Gone
  <1>19. /\ fences' \subseteq Warps /\ \A v \in Warps \ {w} : v \in fences' <=> v \in fences
         /\ m_next_wb' \in {None} \cup [w : Warps, pc : DOMAIN program]
         /\ reg_table' \in [Warps -> SUBSET Registers]
    BY <1>3, <1>16, Zenon DEF CoreInv, Shape
  <1>20. Op(i) # "ATOM" BY <1>3, Zenon
  <1>21. QED
    BY <1>1, <1>2, <1>3, <1>9, <1>10, <1>12, <1>15, <1>17, <1>18, <1>19, <1>20, GoneKept, Zenon

\* The end of a shared-memory load keeps CoreInv.
LEMMA SharedReplyKept ==
  ASSUME CountingLaws, CoreInv, NEW i \in insts, SharedReply(i)
  PROVE  CoreInv'
  <1>1. Gone(i) BY Zenon DEF SharedReply, Gone
  <1>2. PICK w \in Warps : w = i.w BY <1>1, GoneShape, Zenon
  <1>3. /\ UNCHANGED <<frontVars, barrierVars, m_pending_writes, owed, sm_next_uid>>
        /\ fences' = fences /\ reg_table' = reg_table /\ m_next_wb = None
        /\ m_next_wb' = [w |-> w, pc |-> i.pc]
    BY <1>2, Zenon DEF SharedReply
  <1>4. Op(i) = "SHLOAD" BY Zenon DEF SharedReply, CoreInv, AccessInv
  <1>5. ~Accounted(i) BY <1>4, Zenon DEF Accounted, IsLoad
  <1>6. PICK x : x = m_warp[w] BY Zenon
  <1>7. x \in WarpStates BY <1>6, Zenon DEF CoreInv, Shape
  <1>. DEFINE n == x.in_pipeline - 1
              u == [x EXCEPT !.in_pipeline = n]
  <1>8. n \in Nat
    <2>1. x.in_pipeline \in Nat \ {0} BY <1>2, <1>6, InFlightUndone, Zenon
    <2>2. QED BY <2>1
  <1>9. m_warp' = [m_warp EXCEPT ![i.w] = u] BY <1>2, <1>6, Zenon DEF SharedReply
  <1>10. Left(u, m_warp[i.w]) /\ u.membar = x.membar
    <2> HIDE DEF n
    <2>1. n = x.in_pipeline - 1 BY Zenon DEF n
    <2>2. x.membar \in BOOLEAN BY <1>7, Zenon DEF WarpStates
    <2>3. LeftTo(u, x, x.membar) BY <1>7, <1>8, <2>1, <2>2, LeftUpdate, Zenon
    <2> HIDE DEF u
    <2>4. QED BY <1>2, <1>6, <2>3, Zenon DEF LeftTo
  <1> HIDE DEF u
  <1>11. /\ program' = program /\ i.pc \in DOMAIN program /\ program \in Programs
         /\ m_pending_writes' = m_pending_writes /\ owed' = owed
    BY <1>1, <1>3, Zenon DEF Gone, CoreInv, Shape
  <1>12. i.pc \in Nat BY <1>11, CoreAssumption, Zenon DEF WellFormed
  <1>13. m_next_wb' # None /\ m_next_wb'.w = w /\ m_next_wb'.pc = i.pc
    BY <1>3, <1>12, CoreAssumption
  <1>14. \A v \in Warps : \A pc : Back(v, pc)' <=> v = w /\ pc = i.pc
    BY <1>13, Zenon DEF Back
  <1>15. \A v, pc : ~Back(v, pc) BY <1>3, Zenon DEF Back
  <1>16. ASSUME NEW r \in Registers PROVE RegInv(w, r)'
    <2>1. CASE r \notin Out(i)
      <3>1. \A pc \in DOMAIN program : r \in program[pc].out => Answers(w, pc)' = Answers(w, pc)
        BY <1>11, <1>14, <1>15, <2>1, Zenon DEF Answers, Out
      <3>2. QED BY <1>1, <1>2, <1>3, <1>11, <2>1, <3>1, GoneRegOther, Zenon
    <2>2. CASE r \in Out(i)
      <3>1. i \in InstOf(w) /\ InstOf(w)' = InstOf(w) \ {i} BY <1>1, <1>2, GoneInsts, Zenon
      <3>2. RegInPipe(w, r, i) BY <2>2, <3>1, WriterInPipe, Zenon
      <3>3. \A pc \in DOMAIN program : r \in program[pc].out => owed[w][pc] = 0
        <4>1. \A pc \in DOMAIN program : Answers(w, pc) = owed[w][pc] /\ Answers(w, pc) \in Nat
          BY <1>15, AnswersNat DEF Answers
        <4>2. \A pc \in DOMAIN program : r \in program[pc].out => ~(Answers(w, pc) > 0)
          BY <1>5, <3>2, Zenon DEF RegInPipe
        <4>3. QED BY <4>1, <4>2
      <3>4. \A pc \in DOMAIN program : r \in program[pc].out =>
               Answers(w, pc)' = IF pc = i.pc THEN 1 ELSE 0
        BY <1>11, <1>14, <3>3 DEF Answers
      <3>5. Answers(w, i.pc)' = 1 BY <1>11, <2>2, <3>4, Zenon DEF Out
      <3>6. r \in reg_table[w] /\ m_pending_writes[w][r] = 0
            /\ \A k \in InstOf(w)' : r \notin Out(k)
        BY <1>5, <3>1, <3>2, Zenon DEF RegInPipe
      <3>7. RegReturning(w, r, i.pc)'
        BY <1>3, <1>4, <1>11, <2>2, <3>4, <3>5, <3>6 DEF RegReturning, Out, Op
      <3>8. QED BY <1>11, <3>7, Zenon DEF RegInv
    <2>3. QED BY <2>1, <2>2, Zenon
  <1>17. FenceInv(w)'
    <2>1. m_warp'[i.w] = u BY <1>2, <1>9, Zenon DEF CoreInv, Shape
    <2>2. QED BY <1>1, <1>2, <1>3, <1>6, <1>10, <2>1, GoneFence, Zenon
  <1>18. AccessInv'
    <2>1. \A k : Op(k)' = Op(k) BY <1>11, Zenon DEF Op
    <2>2. Op(m_next_wb') = "SHLOAD" BY <1>4, <1>13, Zenon DEF Op
    <2>3. AccessInv /\ insts' \subseteq insts BY <1>1, Zenon DEF CoreInv, Gone
    <2>4. QED BY <1>11, <2>1, <2>2, <2>3, Zenon DEF AccessInv
  <1>19. /\ fences' \subseteq Warps /\ reg_table' \in [Warps -> SUBSET Registers]
         /\ m_next_wb' \in {None} \cup [w : Warps, pc : DOMAIN program]
    <2>1. fences \subseteq Warps /\ reg_table \in [Warps -> SUBSET Registers]
      BY Zenon DEF CoreInv, Shape
    <2>2. [w |-> w, pc |-> i.pc] \in [w : Warps, pc : DOMAIN program] BY <1>11, Zenon
    <2>3. /\ fences' = fences /\ reg_table' = reg_table
          /\ m_next_wb' = [w |-> w, pc |-> i.pc]
      BY <1>3, Zenon
    <2>4. m_next_wb' \in [w : Warps, pc : DOMAIN program] BY <2>2, <2>3, Zenon
    <2>5. QED BY <2>1, <2>3, <2>4, Zenon
  <1>20. Op(i) # "ATOM" /\ \A v \in Warps \ {w} : \A pc : Back(v, pc)' = Back(v, pc)
    <2>1. \A v \in Warps \ {w} : \A pc : Back(v, pc)' \in BOOLEAN /\ Back(v, pc) \in BOOLEAN
      BY Zenon DEF Back
    <2>2. QED BY <1>4, <1>14, <1>15, <2>1, Zenon
  <1>21. QED
    BY <1>1, <1>2, <1>3, <1>9, <1>10, <1>16, <1>17, <1>18, <1>19, <1>20, GoneKept, Zenon

-----------------------------------------------------------------------------
(* Fences that Ruby has carried out, and the write-back of loads. *)

\* The warp's fields after its fence flag is cleared.
LEMMA FenceUpdate ==
  ASSUME NEW x \in WarpStates
  PROVE  LET u == [x EXCEPT !.membar = FALSE]
         IN /\ u \in WarpStates /\ u.membar = FALSE
            /\ u.pc = x.pc /\ u.live = x.live /\ u.imiss = x.imiss /\ u.ibuffer = x.ibuffer
            /\ u.n_atomic = x.n_atomic /\ u.done_exit = x.done_exit /\ u.stores = x.stores
            /\ u.in_pipeline = x.in_pipeline
  BY Zenon DEF WarpStates

\* The memory system's fence reply keeps CoreInv.
LEMMA FenceReplyKept ==
  ASSUME CoreInv, NEW w \in Warps, FenceReply(w)
  PROVE  CoreInv'
  <1>1. /\ program' = program /\ ctas_left' = ctas_left /\ m_cta_status' = m_cta_status
        /\ m_inst_fetch_buffer' = m_inst_fetch_buffer
        /\ m_warp_active' = m_warp_active /\ UNCHANGED barrierVars /\ arrived' = arrived
        /\ insts' = insts /\ reg_table' = reg_table /\ m_next_wb' = m_next_wb
        /\ m_pending_writes' = m_pending_writes /\ owed' = owed /\ sm_next_uid' = sm_next_uid
        /\ fences' = fences \ {w} /\ w \in fences
    BY Zenon DEF FenceReply, frontVars, barrierVars
  <1>2. PICK x : x = m_warp[w] BY Zenon
  <1>3. x \in WarpStates BY <1>2, Zenon DEF CoreInv, Shape
  <1>. DEFINE u == [x EXCEPT !.membar = FALSE]
  <1>4. m_warp' = [m_warp EXCEPT ![w] = u] BY <1>2, Zenon DEF FenceReply
  <1>5. /\ u \in WarpStates /\ u.membar = FALSE
        /\ u.pc = x.pc /\ u.live = x.live /\ u.imiss = x.imiss /\ u.ibuffer = x.ibuffer
        /\ u.n_atomic = x.n_atomic /\ u.done_exit = x.done_exit /\ u.stores = x.stores
        /\ u.in_pipeline = x.in_pipeline
    BY <1>3, FenceUpdate, Zenon
  <1> HIDE DEF u
  <1>6. /\ m_warp' \in [Warps -> WarpStates]
        /\ m_warp'[w] = u
        /\ \A v \in Warps \ {w} : m_warp'[v] = m_warp[v]
    BY <1>4, <1>5, WarpWrite, Zenon DEF CoreInv, Shape
  <1>7. Shape' BY <1>1, <1>6, Zenon DEF CoreInv, Shape
  <1>8. \A v : SameRegs(v) BY <1>1, Zenon DEF SameRegs, SameInsts, SameOwed, InstOf, Back
  <1>9. OnlyWarp(w)
    <2>1. ASSUME NEW v \in Warps \ {w} PROVE Untouched(v)
      BY <1>1, <1>6, <1>8, <2>1, Zenon DEF Untouched, NoFetch
    <2>2. QED BY <2>1, Zenon DEF OnlyWarp
  <1>10. WarpInv(w)'
    <2>1. SameInsts(w) /\ SameOwed(w) BY <1>8, Zenon DEF SameRegs
    <2>2. WarpInv(w) BY Zenon DEF CoreInv
    <2>3. ControlInv(w)' BY <1>1, <1>2, <1>5, <1>6, <2>2, Zenon DEF WarpInv, ControlInv
    <2>4. CountInv(w)' BY <1>2, <1>5, <1>6, <2>1, <2>2, CountFrame, Zenon DEF WarpInv
    <2>5. AtomicInv(w)' BY <1>2, <1>5, <1>6, <2>1, <2>2, AtomicFrame, Zenon DEF WarpInv
    <2>6. StoreInv(w)' BY <1>2, <1>5, <1>6, <2>1, <2>2, StoreFrame, Zenon DEF WarpInv
    <2>7. \A r \in Registers : RegInv(w, r)' BY <1>8, <2>2, RegFrame, Zenon DEF WarpInv
    <2>8. FenceInv(w)'
      <3>1. \A k : Op(k)' = Op(k) BY <1>1, Zenon DEF Op
      <3>2. FenceInv(w) BY <2>2, Zenon DEF WarpInv
      <3>3. \A k \in InstOf(w) : Op(k) # "MEMBAR" BY <1>1, <3>2, Zenon DEF FenceInv
      <3>4. QED BY <1>1, <2>1, <3>1, <3>3, Zenon DEF FenceInv, SameInsts
    <2>9. QED BY <2>3, <2>4, <2>5, <2>6, <2>7, <2>8, Zenon DEF WarpInv
  <1>11. \A v \in Warps : WarpInv(v)' BY <1>9, <1>10, WarpsKept, Zenon
  <1>12. SlotInv'
    <2>1. SlotInv BY Zenon DEF CoreInv
    <2>2. QED BY <1>1, <1>2, <1>5, <1>6, <2>1, SlotFrame, Zenon
  <1>13. KeyInv' /\ RoomInv' /\ AccessInv' /\ BarrierInv'
    BY <1>1, KeyFrame, RoomFrame, AccessFrame, BarrierFrame, Zenon DEF CoreInv
  <1>14. QED BY <1>7, <1>11, <1>12, <1>13, Zenon DEF CoreInv

\* The load/store unit's writeback of an answered load keeps CoreInv.
LEMMA LdstWritebackKept ==
  ASSUME CoreInv, LdstWriteback
  PROVE  CoreInv'
  <1>1. m_next_wb \in [w : Warps, pc : DOMAIN program] /\ m_next_wb # None
    BY Zenon DEF LdstWriteback, CoreInv, Shape
  <1>2. PICK w \in Warps, b \in DOMAIN program : m_next_wb.w = w /\ m_next_wb.pc = b
    BY <1>1, Zenon
  <1>3. PICK counts : 
          /\ counts = [r \in Registers |-> IF r \in program[b].out /\ program[b].op # "SHLOAD"
                         THEN m_pending_writes[w][r] - 1 ELSE m_pending_writes[w][r]]
          /\ m_pending_writes' = [m_pending_writes EXCEPT ![w] = counts]
          /\ reg_table' = releaseRegisters(w, {r \in program[b].out : counts[r] = 0})
    <2>. DEFINE C(x, o) == [r \in Registers |-> IF r \in o /\ Op(m_next_wb) # "SHLOAD"
                         THEN m_pending_writes[x][r] - 1 ELSE m_pending_writes[x][r]]
    <2>1. PICK x \in {m_next_wb.w}, o \in {Out(m_next_wb)} : \E c \in {C(x, o)} :
             /\ m_pending_writes' = [m_pending_writes EXCEPT ![x] = c]
             /\ reg_table' = releaseRegisters(x, {r \in o : c[r] = 0})
      BY Zenon DEF LdstWriteback
    <2>2. C(w, program[b].out) =
             [r \in Registers |-> IF r \in program[b].out /\ program[b].op # "SHLOAD"
                         THEN m_pending_writes[w][r] - 1 ELSE m_pending_writes[w][r]]
      BY <1>2, Zenon DEF Op
    <2>3. Out(m_next_wb) = program[b].out BY <1>2, Zenon DEF Out
    <2> HIDE DEF C
    <2>4. \E c \in {C(w, program[b].out)} :
             /\ m_pending_writes' = [m_pending_writes EXCEPT ![w] = c]
             /\ reg_table' = releaseRegisters(w, {r \in program[b].out : c[r] = 0})
      <3>1. x = w /\ o = program[b].out BY <1>2, <2>3, Zenon
      <3>2. QED BY <2>1, <3>1, Zenon
    <2>5. QED BY <2>2, <2>4, Zenon
  <1>4. /\ program' = program /\ ctas_left' = ctas_left /\ m_cta_status' = m_cta_status
        /\ m_inst_fetch_buffer' = m_inst_fetch_buffer /\ m_warp' = m_warp
        /\ m_warp_active' = m_warp_active /\ UNCHANGED barrierVars /\ arrived' = arrived
        /\ insts' = insts /\ fences' = fences
        /\ owed' = owed /\ sm_next_uid' = sm_next_uid /\ m_next_wb' = None
    BY Zenon DEF LdstWriteback, frontVars, barrierVars
  <1>5. /\ \A r \in Registers : counts[r] = IF r \in program[b].out /\ program[b].op # "SHLOAD"
                         THEN m_pending_writes[w][r] - 1 ELSE m_pending_writes[w][r]
        /\ DOMAIN counts = Registers
    BY <1>3, Zenon
  <1>6. m_pending_writes \in [Warps -> [Registers -> Nat]] BY Zenon DEF CoreInv, Shape
  <1>7. \A v \in Warps : \A pc : Back(v, pc) <=> v = w /\ pc = b BY <1>1, <1>2, Zenon DEF Back
  <1>8. \A v, pc : ~Back(v, pc)' BY <1>4, Zenon DEF Back
  <1>9. \A v \in Warps, pc \in DOMAIN program :
           /\ owed[v][pc] \in Nat /\ Answers(v, pc)' = owed[v][pc]
           /\ Answers(v, pc) = IF v = w /\ pc = b THEN owed[v][pc] + 1 ELSE owed[v][pc]
    BY <1>4, <1>7, <1>8, AnswersNat DEF Answers
  <1>10. /\ program[b].op \in Accessing \cup {"SHLOAD"}
         /\ program[b].op = "SHLOAD" => owed[w][b] = 0
         /\ program[b].op # "SHLOAD" => program[b].acc > 0
    <2>1. \/ program[b].op \in Accessing /\ program[b].acc > 0
          \/ program[b].op = "SHLOAD"
      BY <1>1, <1>2, Zenon DEF CoreInv, AccessInv, Op
    <2>2. b \in PCs /\ owed[w][b] \in Nat BY AnswersNat, Zenon
    <2>3. owed[w][b] > 0 => program[b].op \in Accessing
      BY <2>2, Zenon DEF CoreInv, AccessInv
    <2>4. QED BY <2>1, <2>2, <2>3 DEF Accessing
  <1>11. /\ reg_table' \in [Warps -> SUBSET Registers]
         /\ \A v \in Warps \ {w} : reg_table'[v] = reg_table[v]
         /\ reg_table'[w] = reg_table[w] \ {r \in program[b].out : counts[r] = 0}
    <2>1. reg_table' = [reg_table EXCEPT ![w] =
                           reg_table[w] \ {r \in program[b].out : counts[r] = 0}]
      BY <1>3, Zenon DEF releaseRegisters
    <2>2. reg_table \in [Warps -> SUBSET Registers] BY Zenon DEF CoreInv, Shape
    <2>3. QED BY <2>1, <2>2, Zenon
  <1>12. ASSUME NEW r \in Registers, r \in program[b].out
         PROVE  RegInv(w, r)' /\ counts[r] \in Nat
    <2>1. Answers(w, b) = owed[w][b] + 1 /\ owed[w][b] \in Nat /\ Answers(w, b) > 0
          /\ Answers(w, b)' = owed[w][b]
      BY <1>9
    <2>2. RegInv(w, r) /\ ~RegFree(w, r) BY <1>12, <2>1 DEF CoreInv, WarpInv, RegFree
    <2>3. InstOf(w)' = InstOf(w) BY <1>4, Zenon DEF InstOf
    <2>4. m_pending_writes'[w][r] = counts[r] BY <1>3, <1>6, Zenon
    <2>5. r \in reg_table'[w] <=> r \in reg_table[w] /\ counts[r] # 0 BY <1>11, <1>12, Zenon
    <2>6. /\ \A k : Out(k)' = Out(k)
          /\ \A k : Accounted(k)' = Accounted(k)
      BY <1>4, Zenon DEF Out, Accounted, IsLoad, Op
    <2>7. ASSUME NEW k \in InstOf(w), RegInPipe(w, r, k)
          PROVE  RegInPipe(w, r, k)' /\ counts[r] \in Nat
      <3>1. b = k.pc /\ Accounted(k) BY <1>12, <2>1, <2>7, Zenon DEF RegInPipe
      <3>2. k \in insts /\ Op(k) = program[b].op BY <3>1, Zenon DEF InstOf, Op
      <3>3. Op(k) # "SHLOAD" /\ Op(k) \in Accessing
        BY <3>1, Zenon DEF Accounted, IsLoad, Accessing
      <3>4. k.acc \in Nat BY <3>2, Zenon DEF CoreInv, Shape, Issued
      <3>5. k.acc > 0
        <4>1. k.acc = 0 <=> program[k.pc].acc = 0 BY <3>2, <3>3, Zenon DEF CoreInv, AccessInv
        <4>2. program[k.pc].acc > 0 BY <1>10, <3>1, <3>2, <3>3, Zenon
        <4>3. QED BY <3>4, <4>1, <4>2
      <3>6. m_pending_writes[w][r] = k.acc + (owed[w][b] + 1)
        BY <2>1, <2>7, <3>1, Zenon DEF RegInPipe
      <3>7. counts[r] = m_pending_writes[w][r] - 1 BY <1>5, <1>12, <3>2, <3>3, Zenon
      <3>8. counts[r] = k.acc + owed[w][b] /\ counts[r] > 0
        BY <2>1, <3>4, <3>5, <3>6, <3>7
      <3>9. r \in reg_table'[w] /\ r \in Out(k) /\ \A j \in InstOf(w) : r \in Out(j) => j = k
        BY <2>5, <2>7, <3>8 DEF RegInPipe
      <3>10. \A pc \in DOMAIN program : r \in program[pc].out /\ Answers(w, pc)' > 0 => pc = k.pc
        <4>1. ASSUME NEW pc \in DOMAIN program, r \in program[pc].out, Answers(w, pc)' > 0
              PROVE  pc = k.pc
          <5>1. Answers(w, pc) > 0 BY <1>9, <4>1
          <5>2. QED BY <2>7, <4>1, <5>1, Zenon DEF RegInPipe
        <4>2. QED BY <4>1, Zenon
      <3>11. RegInPipe(w, r, k)'
        BY <1>4, <2>1, <2>3, <2>4, <2>6, <3>1, <3>8, <3>9, <3>10, Zenon DEF RegInPipe
      <3>12. QED BY <2>1, <3>4, <3>8, <3>11
    <2>8. ASSUME NEW pc \in DOMAIN program, RegReturning(w, r, pc)
          PROVE  (RegFree(w, r)' \/ RegReturning(w, r, b)') /\ counts[r] \in Nat
      <3>1. pc = b BY <1>12, <2>1, <2>8, Zenon DEF RegReturning
      <3>2. counts[r] = IF program[b].op = "SHLOAD" THEN 0 ELSE owed[w][b]
        BY <1>5, <1>12, <2>1, <2>8, <3>1 DEF RegReturning
      <3>3. \A qc \in DOMAIN program : r \in program[qc].out /\ qc # b => Answers(w, qc)' = 0
        <4>1. ASSUME NEW qc \in DOMAIN program, r \in program[qc].out, qc # b
              PROVE  Answers(w, qc)' = 0
          <5>1. ~(Answers(w, qc) > 0) BY <2>8, <3>1, <4>1, Zenon DEF RegReturning
          <5>2. QED BY <1>9, <4>1, <5>1
        <4>2. QED BY <4>1, Zenon
      <3>4. r \in reg_table[w] /\ \A k \in InstOf(w)' : r \notin Out(k)
        BY <2>3, <2>8, Zenon DEF RegReturning
      <3>5. CASE owed[w][b] = 0
        <4>1. counts[r] = 0 BY <3>2, <3>5, Zenon
        <4>2. \A qc \in DOMAIN program : r \in program[qc].out => Answers(w, qc)' = 0
          BY <2>1, <3>3, <3>5, Zenon
        <4>3. RegFree(w, r)' BY <1>4, <2>4, <2>5, <2>6, <3>4, <4>1, <4>2, Zenon DEF RegFree
        <4>4. QED BY <4>1, <4>3
      <3>6. CASE owed[w][b] # 0
        <4>1. program[b].op # "SHLOAD" BY <1>10, <3>6, Zenon
        <4>2. counts[r] = owed[w][b] BY <3>2, <4>1, Zenon
        <4>3. owed[w][b] > 0 BY <2>1, <3>6
        <4>4. RegReturning(w, r, b)'
          BY <1>4, <1>12, <2>1, <2>4, <2>5, <2>6, <3>3, <3>4, <3>6, <4>1, <4>2, <4>3
          DEF RegReturning
        <4>5. QED BY <2>1, <4>2, <4>4, Zenon
      <3>7. QED BY <3>5, <3>6, Zenon
    <2>9. QED BY <1>4, <2>2, <2>3, <2>7, <2>8, Zenon DEF RegInv
  <1>13. ASSUME NEW r \in Registers, r \notin program[b].out
         PROVE  RegInv(w, r)' /\ counts[r] \in Nat
    <2>1. counts[r] = m_pending_writes[w][r] BY <1>5, <1>13, Zenon
    <2>2. counts[r] \in Nat BY <1>6, <2>1, Zenon
    <2>3. m_pending_writes'[w][r] = m_pending_writes[w][r] BY <1>3, <1>6, <2>1, Zenon
    <2>4. r \in reg_table'[w] <=> r \in reg_table[w] BY <1>11, <1>13, Zenon
    <2>5. \A pc \in DOMAIN program : r \in program[pc].out => Answers(w, pc)' = Answers(w, pc)
      BY <1>9, <1>13, Zenon
    <2>6. RegInv(w, r) BY Zenon DEF CoreInv, WarpInv
    <2>7. QED BY <1>4, <2>2, <2>3, <2>4, <2>5, <2>6, RegAnswersFrame, Zenon
  <1>14. counts \in [Registers -> Nat]
    <2>1. \A r \in Registers : counts[r] \in Nat BY <1>12, <1>13, Zenon
    <2>2. QED BY <1>3, <1>5, <2>1, Zenon
  <1>15. /\ m_pending_writes' \in [Warps -> [Registers -> Nat]]
         /\ \A v \in Warps \ {w} : m_pending_writes'[v] = m_pending_writes[v]
    BY <1>3, <1>6, <1>14, Zenon
  <1>16. Shape' BY <1>4, <1>11, <1>15, Zenon DEF CoreInv, Shape
  <1>17. \A v : SameInsts(v) /\ SameOwed(v) BY <1>4, Zenon DEF SameInsts, SameOwed, InstOf
  <1>18. OnlyWarp(w)
    <2>1. ASSUME NEW v \in Warps \ {w} PROVE Untouched(v)
      <3>1. \A pc : Back(v, pc)' = Back(v, pc)
        <4>1. \A pc : Back(v, pc)' \in BOOLEAN /\ Back(v, pc) \in BOOLEAN BY Zenon DEF Back
        <4>2. QED BY <1>7, <1>8, <2>1, <4>1, Zenon
      <3>2. SameRegs(v) BY <1>11, <1>15, <1>17, <2>1, <3>1, Zenon DEF SameRegs
      <3>3. QED BY <1>4, <3>2, Zenon DEF Untouched, NoFetch
    <2>2. QED BY <2>1, Zenon DEF OnlyWarp
  <1>19. WarpInv(w)'
    <2>1. WarpInv(w) BY Zenon DEF CoreInv
    <2>2. ControlInv(w)' BY <1>4, <2>1, ControlFrame, Zenon DEF WarpInv, NoFetch
    <2>3. CountInv(w)' /\ FenceInv(w)' /\ AtomicInv(w)' /\ StoreInv(w)'
      BY <1>4, <1>17, <2>1, CountFrame, FenceFrame, AtomicFrame, StoreFrame, Zenon DEF WarpInv
    <2>4. \A r \in Registers : RegInv(w, r)' BY <1>12, <1>13, Zenon
    <2>5. QED BY <2>2, <2>3, <2>4, Zenon DEF WarpInv
  <1>20. \A v \in Warps : WarpInv(v)' BY <1>18, <1>19, WarpsKept, Zenon
  <1>21. SlotInv'
    <2>1. SlotInv BY Zenon DEF CoreInv
    <2>2. \A v \in Warps : reg_table'[v] \subseteq reg_table[v] BY <1>11, Zenon
    <2>3. QED BY <1>4, <2>1, <2>2, SlotFrame, Zenon
  <1>22. KeyInv' /\ RoomInv' /\ BarrierInv'
    BY <1>4, KeyFrame, RoomFrame, BarrierFrame, Zenon DEF CoreInv
  <1>23. AccessInv' BY <1>4, Zenon DEF CoreInv, AccessInv, Op
  <1>24. QED BY <1>16, <1>20, <1>21, <1>22, <1>23, Zenon DEF CoreInv

-----------------------------------------------------------------------------
(* Answers of Ruby. *)

\* One more access of a store is sent.
LEMMA StoreGrow ==
  ASSUME CountingLaws, CoreInv, NEW w \in Warps, NEW pc \in DOMAIN program,
         program[pc].op = "STORE",
         program' = program,
         \A qc \in PCs : owed'[w][qc] = IF qc = pc THEN owed[w][qc] + 1 ELSE owed[w][qc],
         m_warp'[w].stores = m_warp[w].stores + 1
  PROVE  StoreInv(w)'
  <1>. DEFINE S == StoreAccesses(w)
  <1>1. pc \in PCs /\ \A qc \in PCs : owed[w][qc] \in Nat BY AnswersNat DEF CoreInv, Shape
  <1>2. PICK n \in Nat : n = owed[w][pc] BY <1>1, Zenon
  <1>3. S' = S \cup {<<pc, n + 1>>}
    <2>1. ASSUME NEW q \in PCs, NEW k \in Nat
          PROVE  <<q, k>> \in S' <=> <<q, k>> \in S \/ (q = pc /\ k = n + 1)
      <3>1. CASE q = pc BY <1>1, <1>2, <3>1 DEF StoreAccesses
      <3>2. CASE q # pc BY <1>1, <3>2, Zenon DEF StoreAccesses
      <3>3. QED BY <3>1, <3>2, Zenon
    <2>2. S \subseteq PCs \X Nat /\ S' \subseteq PCs \X Nat BY Zenon DEF StoreAccesses
    <2> HIDE DEF S
    <2>3. QED BY <1>1, <2>1, <2>2
  <1>4. <<pc, n + 1>> \notin S BY <1>2 DEF StoreAccesses
  <1>5. IsFiniteSet(S) /\ m_warp[w].stores = Cardinality(S) BY Zenon DEF CoreInv, WarpInv, StoreInv
  <1> HIDE DEF S
  <1>6. IsFiniteSet(S') /\ Cardinality(S') = Cardinality(S) + 1
    BY <1>3, <1>4, <1>5, Zenon DEF CountingLaws, AddLaw
  <1>7. QED BY <1>5, <1>6, Zenon DEF StoreInv, S

\* One is answered.
LEMMA StoreShrink ==
  ASSUME CountingLaws, CoreInv, NEW w \in Warps, NEW pc \in DOMAIN program,
         program[pc].op = "STORE",
         program' = program, owed[w][pc] > 0,
         \A qc \in PCs : owed'[w][qc] = IF qc = pc THEN owed[w][qc] - 1 ELSE owed[w][qc],
         m_warp'[w].stores = m_warp[w].stores - 1
  PROVE  StoreInv(w)'
  <1>. DEFINE S == StoreAccesses(w)
  <1>1. pc \in PCs /\ \A qc \in PCs : owed[w][qc] \in Nat BY AnswersNat DEF CoreInv, Shape
  <1>2. PICK n \in Nat : n = owed[w][pc] BY <1>1, Zenon
  <1>3. S' = S \ {<<pc, n>>}
    <2>1. ASSUME NEW q \in PCs, NEW k \in Nat
          PROVE  <<q, k>> \in S' <=> <<q, k>> \in S /\ ~(q = pc /\ k = n)
      <3>1. CASE q = pc BY <1>1, <1>2, <3>1 DEF StoreAccesses
      <3>2. CASE q # pc BY <1>1, <3>2, Zenon DEF StoreAccesses
      <3>3. QED BY <3>1, <3>2, Zenon
    <2>2. S \subseteq PCs \X Nat /\ S' \subseteq PCs \X Nat BY Zenon DEF StoreAccesses
    <2> HIDE DEF S
    <2>3. QED BY <1>1, <2>1, <2>2
  <1>4. <<pc, n>> \in S BY <1>1, <1>2 DEF StoreAccesses
  <1>5. IsFiniteSet(S) /\ m_warp[w].stores = Cardinality(S) BY Zenon DEF CoreInv, WarpInv, StoreInv
  <1> HIDE DEF S
  <1>6. IsFiniteSet(S') /\ Cardinality(S') = Cardinality(S) - 1
    BY <1>3, <1>4, <1>5, Zenon DEF CountingLaws, RemoveLaw
  <1>7. QED BY <1>5, <1>6, Zenon DEF StoreInv, S

\* An access of a store that is not answered is counted.
LEMMA StoreCounted ==
  ASSUME CountingLaws, CoreInv, NEW w \in Warps, NEW pc \in DOMAIN program,
         program[pc].op = "STORE",
         owed[w][pc] > 0
  PROVE  m_warp[w].stores \in Nat \ {0}
  <1>1. pc \in PCs /\ owed[w][pc] \in Nat BY AnswersNat, Zenon
  <1>2. <<pc, 1>> \in StoreAccesses(w) BY <1>1 DEF StoreAccesses
  <1>3. /\ IsFiniteSet(StoreAccesses(w))
        /\ m_warp[w].stores = Cardinality(StoreAccesses(w))
    BY Zenon DEF CoreInv, WarpInv, StoreInv
  <1>4. QED BY <1>2, <1>3, Zenon DEF CountingLaws, EmptyLaw, CardinalityLaw

\* The accesses of other instructions do not count.
LEMMA StoreOther ==
  ASSUME CoreInv, NEW w \in Warps, program' = program,
         \A qc \in DOMAIN program : program[qc].op = "STORE" => owed'[w][qc] = owed[w][qc],
         m_warp'[w].stores = m_warp[w].stores
  PROVE  StoreInv(w)'
  <1>1. StoreAccesses(w)' = StoreAccesses(w) BY Zenon DEF StoreAccesses
  <1>2. StoreInv(w) BY Zenon DEF CoreInv, WarpInv
  <1>3. QED BY <1>1, <1>2, Zenon DEF StoreInv

\* A step of other accesses leaves the atomic counter exact.
LEMMA AtomicOther ==
  ASSUME CoreInv, NEW w \in Warps, program' = program, insts' = insts,
         \A qc \in DOMAIN program : program[qc].op = "ATOM" => owed'[w][qc] = owed[w][qc],
         m_warp'[w].n_atomic = m_warp[w].n_atomic
  PROVE  AtomicInv(w)'
  <1>1. InstOf(w)' = InstOf(w) /\ \A k : Op(k)' = Op(k) BY Zenon DEF InstOf, Op
  <1>2. AtomicInv(w) BY Zenon DEF CoreInv, WarpInv
  <1>3. \A k \in InstOf(w) : k.pc \in DOMAIN program BY Zenon DEF CoreInv, Shape, InstOf
  <1>4. \A k \in InstOf(w) : Op(k) = "ATOM" => owed'[w][k.pc] = owed[w][k.pc] BY <1>3, Zenon DEF Op
  <1>5. QED BY <1>1, <1>2, <1>4 DEF AtomicInv

\* An access of an atomic is answered.
LEMMA AtomicReply ==
  ASSUME CoreInv, NEW w \in Warps, NEW pc \in DOMAIN program, program[pc].op = "ATOM",
         program' = program, insts' = insts, owed[w][pc] > 0,
         \A qc \in PCs : owed'[w][qc] = IF qc = pc THEN owed[w][qc] - 1 ELSE owed[w][qc],
         m_warp'[w].n_atomic = m_warp[w].n_atomic - 1
  PROVE  AtomicInv(w)' /\ m_warp[w].n_atomic \in Nat \ {0}
  <1>1. InstOf(w)' = InstOf(w) /\ \A k : Op(k)' = Op(k) BY Zenon DEF InstOf, Op
  <1>2. AtomicInv(w) BY Zenon DEF CoreInv, WarpInv
  <1>3. \A qc \in DOMAIN program : qc \in PCs /\ owed[w][qc] \in Nat BY AnswersNat, Zenon
  <1>4. \A k \in InstOf(w) : k.pc \in DOMAIN program /\ k.acc \in Nat
    BY Zenon DEF CoreInv, Shape, InstOf, Issued
  <1>5. m_warp[w].n_atomic \in Nat BY Zenon DEF CoreInv, Shape, WarpStates
  <1>6. ASSUME NEW k \in InstOf(w), Op(k) = "ATOM", k.acc > 0
        PROVE  /\ k.pc = pc /\ m_warp[w].n_atomic = k.acc + owed[w][pc]
               /\ m_warp'[w].n_atomic = k.acc + owed'[w][pc]
    <2>1. k.pc = pc BY <1>2, <1>6, Zenon DEF AtomicInv
    <2>2. m_warp[w].n_atomic = k.acc + owed[w][pc] BY <1>2, <1>6, <2>1, Zenon DEF AtomicInv
    <2>3. owed'[w][pc] = owed[w][pc] - 1 /\ owed[w][pc] \in Nat /\ k.acc \in Nat
      BY <1>3, <1>4, Zenon
    <2>4. QED BY <2>1, <2>2, <2>3
  <1>7. m_warp[w].n_atomic \in Nat \ {0}
    <2>1. CASE m_warp[w].n_atomic = owed[w][pc] BY <1>3, <2>1
    <2>2. CASE \E k \in InstOf(w) : Op(k) = "ATOM" /\ k.acc > 0 BY <1>3, <1>4, <1>6, <2>2
    <2>3. QED BY <1>2, <2>1, <2>2, Zenon DEF AtomicInv
  <1>8. \A qc \in DOMAIN program : owed'[w][qc] > 0 => owed[w][qc] > 0 BY <1>3, Zenon
  <1>9. ASSUME NEW qc \in DOMAIN program, program[qc].op = "ATOM", owed'[w][qc] > 0
        PROVE  /\ qc = pc
               /\ \/ m_warp'[w].n_atomic = owed'[w][qc]
                  \/ \E k \in InstOf(w) : Op(k) = "ATOM" /\ k.acc > 0
    <2>1. qc = pc BY <1>2, <1>8, <1>9, Zenon DEF AtomicInv
    <2>2. owed'[w][pc] = owed[w][pc] - 1 BY <1>3, Zenon
    <2>3. QED BY <1>2, <2>1, <2>2, Zenon DEF AtomicInv
  <1>10. ASSUME NEW k \in InstOf(w), Op(k) = "ATOM", k.acc > 0
         PROVE  \A j \in InstOf(w) : Op(j) = "ATOM" /\ j.acc > 0 => k = j
    BY <1>2, <1>10, Zenon DEF AtomicInv
  <1>11. AtomicInv(w)' BY <1>1, <1>6, <1>9, <1>10 DEF AtomicInv
  <1>12. QED BY <1>7, <1>11, Zenon

\* The counters of a warp that its accesses move.
Counted(u, x, s, a, n) ==
  /\ u \in WarpStates
  /\ u.pc = x.pc /\ u.live = x.live /\ u.imiss = x.imiss /\ u.ibuffer = x.ibuffer
  /\ u.membar = x.membar /\ u.done_exit = x.done_exit
  /\ u.stores = s /\ u.n_atomic = a /\ u.in_pipeline = n

\* The warp's fields after its counters change.
LEMMA CountedUpdate ==
  ASSUME NEW x \in WarpStates, NEW s \in Nat, NEW a \in Nat, NEW n \in Nat
  PROVE  /\ Counted([x EXCEPT !.stores = s, !.n_atomic = a], x, s, a, x.in_pipeline)
         /\ Counted([x EXCEPT !.stores = s, !.in_pipeline = n], x, s, x.n_atomic, n)
  BY Zenon DEF Counted, WarpStates

\* An answer from the memory system keeps CoreInv.
LEMMA ReplyKept ==
  ASSUME CountingLaws, CoreInv, NEW w \in Warps, NEW pc \in DOMAIN program, Reply(w, pc)
  PROVE  CoreInv'
  <1>1. /\ program' = program /\ ctas_left' = ctas_left /\ m_cta_status' = m_cta_status
        /\ m_inst_fetch_buffer' = m_inst_fetch_buffer
        /\ m_warp_active' = m_warp_active /\ UNCHANGED barrierVars /\ arrived' = arrived
        /\ insts' = insts /\ reg_table' = reg_table /\ fences' = fences
        /\ m_pending_writes' = m_pending_writes /\ sm_next_uid' = sm_next_uid
        /\ owed[w][pc] > 0 /\ m_next_wb = None /\ m_next_wb' = [w |-> w, pc |-> pc]
    BY Zenon DEF Reply, frontVars, barrierVars
  <1>2. PICK x : x = m_warp[w] BY Zenon
  <1>3. x \in WarpStates BY <1>2, Zenon DEF CoreInv, Shape
  <1>4. \A qc \in DOMAIN program : qc \in PCs /\ owed[w][qc] \in Nat BY AnswersNat, Zenon
  <1>5. owed \in [Warps -> [PCs -> Nat]] BY Zenon DEF CoreInv, Shape
  <1>6. /\ \A v \in Warps \ {w} : owed'[v] = owed[v]
        /\ \A qc \in PCs : owed'[w][qc] = IF qc = pc THEN owed[w][qc] - 1 ELSE owed[w][qc]
        /\ owed' \in [Warps -> [PCs -> Nat]]
    <2>1. owed' = [owed EXCEPT ![w] = [owed[w] EXCEPT ![pc] = owed[w][pc] - 1]] BY Zenon DEF Reply
    <2>2. owed[w][pc] - 1 \in Nat BY <1>1, <1>4
    <2>3. QED BY <1>4, <1>5, <2>1, <2>2, Zenon
  <1>. DEFINE s == IF program[pc].op = "STORE" THEN x.stores - 1 ELSE x.stores
              a == IF program[pc].op = "ATOM" THEN x.n_atomic - 1 ELSE x.n_atomic
              u == [x EXCEPT !.stores = s, !.n_atomic = a]
  <1>7. m_warp' = [m_warp EXCEPT ![w] = u]
    <2>1. m_warp' = [m_warp EXCEPT
                       ![w].stores = IF program[pc].op = "STORE" THEN @ - 1 ELSE @,
                       ![w].n_atomic = IF program[pc].op = "ATOM" THEN @ - 1 ELSE @]
      BY Zenon DEF Reply
    <2>2. QED BY <1>2, <1>3, <2>1, Zenon DEF CoreInv, Shape, WarpStates
  <1>8. s \in Nat
    <2>1. x.stores \in Nat BY <1>3, Zenon DEF WarpStates
    <2>2. program[pc].op = "STORE" => x.stores \in Nat \ {0} BY <1>1, <1>2, StoreCounted, Zenon
    <2>3. QED BY <2>1, <2>2
  <1>9. a \in Nat
    <2>1. x.n_atomic \in Nat BY <1>3, Zenon DEF WarpStates
    <2>2. program[pc].op = "ATOM" => x.n_atomic \in Nat \ {0}
      BY <1>1, <1>2, AtomicCounted, Zenon
    <2>3. QED BY <2>1, <2>2
  <1>10. Counted(u, x, s, a, x.in_pipeline)
    <2>1. PICK s0 \in Nat, a0 \in Nat : s0 = s /\ a0 = a BY <1>8, <1>9, Zenon
    <2>2. Counted([x EXCEPT !.stores = s0, !.n_atomic = a0], x, s0, a0, x.in_pipeline)
      <3>1. x.in_pipeline \in Nat BY <1>3, Zenon DEF WarpStates
      <3>2. QED BY <1>3, <3>1, CountedUpdate, Zenon
    <2> HIDE DEF s, a
    <2>3. QED BY <2>1, <2>2, Zenon
  <1>11. /\ m_warp' \in [Warps -> WarpStates]
         /\ m_warp'[w] = u
         /\ \A v \in Warps \ {w} : m_warp'[v] = m_warp[v]
    <2> HIDE DEF u
    <2>1. u \in WarpStates BY <1>10, Zenon DEF Counted
    <2>2. QED BY <1>7, <2>1, WarpWrite, Zenon DEF CoreInv, Shape
  <1>12. /\ m_warp'[w].stores = s /\ m_warp'[w].n_atomic = a
         /\ m_warp'[w].in_pipeline = x.in_pipeline /\ m_warp'[w].ibuffer = x.ibuffer
         /\ m_warp'[w].pc = x.pc /\ m_warp'[w].live = x.live /\ m_warp'[w].imiss = x.imiss
         /\ m_warp'[w].membar = x.membar /\ m_warp'[w].done_exit = x.done_exit
    <2> HIDE DEF u, s, a
    <2>1. QED BY <1>10, <1>11, Zenon DEF Counted
  <1> HIDE DEF u
  <1>13. m_next_wb' \in [w : Warps, pc : DOMAIN program] /\ m_next_wb' # None
         /\ m_next_wb'.w = w /\ m_next_wb'.pc = pc
    <2>1. [w |-> w, pc |-> pc] \in [w : Warps, pc : DOMAIN program] BY Zenon
    <2>2. pc \in Nat BY CoreAssumption, Zenon DEF WellFormed, CoreInv, Shape
    <2>3. [w |-> w, pc |-> pc] # None BY <2>2, CoreAssumption
    <2>4. QED BY <1>1, <2>1, <2>3, Zenon
  <1>14. Shape' BY <1>1, <1>6, <1>11, <1>13, Zenon DEF CoreInv, Shape
  <1>15. /\ \A v \in Warps : \A qc : Back(v, qc)' <=> v = w /\ qc = pc
         /\ \A v, qc : ~Back(v, qc)
    BY <1>1, <1>13, Zenon DEF Back
  <1>16. \A v : SameInsts(v) BY <1>1, Zenon DEF SameInsts, InstOf
  <1>17. OnlyWarp(w)
    <2>1. ASSUME NEW v \in Warps \ {w} PROVE Untouched(v)
      <3>1. \A qc : Back(v, qc)' = Back(v, qc)
        <4>1. \A qc : Back(v, qc)' \in BOOLEAN /\ Back(v, qc) \in BOOLEAN BY Zenon DEF Back
        <4>2. QED BY <1>15, <2>1, <4>1, Zenon
      <3>2. SameOwed(v) BY <1>1, <1>6, <2>1, Zenon DEF SameOwed
      <3>3. SameRegs(v) BY <1>1, <1>16, <3>1, <3>2, Zenon DEF SameRegs
      <3>4. QED BY <1>1, <1>11, <2>1, <3>3, Zenon DEF Untouched, NoFetch
    <2>2. QED BY <2>1, Zenon DEF OnlyWarp
  <1>18. \A qc \in DOMAIN program : Answers(w, qc)' = Answers(w, qc)
    <2>1. ASSUME NEW qc \in DOMAIN program PROVE Answers(w, qc)' = Answers(w, qc)
      <3>1. owed[w][qc] \in Nat /\ qc \in PCs BY <1>4, Zenon
      <3>2. CASE qc = pc
        <4>1. Answers(w, qc)' = (owed[w][qc] - 1) + 1 BY <1>6, <1>15, <3>1, <3>2, Zenon DEF Answers
        <4>2. Answers(w, qc) = owed[w][qc] BY <1>15, <3>1 DEF Answers
        <4>3. QED BY <3>1, <4>1, <4>2
      <3>3. CASE qc # pc BY <1>6, <1>15, <3>1, <3>3, Zenon DEF Answers
      <3>4. QED BY <3>2, <3>3, Zenon
    <2>2. QED BY <2>1, Zenon
  <1>19. WarpInv(w)'
    <2>1. WarpInv(w) BY Zenon DEF CoreInv
    <2>2. x.n_atomic \in Nat BY <1>3, Zenon DEF WarpStates
    <2>3. a > 0 => x.n_atomic > 0 BY <1>9, <2>2
    <2>4. ControlInv(w)'
      <3>1. ControlInv(w) BY <2>1, Zenon DEF WarpInv
      <3> HIDE DEF s, a
      <3>2. QED BY <1>1, <1>2, <1>12, <2>3, <3>1, Zenon DEF ControlInv
    <2>5. CountInv(w)' BY <1>2, <1>12, <1>16, <2>1, CountFrame, Zenon DEF WarpInv
    <2>6. FenceInv(w)' BY <1>1, <1>2, <1>12, <1>16, <2>1, FenceFrame, Zenon DEF WarpInv
    <2>7. AtomicInv(w)'
      <3>1. CASE program[pc].op = "ATOM" BY <1>1, <1>2, <1>6, <1>12, <3>1, AtomicReply, Zenon
      <3>2. CASE program[pc].op # "ATOM"
        <4>1. m_warp'[w].n_atomic = m_warp[w].n_atomic BY <1>2, <1>12, <3>2, Zenon
        <4>2. QED BY <1>1, <1>4, <1>6, <3>2, <4>1, AtomicOther, Zenon
      <3>3. QED BY <3>1, <3>2, Zenon
    <2>8. StoreInv(w)'
      <3>1. CASE program[pc].op = "STORE" BY <1>1, <1>2, <1>6, <1>12, <3>1, StoreShrink, Zenon
      <3>2. CASE program[pc].op # "STORE"
        <4>1. m_warp'[w].stores = m_warp[w].stores BY <1>2, <1>12, <3>2, Zenon
        <4>2. QED BY <1>1, <1>4, <1>6, <3>2, <4>1, StoreOther, Zenon
      <3>3. QED BY <3>1, <3>2, Zenon
    <2>9. ASSUME NEW r \in Registers PROVE RegInv(w, r)'
      <3>1. RegInv(w, r) BY <2>1, Zenon DEF WarpInv
      <3>2. QED BY <1>1, <1>18, <3>1, RegAnswersFrame, Zenon
    <2>10. QED BY <2>4, <2>5, <2>6, <2>7, <2>8, <2>9, Zenon DEF WarpInv
  <1>20. \A v \in Warps : WarpInv(v)' BY <1>17, <1>19, WarpsKept, Zenon
  <1>21. SlotInv'
    <2>1. SlotInv BY Zenon DEF CoreInv
    <2>2. ASSUME m_warp[w].done_exit PROVE m_warp'[w].stores = m_warp[w].stores
      <3>1. m_warp[w].stores = 0 BY <2>1, <2>2, Zenon DEF SlotInv, hardware_done
      <3>2. program[pc].op # "STORE" BY <1>1, <3>1, StoreCounted, Zenon
      <3>3. QED BY <1>2, <1>12, <3>2, Zenon
    <2>3. QED BY <1>1, <1>2, <1>11, <1>12, <2>1, <2>2, SlotFrame, Zenon
  <1>22. KeyInv' /\ RoomInv' /\ BarrierInv'
    BY <1>1, KeyFrame, RoomFrame, BarrierFrame, Zenon DEF CoreInv
  <1>23. AccessInv'
    <2>1. \A k : Op(k)' = Op(k) BY <1>1, Zenon DEF Op
    <2>2. AccessInv BY Zenon DEF CoreInv
    <2>3. program[pc].op \in Accessing /\ program[pc].acc > 0
      BY <1>1, <1>4, <2>2, Zenon DEF AccessInv
    <2>4. Op(m_next_wb') \in Accessing /\ program[m_next_wb'.pc].acc > 0
      BY <1>13, <2>3, Zenon DEF Op
    <2>5. \A v \in Warps, qc \in PCs : owed'[v][qc] > 0 => owed[v][qc] > 0
      BY <1>5, <1>6
    <2>6. QED BY <1>1, <2>1, <2>2, <2>4, <2>5, Zenon DEF AccessInv
  <1>24. QED BY <1>14, <1>20, <1>21, <1>22, <1>23, Zenon DEF CoreInv

-----------------------------------------------------------------------------
(* memory_cycle *)

\* Moving an instruction leaves the registers that it does not write alone.
LEMMA ReplacedRegOther ==
  ASSUME CountingLaws, CoreInv, NEW i, NEW j, Replaced(i, j), NEW r \in Registers, r \notin Out(i),
         reg_table'[i.w] = reg_table[i.w],
         m_pending_writes'[i.w][r] = m_pending_writes[i.w][r],
         \A pc \in DOMAIN program : r \in program[pc].out => Answers(i.w, pc)' = Answers(i.w, pc)
  PROVE  RegInv(i.w, r)'
  <1>0. PICK w \in Warps : w = i.w BY ReplacedShape, Zenon
  <1> SUFFICES RegInv(w, r)' BY <1>0, Zenon
  <1>2. i \in InstOf(w) /\ InstOf(w)' = (InstOf(w) \ {i}) \cup {j} BY <1>0, ReplacedInsts, Zenon
  <1>4. program' = program BY Zenon DEF Replaced
  <1>5. /\ \A k : Out(k)' = Out(k)
        /\ \A k : Accounted(k)' = Accounted(k)
        /\ r \notin Out(j)
    BY <1>4, Zenon DEF Out, Accounted, IsLoad, Op, Replaced
  <1>6. RegInv(w, r) BY Zenon DEF CoreInv, WarpInv
  <1>7. /\ reg_table'[w] = reg_table[w]
        /\ m_pending_writes'[w][r] = m_pending_writes[w][r]
        /\ \A pc \in DOMAIN program : r \in program[pc].out => Answers(w, pc)' = Answers(w, pc)
    BY <1>0, Zenon
  <1>9. CASE RegFree(w, r)
    <2>3. RegFree(w, r)' BY <1>2, <1>4, <1>5, <1>7, <1>9, Zenon DEF RegFree
    <2>4. QED BY <2>3, Zenon DEF RegInv
  <1>10. CASE \E pc \in DOMAIN program : RegReturning(w, r, pc)
    <2>1. PICK pc \in DOMAIN program : RegReturning(w, r, pc) BY <1>10, Zenon
    <2>4. RegReturning(w, r, pc)' BY <1>2, <1>4, <1>5, <1>7, <2>1, Zenon DEF RegReturning
    <2>5. QED BY <1>4, <2>1, <2>4, Zenon DEF RegInv
  <1>11. CASE \E k \in InstOf(w) : RegInPipe(w, r, k)
    <2>1. PICK k \in InstOf(w) : RegInPipe(w, r, k) BY <1>11, Zenon
    <2>2. k # i /\ r \in Out(k) BY <2>1, Zenon DEF RegInPipe
    <2>3. k \in insts BY Zenon DEF InstOf
    <2>4. k.pc \in DOMAIN program BY <2>3, Zenon DEF CoreInv, Shape
    <2>5. Answers(w, k.pc)' = Answers(w, k.pc) BY <1>7, <2>2, <2>4, Zenon DEF Out
    <2>6. RegInPipe(w, r, k)' BY <1>2, <1>4, <1>5, <1>7, <2>1, <2>2, <2>5, Zenon DEF RegInPipe
    <2>7. QED BY <1>2, <2>1, <2>2, <2>6, Zenon DEF RegInv
  <1>12. QED BY <1>6, <1>9, <1>10, <1>11, Zenon DEF RegInv

\* An access of instruction i is sent.
Sent(i) ==
  /\ \A v \in Warps \ {i.w} : owed'[v] = owed[v]
  /\ \A qc \in PCs : owed'[i.w][qc] = IF qc = i.pc THEN owed[i.w][qc] + 1 ELSE owed[i.w][qc]
  /\ owed' \in [Warps -> [PCs -> Nat]]
  /\ m_next_wb' = m_next_wb /\ program' = program

\* Sending an access makes one more answer due.
LEMMA SentAnswers ==
  ASSUME CoreInv, NEW i \in insts, Sent(i)
  PROVE  \A qc \in DOMAIN program : 
            Answers(i.w, qc)' = IF qc = i.pc THEN Answers(i.w, qc) + 1 ELSE Answers(i.w, qc)
  <1>0. PICK w \in Warps : w = i.w BY Zenon DEF CoreInv, Shape, Issued
  <1>1. ASSUME NEW qc \in DOMAIN program
        PROVE  Answers(w, qc)' = IF qc = i.pc THEN Answers(w, qc) + 1 ELSE Answers(w, qc)
    <2>1. qc \in PCs /\ owed[w][qc] \in Nat BY AnswersNat, Zenon
    <2>2. Back(w, qc)' <=> Back(w, qc) BY Zenon DEF Back, Sent
    <2>3. owed'[w][qc] = IF qc = i.pc THEN owed[w][qc] + 1 ELSE owed[w][qc]
      BY <1>0, <2>1, Zenon DEF Sent
    <2>4. QED BY <2>1, <2>2, <2>3 DEF Answers
  <1>2. QED BY <1>0, <1>1, Zenon

\* An access of a load is sent, and others remain.
LEMMA SendLoadReg ==
  ASSUME CountingLaws, CoreInv, NEW i, NEW j, Replaced(i, j), Accounted(i), j.at = "EX",
         i.acc > 0, j.acc = i.acc - 1, Sent(i), NEW r \in Registers, r \in Out(i),
         reg_table'[i.w] = reg_table[i.w], m_pending_writes' = m_pending_writes
  PROVE  RegInv(i.w, r)'
  <1>0. PICK w \in Warps : w = i.w BY ReplacedShape, Zenon
  <1> SUFFICES RegInv(w, r)' BY <1>0, Zenon
  <1>1. i.pc \in DOMAIN program /\ i.acc \in Nat /\ i \in insts
    BY ReplacedShape DEF Issued, Replaced
  <1>2. i \in InstOf(w) /\ InstOf(w)' = (InstOf(w) \ {i}) \cup {j} BY <1>0, ReplacedInsts, Zenon
  <1>3. program' = program /\ j.pc = i.pc BY Zenon DEF Replaced
  <1>4. /\ \A k : Out(k)' = Out(k)
        /\ Accounted(j)' /\ Out(j) = Out(i)
    BY <1>3, Zenon DEF Out, Accounted, IsLoad, Op
  <1>5. RegInPipe(w, r, i) BY <1>2, WriterInPipe, Zenon
  <1>6. \A qc \in DOMAIN program : 
            Answers(w, qc)' = IF qc = i.pc THEN Answers(w, qc) + 1 ELSE Answers(w, qc)
    BY <1>0, <1>1, SentAnswers, Zenon
  <1>7. Answers(w, i.pc) \in Nat BY <1>1, AnswersNat, Zenon
  <1>8. m_pending_writes[w][r] = i.acc + Answers(w, i.pc) BY <1>5, Zenon DEF RegInPipe
  <1>9. m_pending_writes'[w][r] = j.acc + Answers(w, i.pc)' BY <1>1, <1>6, <1>7, <1>8
  <1>10. \A qc \in DOMAIN program : r \in program[qc].out /\ Answers(w, qc)' > 0 => qc = i.pc
    BY <1>5, <1>6, Zenon DEF RegInPipe
  <1>11. r \in reg_table'[w] BY <1>0, <1>5, Zenon DEF RegInPipe
  <1>12. \A k \in InstOf(w)' : r \in Out(k) => k = j BY <1>2, <1>5, Zenon DEF RegInPipe
  <1>13. RegInPipe(w, r, j)'
    BY <1>3, <1>4, <1>9, <1>10, <1>11, <1>12, Zenon DEF RegInPipe
  <1>14. QED BY <1>2, <1>13, Zenon DEF RegInv

\* The last one is sent.
LEMMA SendLastReg ==
  ASSUME CountingLaws, CoreInv, NEW i, Gone(i), Accounted(i), i.acc = 1, Sent(i),
         NEW r \in Registers, r \in Out(i),
         reg_table'[i.w] = reg_table[i.w], m_pending_writes' = m_pending_writes
  PROVE  RegInv(i.w, r)'
  <1>0. PICK w \in Warps : w = i.w BY GoneShape, Zenon
  <1> SUFFICES RegInv(w, r)' BY <1>0, Zenon
  <1>1. i.pc \in DOMAIN program /\ i \in insts BY GoneShape, Zenon DEF Gone
  <1>2. i \in InstOf(w) /\ InstOf(w)' = InstOf(w) \ {i} BY <1>0, GoneInsts, Zenon
  <1>3. program' = program BY Zenon DEF Gone
  <1>4. \A k : Out(k)' = Out(k) BY <1>3, Zenon DEF Out
  <1>5. RegInPipe(w, r, i) BY <1>2, WriterInPipe, Zenon
  <1>6. \A qc \in DOMAIN program : 
            Answers(w, qc)' = IF qc = i.pc THEN Answers(w, qc) + 1 ELSE Answers(w, qc)
    BY <1>0, <1>1, SentAnswers, Zenon
  <1>7. Answers(w, i.pc) \in Nat BY <1>1, AnswersNat, Zenon
  <1>8. m_pending_writes[w][r] = 1 + Answers(w, i.pc) BY <1>5, Zenon DEF RegInPipe
  <1>9. m_pending_writes'[w][r] = Answers(w, i.pc)' /\ Answers(w, i.pc)' > 0
    BY <1>1, <1>6, <1>7, <1>8
  <1>10. \A qc \in DOMAIN program : r \in program[qc].out /\ Answers(w, qc)' > 0 => qc = i.pc
    BY <1>5, <1>6, Zenon DEF RegInPipe
  <1>11. r \in reg_table'[w] /\ r \in program[i.pc].out BY <1>0, <1>5, Zenon DEF RegInPipe, Out
  <1>12. \A k \in InstOf(w)' : r \notin Out(k) BY <1>2, <1>5, Zenon DEF RegInPipe
  <1>13. program[i.pc].op # "SHLOAD" BY Zenon DEF Accounted, IsLoad, Op
  <1>14. RegReturning(w, r, i.pc)'
    BY <1>3, <1>4, <1>9, <1>10, <1>11, <1>12, <1>13, Zenon DEF RegReturning
  <1>15. QED BY <1>1, <1>3, <1>14, Zenon DEF RegInv

\* A load without an access has no answer to come.
LEMMA NoAccess ==
  ASSUME CoreInv, NEW i \in insts, Op(i) \in Accessing, i.acc = 0
  PROVE  Answers(i.w, i.pc) = 0
  <1>0. PICK w \in Warps : w = i.w BY Zenon DEF CoreInv, Shape, Issued
  <1>1. i.pc \in DOMAIN program BY Zenon DEF CoreInv, Shape
  <1>2. i.pc \in PCs /\ owed[w][i.pc] \in Nat BY <1>1, AnswersNat, Zenon
  <1>3. program[i.pc].acc = 0 BY Zenon DEF CoreInv, AccessInv
  <1>4. ~(owed[w][i.pc] > 0) BY <1>2, <1>3 DEF CoreInv, AccessInv
  <1>5. ASSUME Back(w, i.pc) PROVE FALSE
    <2>1. m_next_wb # None /\ m_next_wb.pc = i.pc BY <1>5, Zenon DEF Back
    <2>2. Op(m_next_wb) = Op(i) BY <2>1, Zenon DEF Op
    <2>3. QED BY <1>3, <2>1, <2>2 DEF CoreInv, AccessInv, Accessing
  <1>6. QED BY <1>0, <1>2, <1>4, <1>5 DEF Answers

\* The atomics of the warp, with accesses to send, are the same.
LEMMA AtomicKept ==
  ASSUME CoreInv, NEW w \in Warps, program' = program,
         \A k : Op(k) = "ATOM" /\ k.acc > 0 => (k \in InstOf(w)' <=> k \in InstOf(w)),
         \A qc \in DOMAIN program : program[qc].op = "ATOM" => owed'[w][qc] = owed[w][qc],
         m_warp'[w].n_atomic = m_warp[w].n_atomic
  PROVE  AtomicInv(w)'
  <1>1. \A k : Op(k)' = Op(k) BY Zenon DEF Op
  <1>2. AtomicInv(w) BY Zenon DEF CoreInv, WarpInv
  <1>3. \A k \in InstOf(w) : k.pc \in DOMAIN program BY Zenon DEF CoreInv, Shape, InstOf
  <1>4. \A k \in InstOf(w) : Op(k) = "ATOM" => owed'[w][k.pc] = owed[w][k.pc] BY <1>3, Zenon DEF Op
  <1>5. ASSUME NEW k \in InstOf(w)', Op(k) = "ATOM", k.acc > 0
        PROVE  /\ m_warp'[w].n_atomic = k.acc + owed'[w][k.pc]
               /\ \A j \in InstOf(w)' : Op(j) = "ATOM" /\ j.acc > 0 => k = j
               /\ \A pc \in DOMAIN program :
                     program[pc].op = "ATOM" /\ owed'[w][pc] > 0 => pc = k.pc
    <2>1. k \in InstOf(w) BY <1>5, Zenon
    <2>2. QED BY <1>2, <1>4, <1>5, <2>1, Zenon DEF AtomicInv
  <1>6. ASSUME NEW pc \in DOMAIN program, program[pc].op = "ATOM", owed'[w][pc] > 0
        PROVE  /\ \/ m_warp'[w].n_atomic = owed'[w][pc]
                  \/ \E i \in InstOf(w)' : Op(i) = "ATOM" /\ i.acc > 0
               /\ \A qc \in DOMAIN program : program[qc].op = "ATOM" /\ owed'[w][qc] > 0 => qc = pc
    BY <1>2, <1>6, Zenon DEF AtomicInv
  <1>7. QED BY <1>1, <1>5, <1>6, Zenon DEF AtomicInv

\* An access of an atomic is sent.
LEMMA SendAtomic ==
  ASSUME CountingLaws, CoreInv, NEW i \in insts, Op(i) = "ATOM", i.acc > 0, Sent(i),
         m_warp'[i.w].n_atomic = m_warp[i.w].n_atomic,
         \/ Gone(i) /\ i.acc = 1
         \/ \E j : Replaced(i, j) /\ j.acc = i.acc - 1
  PROVE  AtomicInv(i.w)'
  <1>0. PICK w \in Warps : w = i.w BY Zenon DEF CoreInv, Shape, Issued
  <1> SUFFICES AtomicInv(w)' BY <1>0, Zenon
  <1>1. program' = program /\ \A k : Op(k)' = Op(k) BY Zenon DEF Op, Sent
  <1>2. AtomicInv(w) BY Zenon DEF CoreInv, WarpInv
  <1>3. i \in InstOf(w) /\ i.pc \in DOMAIN program /\ i.acc \in Nat
    BY <1>0, Zenon DEF InstOf, CoreInv, Shape, Issued
  <1>4. \A qc \in DOMAIN program : qc \in PCs /\ owed[w][qc] \in Nat BY AnswersNat, Zenon
  <1>5. /\ \A qc \in DOMAIN program : qc # i.pc => owed'[w][qc] = owed[w][qc]
        /\ owed'[w][i.pc] = owed[w][i.pc] + 1
    BY <1>0, <1>3, <1>4, Zenon DEF Sent
  <1>6. /\ m_warp'[w].n_atomic = i.acc + owed[w][i.pc]
        /\ \A k \in InstOf(w) : Op(k) = "ATOM" /\ k.acc > 0 => k = i
        /\ \A pc \in DOMAIN program : program[pc].op = "ATOM" /\ owed[w][pc] > 0 => pc = i.pc
    BY <1>0, <1>2, <1>3, Zenon DEF AtomicInv
  <1>7. \A pc \in DOMAIN program : program[pc].op = "ATOM" /\ owed'[w][pc] > 0 => pc = i.pc
    BY <1>5, <1>6, Zenon
  <1>8. CASE Gone(i) /\ i.acc = 1
    <2>1. InstOf(w)' = InstOf(w) \ {i} BY <1>0, <1>8, GoneInsts, Zenon
    <2>2. \A k \in InstOf(w)' : ~(Op(k) = "ATOM" /\ k.acc > 0) BY <1>6, <2>1, Zenon
    <2>3. m_warp'[w].n_atomic = owed'[w][i.pc] BY <1>3, <1>4, <1>5, <1>6, <1>8
    <2>4. QED BY <1>1, <1>7, <2>2, <2>3, Zenon DEF AtomicInv
  <1>9. ASSUME NEW j, Replaced(i, j), j.acc = i.acc - 1 PROVE AtomicInv(w)'
    <2>1. InstOf(w)' = (InstOf(w) \ {i}) \cup {j} BY <1>0, <1>9, ReplacedInsts, Zenon
    <2>2. \A k \in InstOf(w)' : Op(k) = "ATOM" /\ k.acc > 0 => k = j BY <1>6, <2>1, Zenon
    <2>3. m_warp'[w].n_atomic = j.acc + owed'[w][i.pc] BY <1>3, <1>4, <1>5, <1>6, <1>9
    <2>4. j.pc = i.pc /\ Op(j) = "ATOM" BY <1>9, Zenon DEF Replaced, Op
    <2>5. j.acc > 0 \/ m_warp'[w].n_atomic = owed'[w][i.pc] BY <1>3, <1>4, <1>5, <1>9, <2>3
    <2>6. QED BY <1>1, <1>7, <2>1, <2>2, <2>3, <2>4, <2>5, Zenon DEF AtomicInv
  <1>10. QED BY <1>8, <1>9, Zenon

\* The fields of an instruction after it sends an access.
LEMMA AccUpdate ==
  ASSUME NEW i \in Issued, NEW n \in Nat
  PROVE  LET j == [i EXCEPT !.acc = n]
         IN j \in Issued /\ j.w = i.w /\ j.pc = i.pc /\ j.at = i.at /\ j.uid = i.uid /\ j.acc = n
  BY Zenon DEF Issued

\* The three outcomes of memory_cycle for the instruction.
NoneSent(i) == Gone(i) /\ i.acc = 0 /\ owed' = owed /\ m_next_wb' = m_next_wb

LastSent(i) == Gone(i) /\ i.acc = 1 /\ Sent(i)

OneSent(i, j) ==
  /\ Replaced(i, j) /\ j.at = i.at /\ i.acc > 0 /\ j.acc > 0 /\ j.acc = i.acc - 1
  /\ Sent(i)

\* memory_cycle sends nothing, the last access, or one of several.
LEMMA MemoryOutcomes ==
  ASSUME CoreInv, NEW i \in insts, MemoryCycle(i)
  PROVE  \/ NoneSent(i) \/ LastSent(i)
         \/ \E j : OneSent(i, j)
  <1>1. i \in Issued /\ i.w \in Warps /\ i.acc \in Nat /\ i.pc \in DOMAIN program
    BY Zenon DEF CoreInv, Shape, Issued
  <1>2. i.pc \in PCs /\ owed \in [Warps -> [PCs -> Nat]]
    BY <1>1, AnswersNat, Zenon DEF CoreInv, Shape
  <1>3. program' = program /\ m_next_wb' = m_next_wb BY Zenon DEF MemoryCycle
  <1>4. PICK left : /\ left = IF i.acc > 0 THEN i.acc - 1 ELSE 0
                    /\ insts' = (insts \ {i}) \cup
                                   (IF left > 0 THEN {[i EXCEPT !.acc = left]} ELSE {})
    BY Zenon DEF MemoryCycle
  <1>5. i.acc > 0 => Sent(i)
    <2>1. ASSUME i.acc > 0 PROVE Sent(i)
      <3>1. owed' = [owed EXCEPT ![i.w] = [owed[i.w] EXCEPT ![i.pc] = owed[i.w][i.pc] + 1]]
        BY <2>1, Zenon DEF MemoryCycle
      <3>2. QED BY <1>1, <1>2, <1>3, <3>1 DEF Sent
    <2>2. QED BY <2>1, Zenon
  <1>6. CASE i.acc = 0
    <2>1. insts' = insts \ {i} BY <1>4, <1>6
    <2>2. owed' = owed BY <1>6 DEF MemoryCycle
    <2>3. QED BY <1>3, <1>6, <2>1, <2>2, Zenon DEF NoneSent, Gone
  <1>7. CASE i.acc = 1
    <2>1. insts' = insts \ {i} BY <1>4, <1>7
    <2>2. QED BY <1>3, <1>5, <1>7, <2>1 DEF LastSent, Gone
  <1>8. CASE i.acc > 1
    <2>1. left = i.acc - 1 /\ left > 0 /\ left \in Nat BY <1>1, <1>4, <1>8
    <2>. DEFINE j == [i EXCEPT !.acc = left]
    <2>2. insts' = (insts \ {i}) \cup {j} BY <1>4, <2>1, Zenon
    <2>3. j \in Issued /\ j.w = i.w /\ j.pc = i.pc /\ j.at = i.at /\ j.uid = i.uid /\ j.acc = left
      BY <1>1, <2>1, AccUpdate, Zenon
    <2> HIDE DEF j
    <2>4. OneSent(i, j) BY <1>1, <1>3, <1>5, <1>8, <2>1, <2>2, <2>3 DEF OneSent, Replaced
    <2>5. QED BY <2>4, Zenon
  <1>9. QED BY <1>1, <1>6, <1>7, <1>8

\* What it does to the warp.
LEMMA MemoryWarp ==
  ASSUME CountingLaws, CoreInv, NEW i \in insts, MemoryCycle(i)
  PROVE  \E u : /\ m_warp' = [m_warp EXCEPT ![i.w] = u]
                /\ Counted(u, m_warp[i.w],
                     IF Op(i) = "STORE" /\ i.acc > 0 THEN m_warp[i.w].stores + 1
                                                     ELSE m_warp[i.w].stores,
                     m_warp[i.w].n_atomic,
                     IF i.acc <= 1 THEN m_warp[i.w].in_pipeline - 1 ELSE m_warp[i.w].in_pipeline)
  <1>1. PICK w \in Warps : w = i.w BY Zenon DEF CoreInv, Shape, Issued
  <1>2. PICK x : x = m_warp[w] BY Zenon
  <1>3. x \in WarpStates BY <1>2, Zenon DEF CoreInv, Shape
  <1>4. i.acc \in Nat BY Zenon DEF CoreInv, Shape, Issued
  <1>. DEFINE s == IF Op(i) = "STORE" /\ i.acc > 0 THEN x.stores + 1 ELSE x.stores
              n == IF i.acc <= 1 THEN x.in_pipeline - 1 ELSE x.in_pipeline
              u == [x EXCEPT !.stores = s, !.in_pipeline = n]
  <1>5. s \in Nat BY <1>3 DEF WarpStates
  <1>6. n \in Nat
    <2>1. x.in_pipeline \in Nat \ {0} BY <1>1, <1>2, InFlightUndone, Zenon
    <2>2. QED BY <2>1
  <1>7. m_warp' = [m_warp EXCEPT ![w] = u]
    <2>1. PICK left : 
             /\ left = IF i.acc > 0 THEN i.acc - 1 ELSE 0
             /\ m_warp' = [m_warp EXCEPT
                   ![i.w].stores = IF Op(i) = "STORE" /\ i.acc > 0 THEN @ + 1 ELSE @,
                   ![i.w].in_pipeline = IF left = 0 THEN @ - 1 ELSE @]
      BY Zenon DEF MemoryCycle
    <2>2. left = 0 <=> i.acc <= 1 BY <1>4, <2>1
    <2>3. QED BY <1>1, <1>2, <1>3, <2>1, <2>2, Zenon DEF CoreInv, Shape, WarpStates
  <1>8. Counted(u, x, s, x.n_atomic, n)
    <2>1. PICK s0 \in Nat, n0 \in Nat : s0 = s /\ n0 = n BY <1>5, <1>6, Zenon
    <2>2. Counted([x EXCEPT !.stores = s0, !.in_pipeline = n0], x, s0, x.n_atomic, n0)
      BY <1>3, CountedUpdate, Zenon
    <2> HIDE DEF s, n
    <2>3. QED BY <2>1, <2>2, Zenon
  <1> HIDE DEF u
  <1>9. QED BY <1>1, <1>2, <1>7, <1>8, Zenon

\* The registers: those of a load without accesses are released.
LEMMA MemoryRegs ==
  ASSUME CoreInv, NEW i \in insts, MemoryCycle(i)
  PROVE  /\ reg_table' \in [Warps -> SUBSET Registers]
         /\ \A v \in Warps \ {i.w} : reg_table'[v] = reg_table[v]
         /\ reg_table'[i.w] = IF i.acc = 0 THEN reg_table[i.w] \ Out(i) ELSE reg_table[i.w]
  <1>1. PICK w \in Warps : w = i.w BY Zenon DEF CoreInv, Shape, Issued
  <1>2. reg_table \in [Warps -> SUBSET Registers] BY Zenon DEF CoreInv, Shape
  <1>3. /\ i.acc \in Nat /\ i.pc \in DOMAIN program /\ i \in InstOf(w) /\ i.at = "EX"
        /\ Op(i) \in {"LOAD", "STORE", "ATOM"} /\ program \in Programs
    BY <1>1, Zenon DEF CoreInv, Shape, Issued, InstOf, MemoryCycle
  <1>4. Out(i) \subseteq Registers BY <1>3 DEF Out, Registers
  <1>5. Op(i) = "STORE" => Out(i) = {} BY <1>3, CoreAssumption, Zenon DEF WellFormed, Op, Out
  <1>6. IsLoad(i) => Accounted(i) BY <1>3, Zenon DEF Accounted
  <1>7. ASSUME IsLoad(i), NEW r \in Out(i)
        PROVE  m_pending_writes[w][r] = i.acc + Answers(w, i.pc)
    BY <1>3, <1>4, <1>6, <1>7, WriterInPipe, Zenon DEF RegInPipe
  <1>8. Answers(w, i.pc) \in Nat BY <1>3, AnswersNat, Zenon
  <1>9. reg_table' = releaseRegisters(w, Out(i)) \/ reg_table' = reg_table
    BY <1>1, Zenon DEF MemoryCycle
  <1>10. reg_table'[w] = (IF i.acc = 0 THEN reg_table[w] \ Out(i) ELSE reg_table[w])
    <2>1. CASE Out(i) = {}
      BY <1>2, <1>9, <2>1, Zenon DEF releaseRegisters
    <2>2. CASE Out(i) # {} /\ i.acc > 0
      <3>1. PICK r \in Out(i) : TRUE BY <2>2, Zenon
      <3>2. IsLoad(i) BY <1>3, <1>5, <2>2, Zenon DEF IsLoad
      <3>3. m_pending_writes[w][r] # 0 BY <1>3, <1>7, <1>8, <2>2, <3>1, <3>2
      <3>4. reg_table' = reg_table BY <1>1, <3>1, <3>3, Zenon DEF MemoryCycle
      <3>5. QED BY <2>2, <3>4
    <2>3. CASE Out(i) # {} /\ i.acc = 0
      <3>1. IsLoad(i) BY <1>3, <1>5, <2>3, Zenon DEF IsLoad
      <3>2. Answers(w, i.pc) = 0 BY <1>1, <1>3, <2>3, NoAccess, Zenon DEF Accessing
      <3>3. \A r \in Out(i) : m_pending_writes[i.w][r] = 0 BY <1>1, <1>7, <2>3, <3>1, <3>2
      <3>4. reg_table' = releaseRegisters(w, Out(i)) BY <1>1, <2>3, <3>1, <3>3 DEF MemoryCycle
      <3>5. QED BY <1>2, <2>3, <3>4, Zenon DEF releaseRegisters
    <2>4. QED BY <1>3, <2>1, <2>2, <2>3
  <1>11. /\ reg_table' \in [Warps -> SUBSET Registers]
         /\ \A v \in Warps \ {w} : reg_table'[v] = reg_table[v]
    BY <1>2, <1>9, Zenon DEF releaseRegisters
  <1>12. QED BY <1>1, <1>10, <1>11, Zenon

\* memory_cycle keeps every register of the warp accounted for.
LEMMA MemoryRegInv ==
  ASSUME CountingLaws, CoreInv, NEW i \in insts, MemoryCycle(i), NEW r \in Registers
  PROVE  RegInv(i.w, r)'
  <1>1. PICK w \in Warps : w = i.w BY Zenon DEF CoreInv, Shape, Issued
  <1>2. /\ i.acc \in Nat /\ i.pc \in DOMAIN program /\ i \in InstOf(w) /\ i.at = "EX"
        /\ Op(i) \in {"LOAD", "STORE", "ATOM"} /\ program \in Programs
        /\ m_pending_writes' = m_pending_writes /\ program' = program
    BY <1>1, Zenon DEF CoreInv, Shape, Issued, InstOf, MemoryCycle
  <1>3. Op(i) = "STORE" => Out(i) = {} BY <1>2, CoreAssumption, Zenon DEF WellFormed, Op, Out
  <1>4. r \in Out(i) => Accounted(i) BY <1>2, <1>3, Zenon DEF Accounted, IsLoad
  <1>5. reg_table'[w] = IF i.acc = 0 THEN reg_table[w] \ Out(i) ELSE reg_table[w]
    BY <1>1, MemoryRegs, Zenon
  <1>6. CASE NoneSent(i)
    <2>1. Gone(i) /\ i.acc = 0 BY <1>6, Zenon DEF NoneSent
    <2>2. \A pc : Answers(w, pc)' = Answers(w, pc) BY <1>6, Zenon DEF NoneSent, Answers, Back
    <2>3. CASE r \notin Out(i)
      BY <1>1, <1>2, <1>5, <2>1, <2>2, <2>3, GoneRegOther, Zenon
    <2>4. CASE r \in Out(i)
      <3>1. RegInPipe(w, r, i) BY <1>2, <2>4, WriterInPipe, Zenon
      <3>2. InstOf(w)' = InstOf(w) \ {i} BY <1>1, <2>1, GoneInsts, Zenon
      <3>3. Answers(w, i.pc) = 0 BY <1>1, <1>2, <2>1, NoAccess, Zenon DEF Accessing
      <3>4. \A pc \in DOMAIN program : r \in program[pc].out => Answers(w, pc) = 0
        <4>1. \A pc \in DOMAIN program : Answers(w, pc) \in Nat BY AnswersNat, Zenon
        <4>2. QED BY <3>1, <3>3, <4>1 DEF RegInPipe
      <3>5. m_pending_writes[w][r] = 0
        BY <1>4, <2>1, <2>4, <3>1, <3>3 DEF RegInPipe
      <3>6. \A k \in InstOf(w)' : r \notin Out(k) BY <3>1, <3>2, Zenon DEF RegInPipe
      <3>7. RegFree(w, r)' BY <1>2, <1>5, <2>1, <2>2, <2>4, <3>4, <3>5, <3>6, Zenon DEF RegFree, Out
      <3>8. QED BY <1>1, <3>7, Zenon DEF RegInv
    <2>5. QED BY <2>3, <2>4, Zenon
  <1>7. ASSUME Sent(i), r \notin Out(i), NEW pc \in DOMAIN program, r \in program[pc].out
        PROVE  Answers(w, pc)' = Answers(w, pc)
    <2>1. pc # i.pc BY <1>7, Zenon DEF Out
    <2>2. QED BY <1>1, <1>7, <2>1, SentAnswers, Zenon
  <1>8. CASE LastSent(i)
    <2>1. Gone(i) /\ i.acc = 1 /\ Sent(i) BY <1>8, Zenon DEF LastSent
    <2>2. CASE r \notin Out(i)
      BY <1>1, <1>2, <1>5, <1>7, <2>1, <2>2, GoneRegOther, Zenon
    <2>3. CASE r \in Out(i)
      BY <1>1, <1>2, <1>4, <1>5, <2>1, <2>3, SendLastReg
    <2>4. QED BY <2>2, <2>3, Zenon
  <1>9. ASSUME NEW j, OneSent(i, j) PROVE RegInv(i.w, r)'
    <2>1. Replaced(i, j) /\ j.at = "EX" /\ i.acc > 0 /\ j.acc = i.acc - 1 /\ Sent(i)
      BY <1>2, <1>9, Zenon DEF OneSent
    <2>2. reg_table'[w] = reg_table[w] BY <1>2, <1>5, <2>1
    <2>3. CASE r \notin Out(i)
      BY <1>1, <1>2, <1>7, <2>1, <2>2, <2>3, ReplacedRegOther, Zenon
    <2>4. CASE r \in Out(i)
      BY <1>1, <1>2, <1>4, <2>1, <2>2, <2>4, SendLoadReg, Zenon
    <2>5. QED BY <2>3, <2>4, Zenon
  <1>10. QED BY <1>6, <1>8, <1>9, MemoryOutcomes, Zenon

\* memory_cycle keeps CoreInv.
LEMMA MemoryCycleKept ==
  ASSUME CountingLaws, CoreInv, NEW i \in insts, MemoryCycle(i)
  PROVE  CoreInv'
  <1>1. PICK w \in Warps : w = i.w BY Zenon DEF CoreInv, Shape, Issued
  <1>2. /\ i.acc \in Nat /\ i.pc \in DOMAIN program /\ i \in InstOf(w) /\ i.at = "EX"
        /\ Op(i) \in Accessing /\ program \in Programs
    BY <1>1, Zenon DEF CoreInv, Shape, Issued, InstOf, MemoryCycle, Accessing
  <1>3. /\ program' = program /\ ctas_left' = ctas_left /\ m_cta_status' = m_cta_status
        /\ m_inst_fetch_buffer' = m_inst_fetch_buffer
        /\ m_warp_active' = m_warp_active /\ UNCHANGED barrierVars /\ arrived' = arrived
        /\ m_pending_writes' = m_pending_writes /\ sm_next_uid' = sm_next_uid
        /\ fences' = fences /\ m_next_wb' = m_next_wb
    BY Zenon DEF MemoryCycle, frontVars, barrierVars
  <1>4. PICK x : x = m_warp[w] BY Zenon
  <1>5. PICK u : /\ m_warp' = [m_warp EXCEPT ![w] = u]
                 /\ Counted(u, x, IF Op(i) = "STORE" /\ i.acc > 0 THEN x.stores + 1 ELSE x.stores,
                      x.n_atomic, IF i.acc <= 1 THEN x.in_pipeline - 1 ELSE x.in_pipeline)
    BY <1>1, <1>4, MemoryWarp, Zenon
  <1>6. /\ m_warp' \in [Warps -> WarpStates]
        /\ m_warp'[w] = u
        /\ \A v \in Warps \ {w} : m_warp'[v] = m_warp[v]
    <2>1. u \in WarpStates BY <1>5, Zenon DEF Counted
    <2>2. QED BY <1>5, <2>1, WarpWrite, Zenon DEF CoreInv, Shape
  <1>7. /\ u.pc = x.pc /\ u.live = x.live /\ u.imiss = x.imiss /\ u.ibuffer = x.ibuffer
        /\ u.membar = x.membar /\ u.done_exit = x.done_exit /\ u.n_atomic = x.n_atomic
        /\ u.stores = IF Op(i) = "STORE" /\ i.acc > 0 THEN x.stores + 1 ELSE x.stores
        /\ u.in_pipeline = IF i.acc <= 1 THEN x.in_pipeline - 1 ELSE x.in_pipeline
    BY <1>5, Zenon DEF Counted
  <1>8. /\ reg_table' \in [Warps -> SUBSET Registers]
        /\ \A v \in Warps \ {w} : reg_table'[v] = reg_table[v]
    BY <1>1, MemoryRegs, Zenon
  <1>9. /\ \A v \in Warps \ {w} : owed'[v] = owed[v]
        /\ owed' \in [Warps -> [PCs -> Nat]]
        /\ i.acc = 0 => owed' = owed
        /\ i.acc > 0 => Sent(i)
        /\ InstsShape' /\ KeyInv' /\ RoomInv'
        /\ \A v \in Warps \ {w} : InstOf(v)' = InstOf(v)
    <2>1. ASSUME Gone(i) PROVE InstsShape' /\ KeyInv' /\ RoomInv'
      BY <1>3, <2>1, GoneShape, GoneKey, RoomSmaller, Zenon DEF Gone
    <2>2. CASE NoneSent(i)
      <3>1. Gone(i) /\ i.acc = 0 /\ owed' = owed BY <2>2, Zenon DEF NoneSent
      <3>2. owed \in [Warps -> [PCs -> Nat]] BY Zenon DEF CoreInv, Shape
      <3>3. QED BY <1>1, <2>1, <3>1, <3>2, GoneInsts
    <2>3. CASE LastSent(i)
      <3>1. Gone(i) /\ i.acc = 1 /\ Sent(i) BY <2>3, Zenon DEF LastSent
      <3>2. /\ \A v \in Warps \ {w} : owed'[v] = owed[v]
            /\ owed' \in [Warps -> [PCs -> Nat]]
        BY <1>1, <3>1, Zenon DEF Sent
      <3>3. QED BY <1>1, <2>1, <3>1, <3>2, GoneInsts
    <2>4. ASSUME NEW j, OneSent(i, j)
          PROVE  /\ InstsShape' /\ KeyInv' /\ RoomInv' /\ Sent(i) /\ i.acc > 0
                 /\ \A v \in Warps \ {w} : InstOf(v)' = InstOf(v)
      <3>1. Replaced(i, j) /\ j.at = "EX" /\ i.acc > 0 /\ Sent(i) BY <1>2, <2>4, Zenon DEF OneSent
      <3>2. RoomInv'
        <4>1. PipeOf(Op(i)) = "MEM" BY <1>2, Zenon DEF Accessing, PipeOf, MemOps
        <4>2. At("EX", "MEM") \subseteq {i} BY <1>2, <4>1, Zenon DEF At, CoreInv, RoomInv
        <4>3. QED BY <3>1, <4>2, RoomMove, Zenon
      <3>3. QED BY <1>1, <1>3, <3>1, <3>2, ReplacedShape, ReplacedKey, ReplacedInsts, Zenon
    <2>5. CASE \E j : OneSent(i, j)
      <3>1. /\ InstsShape' /\ KeyInv' /\ RoomInv' /\ Sent(i) /\ i.acc > 0
            /\ \A v \in Warps \ {w} : InstOf(v)' = InstOf(v)
        BY <2>4, <2>5, Zenon
      <3>2. /\ \A v \in Warps \ {w} : owed'[v] = owed[v]
            /\ owed' \in [Warps -> [PCs -> Nat]]
        BY <1>1, <3>1, Zenon DEF Sent
      <3>3. QED BY <3>1, <3>2
    <2>6. QED BY <2>2, <2>3, <2>5, MemoryOutcomes, Zenon
  <1>10. Shape' BY <1>3, <1>6, <1>8, <1>9, Zenon DEF CoreInv, Shape, InstsShape
  <1>11. OnlyWarp(w)
    <2>1. ASSUME NEW v \in Warps \ {w} PROVE Untouched(v)
      <3>1. \A qc : Back(v, qc)' = Back(v, qc) BY <1>3, Zenon DEF Back
      <3>2. SameOwed(v) /\ SameInsts(v) BY <1>3, <1>9, <2>1, Zenon DEF SameOwed, SameInsts
      <3>3. SameRegs(v) BY <1>3, <1>8, <2>1, <3>1, <3>2, Zenon DEF SameRegs
      <3>4. QED BY <1>3, <1>6, <2>1, <3>3, Zenon DEF Untouched, NoFetch
    <2>2. QED BY <2>1, Zenon DEF OnlyWarp
  <1>12. WarpInv(w)'
    <2>1. WarpInv(w) BY Zenon DEF CoreInv
    <2>2. ControlInv(w)'
      <3>1. ControlInv(w) BY <2>1, Zenon DEF WarpInv
      <3>2. QED BY <1>3, <1>4, <1>6, <1>7, <3>1, Zenon DEF ControlInv
    <2>3. \A r \in Registers : RegInv(w, r)' BY <1>1, MemoryRegInv, Zenon
    <2>4. StoreInv(w)'
      <3>1. CASE Op(i) = "STORE" /\ i.acc > 0
        <4>1. Sent(i) BY <1>9, <3>1, Zenon
        <4>2. \A qc \in PCs : owed'[w][qc] = IF qc = i.pc THEN owed[w][qc] + 1 ELSE owed[w][qc]
          BY <1>1, <4>1, Zenon DEF Sent
        <4>3. m_warp'[w].stores = m_warp[w].stores + 1 BY <1>4, <1>6, <1>7, <3>1, Zenon
        <4>4. QED BY <1>2, <1>3, <3>1, <4>2, <4>3, StoreGrow, Zenon DEF Op
      <3>2. CASE ~(Op(i) = "STORE" /\ i.acc > 0)
        <4>1. m_warp'[w].stores = m_warp[w].stores BY <1>4, <1>6, <1>7, <3>2, Zenon
        <4>2. ASSUME NEW qc \in DOMAIN program, program[qc].op = "STORE"
              PROVE  owed'[w][qc] = owed[w][qc]
          <5>1. CASE i.acc = 0 BY <1>9, <5>1, Zenon
          <5>2. CASE i.acc > 0
            <6>1. qc # i.pc /\ qc \in PCs BY <3>2, <4>2, <5>2, AnswersNat, Zenon DEF Op
            <6>2. QED BY <1>1, <1>9, <5>2, <6>1, Zenon DEF Sent
          <5>3. QED BY <1>2, <5>1, <5>2
        <4>3. QED BY <1>3, <4>1, <4>2, StoreOther, Zenon
      <3>3. QED BY <3>1, <3>2, Zenon
    <2>5. m_warp'[i.w].n_atomic = m_warp[i.w].n_atomic
          /\ m_warp'[i.w].membar = m_warp[i.w].membar
          /\ m_warp'[i.w].ibuffer = m_warp[i.w].ibuffer
          /\ m_warp'[i.w].in_pipeline = IF i.acc <= 1 THEN m_warp[i.w].in_pipeline - 1
                                                      ELSE m_warp[i.w].in_pipeline
      BY <1>1, <1>4, <1>6, <1>7, Zenon
    <2>6. CountInv(w)' /\ FenceInv(w)'
      <3>1. ASSUME Gone(i), i.acc <= 1 PROVE CountInv(w)' /\ FenceInv(w)'
        BY <1>1, <1>3, <2>5, <3>1, GoneCount, GoneFence, Zenon
      <3>2. ASSUME NEW j, OneSent(i, j) PROVE CountInv(w)' /\ FenceInv(w)'
        <4>1. Replaced(i, j) /\ ~(i.acc <= 1) BY <1>2, <3>2 DEF OneSent
        <4>2. QED BY <1>1, <1>3, <2>5, <4>1, ReplacedCount, ReplacedFence, Zenon
      <3>3. NoneSent(i) \/ LastSent(i) => Gone(i) /\ i.acc <= 1 BY DEF NoneSent, LastSent
      <3>4. QED BY <3>1, <3>2, <3>3, MemoryOutcomes, Zenon
    <2>7. AtomicInv(w)'
      <3>1. CASE Op(i) = "ATOM" /\ i.acc > 0
        <4>1. Sent(i) BY <1>9, <3>1, Zenon
        <4>2. NoneSent(i) => i.acc = 0 BY Zenon DEF NoneSent
        <4>3. \/ Gone(i) /\ i.acc = 1
              \/ \E j : Replaced(i, j) /\ j.acc = i.acc - 1
          BY <3>1, <4>2, MemoryOutcomes DEF LastSent, OneSent
        <4>4. QED BY <1>1, <2>5, <3>1, <4>1, <4>3, SendAtomic, Zenon
      <3>2. CASE ~(Op(i) = "ATOM" /\ i.acc > 0)
        <4>1. \A k : Op(k) = "ATOM" /\ k.acc > 0 => (k \in InstOf(w)' <=> k \in InstOf(w))
          <5>1. ASSUME Gone(i) 
                PROVE  \A k : Op(k) = "ATOM" /\ k.acc > 0 => (k \in InstOf(w)' <=> k \in InstOf(w))
            BY <1>1, <3>2, <5>1, GoneInsts, Zenon
          <5>2. ASSUME NEW j, OneSent(i, j)
                PROVE  \A k : Op(k) = "ATOM" /\ k.acc > 0 => (k \in InstOf(w)' <=> k \in InstOf(w))
            <6>1. Replaced(i, j) /\ i.acc > 0 BY <5>2, Zenon DEF OneSent
            <6>2. Op(j) # "ATOM" BY <3>2, <6>1, Zenon DEF Op, Replaced
            <6>3. QED BY <1>1, <3>2, <6>1, <6>2, ReplacedInsts
          <5>3. NoneSent(i) \/ LastSent(i) => Gone(i) BY Zenon DEF NoneSent, LastSent
          <5>4. QED BY <5>1, <5>2, <5>3, MemoryOutcomes, Zenon
        <4>2. ASSUME NEW qc \in DOMAIN program, program[qc].op = "ATOM"
              PROVE  owed'[w][qc] = owed[w][qc]
          <5>1. CASE i.acc = 0 BY <1>9, <5>1, Zenon
          <5>2. CASE i.acc > 0
            <6>1. qc # i.pc /\ qc \in PCs BY <3>2, <4>2, <5>2, AnswersNat, Zenon DEF Op
            <6>2. QED BY <1>1, <1>9, <5>2, <6>1, Zenon DEF Sent
          <5>3. QED BY <1>2, <5>1, <5>2
        <4>3. QED BY <1>1, <1>3, <2>5, <4>1, <4>2, AtomicKept, Zenon
      <3>3. QED BY <3>1, <3>2, Zenon
    <2>8. QED BY <2>2, <2>3, <2>4, <2>6, <2>7, Zenon DEF WarpInv
  <1>13. \A v \in Warps : WarpInv(v)' BY <1>11, <1>12, WarpsKept, Zenon
  <1>14. SlotInv'
    <2>1. SlotInv BY Zenon DEF CoreInv
    <2>2. ~m_warp[w].done_exit BY <1>1, InFlightUndone, Zenon
    <2>3. m_warp'[w].done_exit = m_warp[w].done_exit BY <1>4, <1>6, <1>7, Zenon
    <2>4. QED BY <1>3, <1>6, <1>8, <2>1, <2>2, <2>3, SlotFrame, Zenon
  <1>15. BarrierInv' BY <1>3, BarrierFrame, Zenon DEF CoreInv
  <1>16. AccessInv'
    <2>1. \A k : Op(k)' = Op(k) BY <1>3, Zenon DEF Op
    <2>2. AccessInv BY Zenon DEF CoreInv
    <2>3. i.acc = 0 <=> program[i.pc].acc = 0 BY <1>2, <2>2, Zenon DEF AccessInv
    <2>4. program[i.pc].acc \in Nat BY <1>2, CoreAssumption, Zenon DEF WellFormed
    <2>5. ASSUME NEW v \in Warps, NEW qc \in PCs, owed'[v][qc] > 0
          PROVE  qc \in DOMAIN program /\ program[qc].op \in Accessing /\ program[qc].acc > 0
      <3>1. CASE owed[v][qc] > 0 BY <2>2, <3>1, Zenon DEF AccessInv
      <3>2. CASE v = w /\ qc = i.pc /\ i.acc > 0
        BY <1>2, <2>3, <2>4, <3>2 DEF Op
      <3>3. ASSUME ~(v = w /\ qc = i.pc /\ i.acc > 0) PROVE owed'[v][qc] = owed[v][qc]
        <4>1. CASE v # w BY <1>9, <4>1, Zenon
        <4>2. CASE i.acc = 0 BY <1>9, <4>2, Zenon
        <4>3. CASE v = w /\ i.acc > 0 /\ qc # i.pc BY <1>1, <1>9, <4>3, Zenon DEF Sent
        <4>4. QED BY <1>2, <3>3, <4>1, <4>2, <4>3
      <3>4. QED BY <2>5, <3>1, <3>2, <3>3, Zenon
    <2>6. ASSUME NEW k \in insts'
          PROVE  /\ Op(k) \in Accessing => (k.acc = 0 <=> program[k.pc].acc = 0)
                 /\ k.at = "SHARED" => Op(k) = "SHLOAD"
      <3>1. CASE k \in insts BY <2>2, <3>1, Zenon DEF AccessInv
      <3>2. CASE k \notin insts
        <4>1. NoneSent(i) \/ LastSent(i) => insts' \subseteq insts
          BY Zenon DEF NoneSent, LastSent, Gone
        <4>2. PICK j : OneSent(i, j) BY <2>6, <3>2, <4>1, MemoryOutcomes, Zenon
        <4>3. k = j BY <2>6, <3>2, <4>2, Zenon DEF OneSent, Replaced
        <4>4. k.at = "EX" /\ k.acc > 0 /\ i.acc > 0 /\ k.pc = i.pc
          BY <1>2, <4>2, <4>3, Zenon DEF OneSent, Replaced
        <4>5. QED BY <2>3, <2>4, <4>4
      <3>3. QED BY <3>1, <3>2, Zenon
    <2>7. QED BY <1>3, <2>1, <2>2, <2>5, <2>6, Zenon DEF AccessInv
  <1>17. QED BY <1>9, <1>10, <1>13, <1>14, <1>15, <1>16, Zenon DEF CoreInv

=============================================================================
