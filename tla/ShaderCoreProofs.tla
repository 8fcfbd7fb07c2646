-------------------------- MODULE ShaderCoreProofs --------------------------
(***************************************************************************)
(* The invariant of the core holds, and what it says of the core: the safety *)
(* properties that the runs check on small instances.                      *)
(***************************************************************************)
EXTENDS ShaderCoreFrontEnd

-----------------------------------------------------------------------------
(* What the invariant says of the core. *)

\* The invariant implies barrier safety.
LEMMA CoreBarriers ==
  ASSUME CoreInv
  PROVE  BarrierSafe
  <1> SUFFICES ASSUME NEW c \in Ctas, NEW v \in WarpsOf(c) \cap m_warp_active,
                      NEW w \in WarpsOf(c) \cap m_warp_active
               PROVE  Passed(w) <= arrived[v]
    BY Zenon DEF BarrierSafe
  <1>2. v \in Warps /\ w \in Warps /\ CtaOf(v) = CtaOf(w) BY Zenon DEF Warps, WarpsOf, CtaOf
  <1>3. Passed(w) = Passed(v) BY <1>2, Zenon DEF CoreInv, BarrierInv
  <1>4. arrived[v] \in Nat BY <1>2, Zenon DEF CoreInv, Shape
  <1>5. Passed(v) <= arrived[v] BY <1>4 DEF Passed
  <1>6. QED BY <1>3, <1>5, Zenon

\* A set without two different elements has at most one.
LEMMA AtMostOne ==
  ASSUME CountingLaws, NEW S, \A i, j \in S : i = j
  PROVE  Cardinality(S) <= 1
  <1>1. CASE S = {}
    <2>1. Cardinality(S) = 0 BY <1>1, Zenon DEF CountingLaws, EmptyLaw
    <2>2. QED BY <2>1
  <1>2. CASE S # {}
    <2>1. PICK i : S = {i} BY <1>2
    <2>2. Cardinality(S) = 1 BY <2>1, Zenon DEF CountingLaws, SingletonLaw
    <2>3. QED BY <2>2
  <1>3. QED BY <1>1, <1>2, Zenon

\* Arithmetic: a multiple is bounded by the bound of its factor.
LEMMA TimesLess ==
  ASSUME NEW a \in Nat, NEW b \in Nat, NEW k \in 0 .. b
  PROVE  a * k \in 0 .. b * a
  <1>1. PICK d \in Nat : b = k + d
    <2>1. b - k \in Nat /\ b = k + (b - k) OBVIOUS
    <2>2. QED BY <2>1, Zenon
  <1>2. b * a = a * k + a * d BY <1>1
  <1>3. a * k \in Nat /\ a * d \in Nat BY <1>1
  <1>4. QED BY <1>2, <1>3

\* A slot's thread count is within the slot's threads.
LEMMA SlotStatus ==
  ASSUME CountingLaws, CoreInv, NEW c \in Ctas
  PROVE  m_cta_status[c] \in 0 .. WarpsPerCta * WarpSize
  <1>1. IsFiniteSet(WarpsOf(c)) /\ Cardinality(WarpsOf(c)) = WarpsPerCta BY WarpsOfSlot, Zenon
  <1>2. Undone(c) \subseteq WarpsOf(c) BY Zenon DEF Undone
  <1>3. Cardinality(Undone(c)) <= WarpsPerCta BY <1>1, <1>2, Zenon DEF CountingLaws, SubsetLaw
  <1>4. Cardinality(Undone(c)) \in Nat BY UndoneFinite, Zenon
  <1>5. WarpsPerCta \in Nat /\ WarpSize \in Nat BY CoreAssumption, Zenon
  <1>6. Cardinality(Undone(c)) \in 0 .. WarpsPerCta BY <1>3, <1>4, <1>5
  <1>7. WarpSize * Cardinality(Undone(c)) \in 0 .. WarpsPerCta * WarpSize
    BY <1>5, <1>6, TimesLess, Zenon
  <1>8. QED BY <1>7, Zenon DEF CoreInv, SlotInv

\* The invariant implies that pipeline counters are exact.
LEMMA CorePipeline ==
  ASSUME CountingLaws, CoreInv
  PROVE  PipelineCounted
  <1>1. \A w \in Warps : m_warp[w].in_pipeline
                            = Len(m_warp[w].ibuffer) + Cardinality(InstOf(w))
    BY Zenon DEF CoreInv, WarpInv, CountInv
  <1>2. m_cta_status \in [Ctas -> 0 .. WarpsPerCta * WarpSize]
    BY SlotStatus, Zenon DEF CoreInv, Shape
  <1>3. ASSUME NEW w \in Warps
        PROVE  /\ m_warp[w].live \in 0 .. WarpSize
               /\ Len(m_warp[w].ibuffer) <= IBUFFER_SIZE
               /\ {m_warp[w].stores, m_warp[w].in_pipeline, m_warp[w].n_atomic} \subseteq Nat
               /\ reg_table[w] \subseteq Registers
               /\ m_pending_writes[w] \in [Registers -> Nat]
    <2>1. m_warp[w] \in WarpStates BY Zenon DEF CoreInv, Shape
    <2>2. /\ m_warp[w].live \in Nat
          /\ {m_warp[w].stores, m_warp[w].in_pipeline, m_warp[w].n_atomic} \subseteq Nat
      BY <2>1, Zenon DEF WarpStates
    <2>3. m_warp[w].live <= WarpSize /\ Len(m_warp[w].ibuffer) <= IBUFFER_SIZE
      BY Zenon DEF CoreInv, WarpInv, ControlInv
    <2>4. WarpSize \in Nat BY CoreAssumption, Zenon
    <2>5. reg_table[w] \subseteq Registers /\ m_pending_writes[w] \in [Registers -> Nat]
      BY Zenon DEF CoreInv, Shape
    <2>6. QED BY <2>2, <2>3, <2>4, <2>5
  <1>4. ASSUME NEW p \in DOMAIN Units
        PROVE  /\ \A place \in {"ID_OC", "OC_EX"} : Cardinality(At(place, p)) <= 1
               /\ Cardinality(At("CU", p)) <= Units[p]
    <2>1. p \in Pipes BY CoreAssumption, Zenon
    <2>2. ASSUME NEW place \in {"ID_OC", "OC_EX"} PROVE Cardinality(At(place, p)) <= 1
      <3>1. \A i, j \in At(place, p) : i = j BY Zenon DEF CoreInv, RoomInv, At
      <3>2. QED BY <3>1, AtMostOne, Zenon
    <2>3. QED BY <2>1, <2>2, Zenon DEF CoreInv, RoomInv
  <1>5. Cardinality(At("EX", "MEM")) <= 1
    <2>1. \A i, j \in At("EX", "MEM") : i = j BY Zenon DEF CoreInv, RoomInv
    <2>2. QED BY <2>1, AtMostOne, Zenon
  <1>6. /\ ctas_left \in 0 .. Grid
        /\ m_inst_fetch_buffer \in {None} \cup [w : Warps, pc : Nat]
        /\ m_next_wb \in {None} \cup [w : Warps, pc : DOMAIN program]
        /\ m_warp_at_barrier \subseteq m_warp_active
    BY Zenon DEF CoreInv, Shape, BarrierInv
  <1>7. TypeOK BY <1>2, <1>3, <1>4, <1>5, <1>6, Zenon DEF TypeOK
  <1>8. QED BY <1>1, <1>7, Zenon DEF PipelineCounted

\* The instructions that have still to write a register are in the pipeline, or have
\* answers to come.
LEMMA WriterPlaces ==
  ASSUME CoreInv, NEW w \in Warps, NEW r, NEW pc
  PROVE  pc \in Writers(w, r) <=> \/ \E i \in InstOf(w) : pc = i.pc /\ r \in Out(i)
                                  \/ /\ pc \in DOMAIN program /\ r \in program[pc].out
                                     /\ Answers(w, pc) > 0
  <1>1. ASSUME NEW qc \in DOMAIN program
        PROVE  Answers(w, qc) > 0 <=> owed[w][qc] > 0 \/ Back(w, qc)
    <2>1. owed[w][qc] \in Nat BY AnswersNat, Zenon
    <2>2. QED BY <2>1 DEF Answers
  <1>2. m_next_wb # None => m_next_wb.pc \in DOMAIN program BY Zenon DEF CoreInv, Shape
  <1>3. pc \in {b.pc : b \in {x \in {m_next_wb} \ {None} : x.w = w /\ r \in Out(x)}}
           <=> Back(w, pc) /\ r \in program[pc].out
    BY Zenon DEF Back, Out
  <1>4. Back(w, pc) => pc \in DOMAIN program BY <1>2, Zenon DEF Back
  <1>5. pc \in {i.pc : i \in {j \in InstOf(w) : r \in Out(j)}}
           <=> \E i \in InstOf(w) : pc = i.pc /\ r \in Out(i)
    BY Zenon
  <1>6. QED BY <1>1, <1>3, <1>4, <1>5, Zenon DEF Writers

\* The invariant implies that reservations are exact.
LEMMA CoreScoreboard ==
  ASSUME CountingLaws, CoreInv
  PROVE  ScoreboardExact
  <1> SUFFICES ASSUME NEW w \in Warps, NEW r \in Registers
               PROVE  /\ Cardinality(Writers(w, r)) <= 1
                      /\ (r \in reg_table[w]) <=> (Writers(w, r) # {})
    BY Zenon DEF ScoreboardExact
  <1>2. RegInv(w, r) BY Zenon DEF CoreInv, WarpInv
  <1>3. \A i \in InstOf(w) : i.pc \in DOMAIN program /\ Out(i) = program[i.pc].out
    BY Zenon DEF CoreInv, Shape, InstOf, Out
  <1>4. CASE RegFree(w, r)
    <2>1. ASSUME NEW pc \in Writers(w, r) PROVE FALSE
      BY <1>4, WriterPlaces DEF RegFree
    <2>2. Writers(w, r) = {} BY <2>1, Zenon
    <2>3. QED BY <1>4, <2>2, AtMostOne, Zenon DEF RegFree
  <1>5. ASSUME NEW i \in InstOf(w), RegInPipe(w, r, i)
        PROVE  r \in reg_table[w] /\ Writers(w, r) = {i.pc}
    <2>1. \A pc \in Writers(w, r) : pc = i.pc
      BY <1>5, WriterPlaces, Zenon DEF RegInPipe
    <2>2. i.pc \in Writers(w, r) BY <1>5, WriterPlaces, Zenon DEF RegInPipe
    <2>3. QED BY <1>5, <2>1, <2>2, Zenon DEF RegInPipe
  <1>6. ASSUME NEW pc \in DOMAIN program, RegReturning(w, r, pc)
        PROVE  r \in reg_table[w] /\ Writers(w, r) = {pc}
    <2>1. \A qc \in Writers(w, r) : qc = pc
      BY <1>6, WriterPlaces, Zenon DEF RegReturning
    <2>2. pc \in Writers(w, r) BY <1>6, WriterPlaces, Zenon DEF RegReturning
    <2>3. QED BY <1>6, <2>1, <2>2, Zenon DEF RegReturning
  <1>7. CASE \E pc : r \in reg_table[w] /\ Writers(w, r) = {pc}
    <2>1. \A p, q \in Writers(w, r) : p = q BY <1>7, Zenon
    <2>2. QED BY <1>7, <2>1, AtMostOne, Zenon
  <1>8. QED BY <1>2, <1>4, <1>5, <1>6, <1>7, Zenon DEF RegInv

\* A reclaimed warp with nothing outstanding is a reset one, but for its pc.
LEMMA ResetFields ==
  ASSUME NEW x \in WarpStates, ~x.imiss, x.ibuffer = <<>>, x.n_atomic = 0, ~x.membar,
         x.done_exit, x.stores = 0, x.in_pipeline = 0, x.live = 0
  PROVE  [x EXCEPT !.pc = 0, !.next_pc = 0] = ResetWarp
  <1>1. PICK y : y = [x EXCEPT !.pc = 0, !.next_pc = 0] BY Zenon
  <1>2. /\ y \in WarpStates /\ y.pc = 0 /\ y.next_pc = 0 /\ y.live = 0 /\ y.imiss = FALSE
        /\ y.ibuffer = <<>> /\ y.n_atomic = 0 /\ y.membar = FALSE /\ y.done_exit = TRUE
        /\ y.stores = 0 /\ y.in_pipeline = 0
    BY <1>1, Zenon DEF WarpStates
  <1>3. y = ResetWarp BY <1>2, Zenon DEF WarpStates, ResetWarp
  <1>4. QED BY <1>1, <1>3, Zenon

\* A warp of a free slot has no access on its way.
LEMMA NothingOwed ==
  ASSUME CountingLaws, CoreInv, NEW w \in Warps, reg_table[w] = {}, m_warp[w].stores = 0,
         m_warp[w].n_atomic = 0, NEW pc \in PCs
  PROVE  owed[w][pc] = 0
  <1>1. owed[w][pc] \in Nat BY DEF CoreInv, Shape
  <1>2. ASSUME owed[w][pc] > 0 PROVE FALSE
    <2>1. pc \in DOMAIN program /\ program[pc].op \in Accessing
      BY <1>2, Zenon DEF CoreInv, AccessInv
    <2>2. CASE program[pc].op = "STORE"
      <3>1. <<pc, 1>> \in StoreAccesses(w) BY <1>1, <1>2, <2>1, <2>2 DEF StoreAccesses
      <3>2. IsFiniteSet(StoreAccesses(w)) /\ Cardinality(StoreAccesses(w)) = 0
        BY Zenon DEF CoreInv, WarpInv, StoreInv
      <3>3. StoreAccesses(w) = {} BY <3>2, Zenon DEF CountingLaws, EmptyLaw
      <3>4. QED BY <3>1, <3>3, Zenon
    <2>3. CASE program[pc].op = "ATOM"
      <3>1. m_warp[w].n_atomic > 0 BY <1>2, <2>1, <2>3, AtomicCounted, Zenon
      <3>2. QED BY <3>1
    <2>4. CASE program[pc].op = "LOAD"
      <3>1. program \in Programs /\ WellFormed(program) BY CoreAssumption, Zenon DEF CoreInv, Shape
      <3>2. PICK r : r \in program[pc].out BY <2>1, <2>4, <3>1, Zenon DEF WellFormed
      <3>3. r \in Registers BY <2>1, <3>1, <3>2 DEF Registers
      <3>4. RegFree(w, r) BY <3>3, UnreservedFree, Zenon
      <3>5. Answers(w, pc) = 0 BY <2>1, <3>2, <3>4, Zenon DEF RegFree
      <3>6. QED BY <1>1, <1>2, <3>5 DEF Answers
    <2>5. QED BY <2>1, <2>2, <2>3, <2>4, Zenon DEF Accessing
  <1>3. QED BY <1>1, <1>2

\* The asserts of deallocate_barrier: when the last warp of a CTA is reclaimed, none of
\* its warps is active or at a barrier.
LEMMA LastReclaim ==
  ASSUME CountingLaws, CoreInv, NEW w \in Warps,
         Reclaimable(w), m_cta_status[CtaOf(w)] = WarpSize
  PROVE  WarpsOf(CtaOf(w)) \cap (m_warp_active \cup m_warp_at_barrier) = {}
  <1>1. PICK c \in Ctas : c = CtaOf(w) BY Zenon DEF Warps, CtaOf
  <1>2. w \in Undone(c) /\ hardware_done(w)
    BY <1>1, WarpsOfSlot, Zenon DEF Undone, Reclaimable
  <1>3. Undone(c) \ {w} = {}
    <2>1. PICK k \in Nat : k = Cardinality(Undone(c)) BY UndoneFinite, Zenon
    <2>2. WarpSize \in Nat \ {0} BY CoreAssumption, Zenon
    <2>3. WarpSize * k = WarpSize BY <1>1, <2>1, Zenon DEF CoreInv, SlotInv
    <2>4. k # 0 BY <1>2, <2>1, UndoneFinite, Zenon DEF CountingLaws, EmptyLaw
    <2>5. WarpSize * (k - 1) = 0 /\ k - 1 \in Nat BY <2>2, <2>3, <2>4, OneTimesLess
    <2>6. k - 1 = 0 BY <2>2, <2>5, TimesZero, Zenon
    <2>7. /\ IsFiniteSet(Undone(c) \ {w})
          /\ Cardinality(Undone(c) \ {w}) = k - 1
      BY <1>2, <2>1, UndoneFinite, Zenon DEF CountingLaws, RemoveLaw
    <2>8. QED BY <2>6, <2>7, Zenon DEF CountingLaws, EmptyLaw
  <1>4. ASSUME NEW v \in WarpsOf(c) PROVE v \notin m_warp_active
    <2>1. v \in Warps BY WarpsOfSlot, Zenon
    <2>2. v = w \/ m_warp[v].done_exit BY <1>3, Zenon DEF Undone
    <2>3. m_warp[v].live = 0
      BY <1>2, <2>1, <2>2, Zenon DEF CoreInv, SlotInv, hardware_done, functional_done
    <2>4. ControlInv(v) BY <2>1, Zenon DEF CoreInv, WarpInv
    <2>5. QED BY <2>3, <2>4 DEF ControlInv
  <1>5. m_warp_at_barrier \subseteq m_warp_active BY Zenon DEF CoreInv, BarrierInv
  <1>6. QED BY <1>1, <1>4, <1>5, Zenon

\* The invariant implies that a slot is freed and stays clean.
LEMMA CoreSlots ==
  ASSUME CountingLaws, CoreInv
  PROVE  CleanSlots
  <1> SUFFICES ASSUME NEW w \in Warps, m_cta_status[CtaOf(w)] = 0
               PROVE  /\ [m_warp[w] EXCEPT !.pc = 0, !.next_pc = 0] = ResetWarp
                      /\ InstOf(w) = {} /\ reg_table[w] = {}
                      /\ \A pc \in PCs : owed[w][pc] = 0
                      /\ \A r \in Registers : m_pending_writes[w][r] = 0
                      /\ w \notin fences
                      /\ m_inst_fetch_buffer # None => m_inst_fetch_buffer.w # w
    BY LastReclaim, Zenon DEF CleanSlots
  <1>2. PICK x : x = m_warp[w] BY Zenon
  <1>3. x \in WarpStates BY <1>2, Zenon DEF CoreInv, Shape
  <1>4. /\ x.done_exit /\ x.live = 0 /\ x.stores = 0 /\ x.in_pipeline = 0
        /\ reg_table[w] = {}
    <2>1. CtaOf(w) \in Ctas BY Zenon DEF Warps, CtaOf
    <2>2. w \in WarpsOf(CtaOf(w)) BY <2>1, WarpsOfSlot, Zenon
    <2>3. QED BY <1>2, <2>1, <2>2, FreeSlot, Zenon
  <1>5. x.ibuffer = <<>> /\ InstOf(w) = {}
    <2>1. x.in_pipeline = Len(x.ibuffer) + Cardinality(InstOf(w))
      BY <1>2, Zenon DEF CoreInv, WarpInv, CountInv
    <2>2. IsFiniteSet(InstOf(w)) /\ Cardinality(InstOf(w)) \in Nat BY InstsFinite, Zenon
    <2>3. x.ibuffer \in Seq(Nat) /\ Len(x.ibuffer) \in Nat BY <1>3 DEF WarpStates
    <2>4. Len(x.ibuffer) = 0 /\ Cardinality(InstOf(w)) = 0 BY <1>4, <2>1, <2>2, <2>3
    <2>5. InstOf(w) = {} BY <2>2, <2>4, Zenon DEF CountingLaws, EmptyLaw
    <2>6. x.ibuffer = <<>> BY <2>3, <2>4
    <2>7. QED BY <2>5, <2>6, Zenon
  <1>6. /\ ~x.imiss /\ ~x.membar /\ x.n_atomic = 0
        /\ m_inst_fetch_buffer # None => m_inst_fetch_buffer.w # w
    <2>1. ControlInv(w) BY Zenon DEF CoreInv, WarpInv
    <2>2. ~(x.live > 0) BY <1>4
    <2>3. x.n_atomic \in Nat BY <1>3, Zenon DEF WarpStates
    <2>4. QED BY <1>2, <2>1, <2>2, <2>3 DEF ControlInv
  <1>7. [m_warp[w] EXCEPT !.pc = 0, !.next_pc = 0] = ResetWarp
    <2>1. [x EXCEPT !.pc = 0, !.next_pc = 0] = ResetWarp
      BY <1>3, <1>4, <1>5, <1>6, ResetFields, Zenon
    <2>2. QED BY <1>2, <2>1, Zenon
  <1>8. \A pc \in PCs : owed[w][pc] = 0 BY <1>2, <1>4, <1>6, NothingOwed, Zenon
  <1>9. \A r \in Registers : m_pending_writes[w][r] = 0
    BY <1>4, UnreservedFree, Zenon DEF RegFree
  <1>10. w \notin fences BY <1>2, <1>6, Zenon DEF CoreInv, WarpInv, FenceInv
  <1>11. QED BY <1>4, <1>5, <1>6, <1>7, <1>8, <1>9, <1>10, Zenon

-----------------------------------------------------------------------------
(* The inductive invariant holds. *)

\* A step that changes nothing keeps CoreInv.
LEMMA StutterKept ==
  ASSUME CoreInv, UNCHANGED vars
  PROVE  CoreInv'
  <1> USE DEF vars, frontVars, barrierVars, memVars
  <1>1. Shape' BY Zenon DEF CoreInv, Shape
  <1>2. KeyInv' /\ RoomInv' /\ AccessInv' /\ BarrierInv'
    BY KeyFrame, RoomFrame, AccessFrame, BarrierFrame, Zenon DEF CoreInv
  <1>3. SlotInv'
    <2>1. SlotInv /\ m_cta_status' = m_cta_status /\ reg_table' = reg_table
          /\ m_warp' = m_warp
      BY Zenon DEF CoreInv
    <2>2. QED BY <2>1, SlotFrame, Zenon
  <1>4. ASSUME NEW w \in Warps PROVE WarpInv(w)'
    <2>1. SameRegs(w) BY Zenon DEF SameRegs, SameInsts, SameOwed, InstOf, Back
    <2>2. Untouched(w) BY <2>1, Zenon DEF Untouched, NoFetch
    <2>3. QED BY <2>2, OtherWarp, Zenon DEF CoreInv
  <1>5. QED BY <1>1, <1>2, <1>3, <1>4, Zenon DEF CoreInv

\* Every step of the core keeps CoreInv.
LEMMA NextKept ==
  ASSUME CountingLaws, CoreInv, [Next]_vars
  PROVE  CoreInv'
  <1>1. CASE IssueBlock BY <1>1, IssueBlockKept, Zenon
  <1>2. CASE Decode BY <1>2, DecodeKept, Zenon
  <1>3. ASSUME NEW w \in Warps, Reclaim(w) PROVE CoreInv' BY <1>3, ReclaimKept, Zenon
  <1>4. ASSUME NEW w \in Warps, FlushBuffer(w) PROVE CoreInv' BY <1>4, FlushBufferKept, Zenon
  <1>5. ASSUME NEW w \in Warps, Issue(w) PROVE CoreInv' BY <1>5, IssueKept, Zenon
  <1>6. ASSUME NEW w \in Warps, FenceReply(w) PROVE CoreInv' BY <1>6, FenceReplyKept, Zenon
  <1>7. ASSUME NEW i \in insts, AllocateCU(i) PROVE CoreInv' BY <1>7, AllocateCUKept, Zenon
  <1>8. ASSUME NEW i \in insts, DispatchCU(i) PROVE CoreInv' BY <1>8, DispatchCUKept
  <1>9. ASSUME NEW i \in insts, IssueToUnit(i) PROVE CoreInv' BY <1>9, IssueToUnitKept, Zenon
  <1>10. ASSUME NEW i \in insts, Writeback(i) PROVE CoreInv' BY <1>10, WritebackKept, Zenon
  <1>11. ASSUME NEW i \in insts, MemoryCycle(i) PROVE CoreInv' BY <1>11, MemoryCycleKept, Zenon
  <1>12. ASSUME NEW i \in insts, SharedCycle(i) PROVE CoreInv' BY <1>12, SharedCycleKept, Zenon
  <1>13. ASSUME NEW i \in insts, MembarCycle(i) PROVE CoreInv' BY <1>13, MembarCycleKept, Zenon
  <1>14. ASSUME NEW i \in insts, SharedReply(i) PROVE CoreInv' BY <1>14, SharedReplyKept, Zenon
  <1>15. ASSUME NEW w \in Warps, NEW pc \in DOMAIN program, Reply(w, pc) PROVE CoreInv'
    BY <1>15, ReplyKept, Zenon
  <1>16. CASE LdstWriteback BY <1>16, LdstWritebackKept
  <1>17. ASSUME NEW w \in Warps, FetchHit(w) PROVE CoreInv' BY <1>17, FetchHitKept, Zenon
  <1>18. ASSUME NEW w \in Warps, FetchMiss(w) PROVE CoreInv' BY <1>18, FetchMissKept, Zenon
  <1>19. ASSUME NEW w \in Warps, FetchFill(w) PROVE CoreInv' BY <1>19, FetchFillKept, Zenon
  <1>20. CASE UNCHANGED vars BY <1>20, StutterKept, Zenon
  <1>21. CASE Pipeline
    BY <1>7, <1>8, <1>9, <1>10, <1>11, <1>12, <1>13, <1>14, <1>21, Zenon DEF Pipeline
  <1>22. CASE Progress
    BY <1>1, <1>2, <1>3, <1>4, <1>5, <1>6, <1>15, <1>16, <1>21, <1>22, Zenon DEF Progress
  <1>23. QED BY <1>17, <1>18, <1>19, <1>20, <1>22, Zenon DEF Next

-----------------------------------------------------------------------------
(* The laws of counting are theorems about finite sets. *)
INSTANCE FiniteSetTheorems

\* The step lemmas may therefore be used without a hypothesis on cardinalities.
LEMMA CountingHolds == CountingLaws
  <1>1. CardinalityLaw BY FS_CardinalityType, Zenon DEF CardinalityLaw
  <1>2. EmptyLaw BY FS_EmptySet, Zenon DEF EmptyLaw
  <1>3. SingletonLaw BY FS_Singleton, Zenon DEF SingletonLaw
  <1>4. AddLaw BY FS_AddElement, Zenon DEF AddLaw
  <1>5. RemoveLaw BY FS_RemoveElement, Zenon DEF RemoveLaw
  <1>6. SubsetLaw BY FS_Subset, Zenon DEF SubsetLaw
  <1>7. IntervalLaw BY FS_Interval DEF IntervalLaw
  <1>8. ProductLaw BY FS_Product, Zenon DEF ProductLaw
  <1>9. ImageLaw
    <2>1. SUFFICES ASSUME NEW S, NEW f, IsFiniteSet(S), \A x, y \in S : f[x] = f[y] => x = y
                   PROVE  /\ IsFiniteSet({f[x] : x \in S})
                          /\ Cardinality({f[x] : x \in S}) = Cardinality(S)
      BY Zenon DEF ImageLaw
    <2>2. PICK g : g = [x \in S |-> f[x]] BY Zenon
    <2>3. g \in Bijection(S, {f[x] : x \in S})
      BY <2>1, <2>2 DEF Bijection, Injection, Surjection, IsInjective
    <2>4. QED BY <2>1, <2>3, FS_Bijection, Zenon DEF ExistsBijection
  <1>10. QED BY <1>1, <1>2, <1>3, <1>4, <1>5, <1>6, <1>7, <1>8, <1>9 DEF CountingLaws

\* The inductive invariant of the core: the pipeline, the scoreboard, the counters of
\* fences, atomics and stores, the barriers and the CTA slots are consistent in every
\* reachable state, for every number of slots, warps, threads and collector units and
\* every well-formed kernel.
THEOREM CoreInvariant == Spec => []CoreInv
  <1>1. Init => CoreInv BY InitKept, CountingHolds, Zenon
  <1>2. CoreInv /\ [Next]_vars => CoreInv' BY NextKept, CountingHolds, Zenon
  <1>3. QED BY <1>1, <1>2, PTL DEF Spec

-----------------------------------------------------------------------------
(* The invariants of the core. *)

\* The barrier of a CTA: no warp gets past a barrier that another live warp of its CTA
\* has not reached (warp_reaches_barrier, warp_exit).
THEOREM BarriersAreSafe == Spec => []BarrierSafe
  <1>1. CoreInv => BarrierSafe BY CoreBarriers, Zenon
  <1>2. QED BY <1>1, CoreInvariant, PTL

\* m_inst_in_pipeline is exact, also across flushes; no register set of the pipeline is
\* overrun and no counter goes below zero (inc_inst_in_pipeline, dec_inst_in_pipeline,
\* ibuffer_flush, the register_set and collector unit allocation).
THEOREM PipelineIsCounted == Spec => []PipelineCounted
  <1>1. CoreInv => PipelineCounted BY CorePipeline, CountingHolds, Zenon
  <1>2. QED BY <1>1, CoreInvariant, PTL

\* The scoreboard: a register is reserved exactly as long as one issued instruction has
\* still to write it (reserveRegisters, releaseRegisters, the m_pending_writes of the
\* load/store unit).
THEOREM ScoreboardIsExact == Spec => []ScoreboardExact
  <1>1. CoreInv => ScoreboardExact BY CoreScoreboard, CountingHolds, Zenon
  <1>2. QED BY <1>1, CoreInvariant, PTL

\* Reclaiming a CTA slot: when its last warp is reclaimed no warp of the CTA runs or waits
\* at a barrier, and a free slot has nothing of its last CTA left in the core
\* (register_cta_thread_exit, hardware_done, the asserts of deallocate_barrier and of
\* shd_warp_t::reset).
THEOREM FreeSlotsAreClean == Spec => []CleanSlots
  <1>1. CoreInv => CleanSlots BY CoreSlots, CountingHolds, Zenon
  <1>2. QED BY <1>1, CoreInvariant, PTL

=============================================================================
