------------------------- MODULE ShaderCoreFrontEnd -------------------------
(***************************************************************************)
(* The steps of the front end keep the invariant of the core: fetch, decode, *)
(* issue, the launch of a CTA and the reclaiming of a warp.                *)
(***************************************************************************)
EXTENDS ShaderCoreBackEnd

-----------------------------------------------------------------------------
(* What a step keeps that concerns one warp and the fetch buffer. *)

\* Nothing but m_warp[w] and the fetch buffer changes.
BackEndSame ==
  UNCHANGED <<program, ctas_left, m_cta_status, reg_table, barrierVars, insts, memVars,
              sm_next_uid>>

\* A step of the front end has to re-establish control and count of one warp only.
LEMMA BackEndFrame ==
  ASSUME CoreInv, BackEndSame, NEW w \in Warps,
         NEW u \in WarpStates, m_warp' = [m_warp EXCEPT ![w] = u],
         m_inst_fetch_buffer' \in {None} \cup [w : {w}, pc : Nat] \cup {m_inst_fetch_buffer},
         u.done_exit = m_warp[w].done_exit, ~u.done_exit,
         u.membar = m_warp[w].membar, u.n_atomic = m_warp[w].n_atomic,
         u.stores = m_warp[w].stores,
         ControlInv(w)', CountInv(w)'
  PROVE  CoreInv'
  <1> USE DEF BackEndSame, barrierVars, memVars
  <1>1. /\ m_warp' \in [Warps -> WarpStates]
        /\ m_warp'[w] = u
        /\ \A v \in Warps \ {w} : m_warp'[v] = m_warp[v]
    BY WarpWrite, Zenon DEF CoreInv, Shape
  <1>2. Shape' BY <1>1, Zenon DEF CoreInv, Shape
  <1>3. \A v \in Warps : SameRegs(v) BY Zenon DEF SameRegs, SameInsts, SameOwed, InstOf, Back
  <1>4. ASSUME NEW v \in Warps \ {w} PROVE Untouched(v)
    <2>1. NoFetch(v) BY <1>4, Zenon DEF NoFetch, CoreInv, Shape
    <2>2. QED BY <1>1, <1>3, <2>1, <1>4, Zenon DEF Untouched
  <1>5. WarpInv(w)'
    <2>1. SameInsts(w) /\ SameOwed(w) BY <1>3, Zenon DEF SameRegs
    <2>2. FenceInv(w)' BY <1>1, <2>1, FenceFrame, Zenon DEF CoreInv, WarpInv
    <2>3. AtomicInv(w)' BY <1>1, <2>1, AtomicFrame, Zenon DEF CoreInv, WarpInv
    <2>4. StoreInv(w)' BY <1>1, <2>1, StoreFrame, Zenon DEF CoreInv, WarpInv
    <2>5. \A r \in Registers : RegInv(w, r)' BY <1>3, RegFrame, Zenon DEF CoreInv, WarpInv
    <2>6. QED BY <2>2, <2>3, <2>4, <2>5, Zenon DEF WarpInv
  <1>6. \A v \in Warps : WarpInv(v)' BY <1>4, <1>5, WarpsKept, Zenon DEF OnlyWarp
  <1>7. SlotInv'
    <2>1. SlotInv /\ m_cta_status' = m_cta_status /\ reg_table' = reg_table BY Zenon DEF CoreInv
    <2>2. QED BY <1>1, <2>1, SlotFrame, Zenon
  <1>8. KeyInv' /\ RoomInv' /\ AccessInv' /\ BarrierInv'
    BY KeyFrame, RoomFrame, AccessFrame, BarrierFrame, Zenon DEF CoreInv
  <1>9. QED BY <1>2, <1>6, <1>7, <1>8, Zenon DEF CoreInv

\* A warp with live threads has not been reclaimed.
LEMMA LiveUndone ==
  ASSUME CoreInv, NEW w \in Warps, m_warp[w].live > 0
  PROVE  ~m_warp[w].done_exit
  BY DEF CoreInv, SlotInv, hardware_done, functional_done, Shape, WarpStates

-----------------------------------------------------------------------------
(* Fetch and decode. *)

\* The buffer of a warp is filled or flushed.
Buffered(u, x, s, n) ==
  /\ u \in WarpStates /\ u.imiss = x.imiss /\ u.in_pipeline = n
  /\ u.pc = x.pc /\ u.live = x.live /\ u.ibuffer = s
  /\ u.n_atomic = x.n_atomic /\ u.membar = x.membar /\ u.done_exit = x.done_exit
  /\ u.stores = x.stores

\* The warp's fields after a change of its instruction buffer.
LEMMA BufferUpdate ==
  ASSUME NEW x \in WarpStates, NEW s \in Seq(Nat), NEW n \in Nat, NEW pc \in Nat
  PROVE  /\ Buffered([x EXCEPT !.ibuffer = s, !.in_pipeline = n], x, s, n)
         /\ Buffered([[x EXCEPT !.ibuffer = s, !.in_pipeline = n] EXCEPT !.next_pc = pc],
                     x, s, n)
  BY Zenon DEF WarpStates, Buffered

\* An instruction cache miss keeps CoreInv.
LEMMA FetchMissKept ==
  ASSUME CoreInv, NEW w \in Warps, FetchMiss(w)
  PROVE  CoreInv'
  <1>. DEFINE x == m_warp[w]
              u == [x EXCEPT !.imiss = TRUE]
  <1>1. x \in WarpStates BY Zenon DEF CoreInv, Shape
  <1>2. /\ u \in WarpStates /\ u.imiss = TRUE
        /\ u.pc = x.pc /\ u.live = x.live /\ u.ibuffer = x.ibuffer
        /\ u.n_atomic = x.n_atomic /\ u.membar = x.membar /\ u.done_exit = x.done_exit
        /\ u.stores = x.stores /\ u.in_pipeline = x.in_pipeline
    BY <1>1, Zenon DEF WarpStates
  <1>3. m_warp' = [m_warp EXCEPT ![w] = u] BY Zenon DEF FetchMiss
  <1> HIDE DEF u
  <1>4. m_warp'[w] = u BY <1>3, <1>2, Zenon DEF CoreInv, Shape
  <1>5. /\ x.live > 0 /\ x.ibuffer = <<>> /\ m_inst_fetch_buffer = None
        /\ m_inst_fetch_buffer' = None
    BY <1>1 DEF FetchMiss, NeedsFetch, functional_done, frontVars, WarpStates
  <1>6. BackEndSame BY Zenon DEF BackEndSame, FetchMiss, frontVars
  <1>7. ControlInv(w)'
    BY <1>2, <1>4, <1>5, <1>6, Zenon DEF CoreInv, WarpInv, ControlInv, BackEndSame, barrierVars
  <1>8. CountInv(w)'
    <2>1. SameInsts(w) BY <1>6, Zenon DEF SameInsts, InstOf, BackEndSame
    <2>2. CountInv(w) BY Zenon DEF CoreInv, WarpInv
    <2>3. QED BY <1>2, <1>4, <2>1, <2>2, CountFrame, Zenon
  <1>9. ~u.done_exit BY <1>2, <1>5, LiveUndone, Zenon
  <1>10. QED BY <1>2, <1>3, <1>5, <1>6, <1>7, <1>8, <1>9, BackEndFrame, Zenon

\* An instruction cache fill keeps CoreInv.
LEMMA FetchFillKept ==
  ASSUME CoreInv, NEW w \in Warps, FetchFill(w)
  PROVE  CoreInv'
  <1>. DEFINE x == m_warp[w]
              u == [x EXCEPT !.imiss = FALSE]
  <1>1. x \in WarpStates BY Zenon DEF CoreInv, Shape
  <1>2. /\ u \in WarpStates /\ u.imiss = FALSE
        /\ u.pc = x.pc /\ u.live = x.live /\ u.ibuffer = x.ibuffer
        /\ u.n_atomic = x.n_atomic /\ u.membar = x.membar /\ u.done_exit = x.done_exit
        /\ u.stores = x.stores /\ u.in_pipeline = x.in_pipeline
    BY <1>1, Zenon DEF WarpStates
  <1>3. m_warp' = [m_warp EXCEPT ![w] = u] BY Zenon DEF FetchFill
  <1> HIDE DEF u
  <1>4. m_warp'[w] = u BY <1>3, <1>2, Zenon DEF CoreInv, Shape
  <1>5. x.live > 0 /\ m_inst_fetch_buffer' = m_inst_fetch_buffer
    BY Zenon DEF FetchFill, frontVars, CoreInv, WarpInv, ControlInv
  <1>6. BackEndSame BY Zenon DEF BackEndSame, FetchFill, frontVars
  <1>7. ControlInv(w)'
    BY <1>2, <1>4, <1>5, <1>6, Zenon DEF CoreInv, WarpInv, ControlInv, BackEndSame, barrierVars
  <1>8. CountInv(w)'
    <2>1. SameInsts(w) BY <1>6, Zenon DEF SameInsts, InstOf, BackEndSame
    <2>2. CountInv(w) BY Zenon DEF CoreInv, WarpInv
    <2>3. QED BY <1>2, <1>4, <2>1, <2>2, CountFrame, Zenon
  <1>9. ~u.done_exit BY <1>2, <1>5, LiveUndone, Zenon
  <1>10. QED BY <1>2, <1>3, <1>5, <1>6, <1>7, <1>8, <1>9, BackEndFrame, Zenon

\* An instruction cache hit keeps CoreInv.
LEMMA FetchHitKept ==
  ASSUME CoreInv, NEW w \in Warps, FetchHit(w)
  PROVE  CoreInv'
  <1>. DEFINE x == m_warp[w]
  <1>1. x \in WarpStates BY Zenon DEF CoreInv, Shape
  <1>2. /\ m_warp' = m_warp /\ m_warp' = [m_warp EXCEPT ![w] = x]
        /\ m_inst_fetch_buffer' = [w |-> w, pc |-> x.next_pc]
    BY Zenon DEF FetchHit, CoreInv, Shape
  <1>3. x.live > 0 /\ x.ibuffer = <<>> /\ ~x.imiss
    BY <1>1 DEF FetchHit, NeedsFetch, functional_done, WarpStates
  <1>4. m_inst_fetch_buffer' \in [w : {w}, pc : Nat] BY <1>1, <1>2, Zenon DEF WarpStates
  <1>6. BackEndSame BY Zenon DEF BackEndSame, FetchHit
  <1>7. ControlInv(w)'
    BY <1>2, <1>3, <1>6, Zenon DEF CoreInv, WarpInv, ControlInv, BackEndSame, barrierVars
  <1>8. CountInv(w)'
    <2>1. SameInsts(w) BY <1>6, Zenon DEF SameInsts, InstOf, BackEndSame
    <2>2. CountInv(w) BY Zenon DEF CoreInv, WarpInv
    <2>3. QED BY <1>2, <2>1, <2>2, CountFrame, Zenon
  <1>9. ~x.done_exit BY <1>3, LiveUndone, Zenon
  <1>10. QED BY <1>1, <1>2, <1>4, <1>6, <1>7, <1>8, <1>9, BackEndFrame, Zenon

\* Decoding the fetched pair of instructions keeps CoreInv.
LEMMA DecodeKept ==
  ASSUME CountingLaws, CoreInv, Decode
  PROVE  CoreInv'
  <1>1. m_inst_fetch_buffer \in [w : Warps, pc : Nat] /\ m_inst_fetch_buffer # None
    BY Zenon DEF Decode, CoreInv, Shape
  <1>2. PICK w \in Warps, pc \in Nat : m_inst_fetch_buffer.w = w /\ m_inst_fetch_buffer.pc = pc
    BY <1>1, Zenon
  <1>. DEFINE x == m_warp[w]
              found == IF Fetchable(pc) /\ Fetchable(pc + 1) THEN <<pc, pc + 1>> ELSE <<pc>>
              n == x.in_pipeline + Len(found)
              u == [x EXCEPT !.ibuffer = found, !.in_pipeline = n]
  <1>3. x \in WarpStates BY Zenon DEF CoreInv, Shape
  <1>4. found \in Seq(Nat) /\ Len(found) \in Nat /\ Len(found) <= IBUFFER_SIZE
    BY <1>2 DEF IBUFFER_SIZE
  <1>5. m_warp' = [m_warp EXCEPT ![w] = u]
    <2>1. m_warp' = [m_warp EXCEPT ![w].ibuffer = found, ![w].in_pipeline = @ + Len(found)]
      BY <1>2, Zenon DEF Decode
    <2> HIDE DEF found
    <2>2. QED BY <2>1, <1>3, Zenon DEF CoreInv, Shape, WarpStates
  <1> HIDE DEF found
  <1>6. /\ u \in WarpStates /\ u.imiss = x.imiss /\ u.in_pipeline = x.in_pipeline + Len(found)
        /\ u.pc = x.pc /\ u.live = x.live /\ u.ibuffer = found
        /\ u.n_atomic = x.n_atomic /\ u.membar = x.membar /\ u.done_exit = x.done_exit
        /\ u.stores = x.stores
    <2>1. n \in Nat BY <1>3, <1>4 DEF WarpStates
    <2> HIDE DEF n
    <2>2. Buffered(u, x, found, n) BY <1>3, <1>4, <2>1, BufferUpdate, Zenon
    <2> HIDE DEF u
    <2>3. QED BY <2>2, Zenon DEF Buffered, n
  <1> HIDE DEF u
  <1>7. m_warp'[w] = u BY <1>5, <1>6, Zenon DEF CoreInv, Shape
  <1>8. m_inst_fetch_buffer' = None /\ BackEndSame BY Zenon DEF Decode, BackEndSame
  <1>9. x.live > 0 /\ x.ibuffer = <<>> /\ ~x.imiss
    BY <1>1, <1>2, Zenon DEF CoreInv, WarpInv, ControlInv
  <1>10. ControlInv(w)'
    <2>1. ControlInv(w) BY Zenon DEF CoreInv, WarpInv
    <2>2. program' = program /\ m_warp_active' = m_warp_active
      BY <1>8, Zenon DEF BackEndSame, barrierVars
    <2>3. QED BY <1>4, <1>6, <1>7, <1>8, <1>9, <2>1, <2>2, Zenon DEF ControlInv
  <1>11. CountInv(w)'
    <2>1. InstOf(w)' = InstOf(w) BY <1>8, Zenon DEF InstOf, BackEndSame
    <2>2. x.in_pipeline = Len(x.ibuffer) + Cardinality(InstOf(w))
      BY Zenon DEF CoreInv, WarpInv, CountInv
    <2>3. Len(x.ibuffer) = 0 BY <1>9
    <2>4. IsFiniteSet(InstOf(w)) BY Zenon DEF CoreInv, Shape, InstOf, CountingLaws, SubsetLaw
    <2>5. Cardinality(InstOf(w)) \in Nat BY <2>4, Zenon DEF CountingLaws, CardinalityLaw
    <2>6. u.in_pipeline = Len(found) + Cardinality(InstOf(w))
      BY <1>4, <1>6, <2>2, <2>3, <2>5
    <2>7. QED BY <1>6, <1>7, <2>1, <2>6, Zenon DEF CountInv
  <1>12. ~u.done_exit BY <1>6, <1>9, LiveUndone, Zenon
  <1>13. QED BY <1>5, <1>6, <1>8, <1>10, <1>11, <1>12, BackEndFrame, Zenon

\* Flushing a buffer whose program counter is stale keeps CoreInv.
LEMMA FlushBufferKept ==
  ASSUME CountingLaws, CoreInv, NEW w \in Warps, FlushBuffer(w)
  PROVE  CoreInv'
  <1>. DEFINE x == m_warp[w]
              n == x.in_pipeline - Len(x.ibuffer)
              u == [ibuffer_flush(x) EXCEPT !.next_pc = x.pc]
  <1>3. x \in WarpStates BY Zenon DEF CoreInv, Shape
  <1>1. IsFiniteSet(InstOf(w)) BY Zenon DEF CoreInv, Shape, InstOf, CountingLaws, SubsetLaw
  <1>2. Cardinality(InstOf(w)) \in Nat BY <1>1, Zenon DEF CountingLaws, CardinalityLaw
  <1>4. n = Cardinality(InstOf(w))
    <2>1. x.in_pipeline = Len(x.ibuffer) + Cardinality(InstOf(w))
      BY Zenon DEF CoreInv, WarpInv, CountInv
    <2>2. Len(x.ibuffer) \in Nat BY <1>3 DEF WarpStates
    <2>3. QED BY <1>2, <2>1, <2>2
  <1>5. m_warp' = [m_warp EXCEPT ![w] = u] BY Zenon DEF FlushBuffer
  <1>6. /\ u \in WarpStates /\ u.imiss = x.imiss /\ u.in_pipeline = n
        /\ u.pc = x.pc /\ u.live = x.live /\ u.ibuffer = <<>>
        /\ u.n_atomic = x.n_atomic /\ u.membar = x.membar /\ u.done_exit = x.done_exit
        /\ u.stores = x.stores
    <2>1. n \in Nat BY <1>2, <1>4, Zenon
    <2>2. u = [[x EXCEPT !.ibuffer = <<>>, !.in_pipeline = n] EXCEPT !.next_pc = x.pc]
      BY Zenon DEF ibuffer_flush
    <2>3. x.pc \in Nat /\ <<>> \in Seq(Nat) BY <1>3 DEF WarpStates
    <2> HIDE DEF n, u
    <2>4. Buffered(u, x, <<>>, n) BY <1>3, <2>1, <2>2, <2>3, BufferUpdate, Zenon
    <2>5. QED BY <2>4, Zenon DEF Buffered
  <1> HIDE DEF u
  <1>7. m_warp'[w] = u BY <1>5, <1>6, Zenon DEF CoreInv, Shape
  <1>8. m_inst_fetch_buffer' = m_inst_fetch_buffer /\ BackEndSame
    BY Zenon DEF FlushBuffer, BackEndSame, frontVars
  <1>9. x.live > 0
    BY <1>3 DEF FlushBuffer, waiting, functional_done, WarpStates
  <1>10. ControlInv(w)'
    <2>1. ControlInv(w) BY Zenon DEF CoreInv, WarpInv
    <2>2. program' = program /\ m_warp_active' = m_warp_active
      BY <1>8, Zenon DEF BackEndSame, barrierVars
    <2>3. Len(u.ibuffer) <= IBUFFER_SIZE BY <1>6 DEF IBUFFER_SIZE
    <2>4. QED BY <1>6, <1>7, <1>8, <1>9, <2>1, <2>2, <2>3, Zenon DEF ControlInv
  <1>11. CountInv(w)'
    <2>1. InstOf(w)' = InstOf(w) BY <1>8, Zenon DEF InstOf, BackEndSame
    <2>2. Len(u.ibuffer) = 0 BY <1>6
    <2>3. QED BY <1>2, <1>4, <1>6, <1>7, <2>1, <2>2 DEF CountInv
  <1>12. ~u.done_exit BY <1>6, <1>9, LiveUndone, Zenon
  <1>13. QED BY <1>5, <1>6, <1>8, <1>10, <1>11, <1>12, BackEndFrame, Zenon

-----------------------------------------------------------------------------
(* CTA slots. *)

\* Arithmetic: one multiple fewer.
LEMMA OneTimesLess ==
  ASSUME NEW a \in Nat, NEW k \in Nat \ {0}
  PROVE  a * k - a = a * (k - 1) /\ a * (k - 1) \in Nat
  OBVIOUS

\* Arithmetic: a multiple of a positive number is zero only for factor zero.
LEMMA TimesZero ==
  ASSUME NEW a \in Nat \ {0}, NEW k \in Nat, a * k = 0
  PROVE  k = 0
  OBVIOUS

\* The warps of a block slot: WarpsPerCta of them, disjoint from other slots'.
LEMMA WarpsOfSlot ==
  ASSUME CountingLaws, NEW c \in Ctas
  PROVE  /\ WarpsOf(c) \subseteq Warps
         /\ IsFiniteSet(WarpsOf(c)) /\ Cardinality(WarpsOf(c)) = WarpsPerCta
         /\ \A w \in Warps : w \in WarpsOf(c) <=> CtaOf(w) = c
  <1>1. WarpsPerCta \in Nat \ {0} BY CoreAssumption, Zenon
  <1>2. IsFiniteSet(1 .. WarpsPerCta) /\ Cardinality(1 .. WarpsPerCta) = WarpsPerCta
    BY <1>1, Zenon DEF CountingLaws, IntervalLaw
  <1>3. IsFiniteSet({c}) /\ Cardinality({c}) = 1 BY Zenon DEF CountingLaws, SingletonLaw
  <1>4. IsFiniteSet(WarpsOf(c)) /\ Cardinality(WarpsOf(c)) = 1 * WarpsPerCta
    <2>1. PICK S, T : S = {c} /\ T = 1 .. WarpsPerCta BY Zenon
    <2>2. IsFiniteSet(S \X T) /\ Cardinality(S \X T) = Cardinality(S) * Cardinality(T)
      BY <1>2, <1>3, <2>1, Zenon DEF CountingLaws, ProductLaw
    <2>3. QED BY <1>2, <1>3, <2>1, <2>2, Zenon DEF WarpsOf
  <1>5. QED BY <1>1, <1>4 DEF WarpsOf, Warps, CtaOf

\* The warps of a slot that are not reclaimed are finitely many.
LEMMA UndoneFinite ==
  ASSUME CountingLaws, NEW c \in Ctas
  PROVE  IsFiniteSet(Undone(c)) /\ Cardinality(Undone(c)) \in Nat
  <1>1. IsFiniteSet(Undone(c)) BY WarpsOfSlot, Zenon DEF Undone, CountingLaws, SubsetLaw
  <1>2. QED BY <1>1, Zenon DEF CountingLaws, CardinalityLaw

\* A free slot has no warp that is not reclaimed, and none that is active.
LEMMA FreeSlot ==
  ASSUME CountingLaws, CoreInv, NEW c \in Ctas, m_cta_status[c] = 0
  PROVE  /\ Undone(c) = {}
         /\ \A w \in WarpsOf(c) :
               /\ m_warp[w].done_exit /\ m_warp[w].live = 0 /\ m_warp[w].stores = 0
               /\ m_warp[w].in_pipeline = 0 /\ reg_table[w] = {}
               /\ w \notin m_warp_active
  <1>1. WarpSize \in Nat \ {0} BY CoreAssumption, Zenon
  <1>2. WarpSize * Cardinality(Undone(c)) = 0 BY Zenon DEF CoreInv, SlotInv
  <1>3. Cardinality(Undone(c)) = 0 BY <1>1, <1>2, UndoneFinite, TimesZero, Zenon
  <1>4. Undone(c) = {} BY <1>3, UndoneFinite, Zenon DEF CountingLaws, EmptyLaw
  <1>5. ASSUME NEW w \in WarpsOf(c)
        PROVE  /\ m_warp[w].done_exit /\ m_warp[w].live = 0 /\ m_warp[w].stores = 0
               /\ m_warp[w].in_pipeline = 0 /\ reg_table[w] = {}
               /\ w \notin m_warp_active
    <2>1. w \in Warps BY WarpsOfSlot, Zenon
    <2>2. m_warp[w].done_exit BY <1>4, Zenon DEF Undone
    <2>3. hardware_done(w) /\ reg_table[w] = {} BY <2>1, <2>2, Zenon DEF CoreInv, SlotInv
    <2>4. ControlInv(w) BY <2>1, Zenon DEF CoreInv, WarpInv
    <2>5. QED BY <2>2, <2>3, <2>4 DEF hardware_done, functional_done, ControlInv
  <1>6. QED BY <1>4, <1>5, Zenon

\* The warp's fields after it is reclaimed.
LEMMA ReclaimUpdate ==
  ASSUME NEW x \in WarpStates
  PROVE  LET u == [x EXCEPT !.done_exit = TRUE]
         IN /\ u \in WarpStates /\ u.done_exit = TRUE
            /\ u.pc = x.pc /\ u.live = x.live /\ u.imiss = x.imiss /\ u.ibuffer = x.ibuffer
            /\ u.n_atomic = x.n_atomic /\ u.membar = x.membar /\ u.stores = x.stores
            /\ u.in_pipeline = x.in_pipeline
  BY Zenon DEF WarpStates

\* Reclaiming a finished warp's threads keeps CoreInv.
LEMMA ReclaimKept ==
  ASSUME CountingLaws, CoreInv, NEW w \in Warps, Reclaim(w)
  PROVE  CoreInv'
  <1>1. /\ program' = program /\ ctas_left' = ctas_left
        /\ m_inst_fetch_buffer' = m_inst_fetch_buffer /\ arrived' = arrived
        /\ insts' = insts /\ reg_table' = reg_table /\ m_next_wb' = m_next_wb
        /\ m_pending_writes' = m_pending_writes /\ owed' = owed /\ sm_next_uid' = sm_next_uid
        /\ fences' = fences
    BY Zenon DEF Reclaim, memVars
  <1>2. PICK x : x = m_warp[w] BY Zenon
  <1>3. x \in WarpStates BY <1>2, Zenon DEF CoreInv, Shape
  <1>4. PICK c \in Ctas : c = CtaOf(w) BY Zenon DEF Warps, CtaOf
  <1>5. w \in WarpsOf(c) BY <1>4, WarpsOfSlot, Zenon
  <1>6. hardware_done(w) /\ reg_table[w] = {} /\ ~x.done_exit
    BY <1>2, Zenon DEF Reclaim, Reclaimable, pendingWrites
  <1>. DEFINE u == [x EXCEPT !.done_exit = TRUE]
  <1>7. m_warp' = [m_warp EXCEPT ![w] = u] BY <1>2, Zenon DEF Reclaim
  <1>8. /\ u \in WarpStates /\ u.done_exit = TRUE
        /\ u.pc = x.pc /\ u.live = x.live /\ u.imiss = x.imiss /\ u.ibuffer = x.ibuffer
        /\ u.n_atomic = x.n_atomic /\ u.membar = x.membar /\ u.stores = x.stores
        /\ u.in_pipeline = x.in_pipeline
    BY <1>3, ReclaimUpdate, Zenon
  <1> HIDE DEF u
  <1>9. /\ m_warp' \in [Warps -> WarpStates]
        /\ m_warp'[w] = u
        /\ \A v \in Warps \ {w} : m_warp'[v] = m_warp[v]
    BY <1>7, <1>8, WarpWrite, Zenon DEF CoreInv, Shape
  <1>10. Undone(c)' = Undone(c) \ {w} /\ w \in Undone(c)
    BY <1>2, <1>5, <1>6, <1>8, <1>9, WarpsOfSlot, Zenon DEF Undone
  <1>11. \A d \in Ctas \ {c} : Undone(d)' = Undone(d)
    BY <1>4, <1>9, WarpsOfSlot DEF Undone
  <1>12. Cardinality(Undone(c)) \in Nat \ {0}
         /\ Cardinality(Undone(c)') = Cardinality(Undone(c)) - 1
    <2>1. IsFiniteSet(Undone(c)) /\ Cardinality(Undone(c)) \in Nat BY UndoneFinite, Zenon
    <2>2. Cardinality(Undone(c)) # 0 BY <1>10, <2>1, Zenon DEF CountingLaws, EmptyLaw
    <2>3. Cardinality(Undone(c) \ {w}) = Cardinality(Undone(c)) - 1
      BY <1>10, <2>1, Zenon DEF CountingLaws, RemoveLaw
    <2>4. QED BY <1>10, <2>1, <2>2, <2>3, Zenon
  <1>13. /\ m_cta_status \in [Ctas -> Nat]
         /\ m_cta_status[c] = WarpSize * Cardinality(Undone(c))
    BY Zenon DEF CoreInv, Shape, SlotInv
  <1>14. PICK rest \in Nat : /\ rest = m_cta_status[c] - WarpSize
                             /\ rest = WarpSize * Cardinality(Undone(c)')
    <2>1. WarpSize \in Nat BY CoreAssumption, Zenon
    <2>2. PICK k \in Nat \ {0} : k = Cardinality(Undone(c)) BY <1>12, Zenon
    <2>3. WarpSize * k - WarpSize = WarpSize * (k - 1) /\ WarpSize * (k - 1) \in Nat
      BY <2>1, OneTimesLess, Zenon
    <2>4. QED BY <1>12, <1>13, <2>2, <2>3, Zenon
  <1>15. /\ m_cta_status' = [m_cta_status EXCEPT ![c] = rest]
         /\ m_warp_active' = IF rest = 0 THEN m_warp_active \ WarpsOf(c) ELSE m_warp_active
         /\ m_warp_at_barrier' = IF rest = 0 THEN m_warp_at_barrier \ WarpsOf(c)
                                             ELSE m_warp_at_barrier
    BY <1>4, <1>14, Zenon DEF Reclaim
  <1>16. SlotInv'
    <2>1. \A d \in Ctas : m_cta_status'[d] = WarpSize * Cardinality(Undone(d)')
      <3>1. m_cta_status'[c] = WarpSize * Cardinality(Undone(c)') BY <1>13, <1>14, <1>15, Zenon
      <3>2. ASSUME NEW d \in Ctas \ {c} PROVE m_cta_status'[d] = WarpSize * Cardinality(Undone(d)')
        <4>1. m_cta_status'[d] = m_cta_status[d] BY <1>13, <1>15, Zenon
        <4>2. m_cta_status[d] = WarpSize * Cardinality(Undone(d)) BY Zenon DEF CoreInv, SlotInv
        <4>3. Undone(d)' = Undone(d) BY <1>11, Zenon
        <4>4. QED BY <4>1, <4>2, <4>3, Zenon
      <3>3. QED BY <3>1, <3>2, Zenon
    <2>2. \A v \in Warps : m_warp'[v].done_exit => hardware_done(v)' /\ reg_table'[v] = {}
      <3>1. hardware_done(w)' BY <1>2, <1>6, <1>8, <1>9, Zenon DEF hardware_done, functional_done
      <3>2. \A v \in Warps \ {w} : m_warp'[v].done_exit => hardware_done(v)' /\ reg_table'[v] = {}
        BY <1>1, <1>9, Zenon DEF CoreInv, SlotInv, hardware_done, functional_done
      <3>3. QED BY <1>1, <1>6, <3>1, <3>2, Zenon
    <2>3. QED BY <2>1, <2>2, Zenon DEF SlotInv
  <1>17. m_warp_active' = m_warp_active /\ m_warp_at_barrier' = m_warp_at_barrier
    <2>1. m_warp_at_barrier \subseteq m_warp_active BY Zenon DEF CoreInv, BarrierInv
    <2>2. CASE rest # 0 BY <1>15, <2>2, Zenon
    <2>3. CASE rest = 0
      <3>1. Cardinality(Undone(c)') = 0
        BY <1>12, <1>14, <2>3, TimesZero, CoreAssumption
      <3>2. IsFiniteSet(Undone(c)') BY <1>10, UndoneFinite, Zenon DEF CountingLaws, SubsetLaw
      <3>3. Undone(c)' = {} BY <3>1, <3>2, Zenon DEF CountingLaws, EmptyLaw
      <3>4. ASSUME NEW v \in WarpsOf(c) PROVE v \notin m_warp_active
        <4>1. v \in Warps BY WarpsOfSlot, Zenon
        <4>2. m_warp'[v].done_exit BY <3>3, Zenon DEF Undone
        <4>3. m_warp[v].live = 0
          BY <1>6, <1>9, <4>1, <4>2, Zenon DEF CoreInv, SlotInv, hardware_done, functional_done
        <4>4. ControlInv(v) BY <4>1, Zenon DEF CoreInv, WarpInv
        <4>5. QED BY <4>3, <4>4 DEF ControlInv
      <3>5. QED BY <1>15, <2>1, <2>3, <3>4, Zenon
    <2>4. QED BY <2>2, <2>3, Zenon
  <1>18. Shape'
    <2>1. m_cta_status' \in [Ctas -> Nat] BY <1>13, <1>15, Zenon
    <2>2. QED BY <1>1, <1>9, <1>17, <2>1, Zenon DEF CoreInv, Shape
  <1>19. \A v : SameRegs(v) BY <1>1, Zenon DEF SameRegs, SameInsts, SameOwed, InstOf, Back
  <1>20. OnlyWarp(w)
    <2>1. ASSUME NEW v \in Warps \ {w} PROVE Untouched(v)
      BY <1>1, <1>9, <1>17, <1>19, <2>1, Zenon DEF Untouched, NoFetch
    <2>2. QED BY <2>1, Zenon DEF OnlyWarp
  <1>21. WarpInv(w)'
    <2>1. SameInsts(w) /\ SameOwed(w) BY <1>19, Zenon DEF SameRegs
    <2>2. WarpInv(w) BY Zenon DEF CoreInv
    <2>3. ControlInv(w)' BY <1>1, <1>2, <1>8, <1>9, <1>17, <2>2, Zenon DEF WarpInv, ControlInv
    <2>4. CountInv(w)' BY <1>2, <1>8, <1>9, <2>1, <2>2, CountFrame, Zenon DEF WarpInv
    <2>5. AtomicInv(w)' BY <1>2, <1>8, <1>9, <2>1, <2>2, AtomicFrame, Zenon DEF WarpInv
    <2>6. StoreInv(w)' BY <1>2, <1>8, <1>9, <2>1, <2>2, StoreFrame, Zenon DEF WarpInv
    <2>7. FenceInv(w)' BY <1>1, <1>2, <1>8, <1>9, <2>1, <2>2, FenceFrame, Zenon DEF WarpInv
    <2>8. \A r \in Registers : RegInv(w, r)' BY <1>19, <2>2, RegFrame, Zenon DEF WarpInv
    <2>9. QED BY <2>3, <2>4, <2>5, <2>6, <2>7, <2>8, Zenon DEF WarpInv
  <1>22. \A v \in Warps : WarpInv(v)' BY <1>20, <1>21, WarpsKept, Zenon
  <1>23. KeyInv' /\ RoomInv' /\ AccessInv' /\ BarrierInv'
    BY <1>1, <1>17, KeyFrame, RoomFrame, AccessFrame, BarrierFrame, Zenon DEF CoreInv, barrierVars
  <1>24. QED BY <1>16, <1>18, <1>22, <1>23, Zenon DEF CoreInv

\* A warp at the start of a CTA.
Fresh(u, x) ==
  /\ u \in WarpStates
  /\ u.pc = 1 /\ u.live = WarpSize /\ u.imiss = FALSE /\ u.ibuffer = x.ibuffer
  /\ u.n_atomic = 0 /\ u.membar = FALSE /\ u.done_exit = FALSE
  /\ u.stores = x.stores /\ u.in_pipeline = x.in_pipeline

FreshWarp(x) ==
  [ResetWarp EXCEPT !.pc = 1, !.next_pc = 1, !.live = WarpSize, !.done_exit = FALSE,
                    !.ibuffer = x.ibuffer, !.stores = x.stores, !.in_pipeline = x.in_pipeline]

Started(u, z, b, s, n) ==
  /\ u \in WarpStates
  /\ u.pc = 1 /\ u.live = WarpSize /\ u.imiss = z.imiss /\ u.ibuffer = b
  /\ u.n_atomic = z.n_atomic /\ u.membar = z.membar /\ u.done_exit = FALSE
  /\ u.stores = s /\ u.in_pipeline = n

\* The warp's fields after init_warps starts it.
LEMMA StartUpdate ==
  ASSUME NEW z \in WarpStates, NEW b \in Seq(Nat), NEW s \in Nat, NEW n \in Nat
  PROVE  Started([z EXCEPT !.pc = 1, !.next_pc = 1, !.live = WarpSize, !.done_exit = FALSE,
                           !.ibuffer = b, !.stores = s, !.in_pipeline = n], z, b, s, n)
  BY CoreAssumption, Zenon DEF Started, WarpStates

\* FreshWarp starts a warp as StartUpdate says.
LEMMA FreshUpdate ==
  ASSUME NEW x \in WarpStates
  PROVE  Fresh(FreshWarp(x), x)
  <1>1. PICK s \in Nat, n \in Nat, b \in Seq(Nat) :
          s = x.stores /\ n = x.in_pipeline /\ b = x.ibuffer
    BY Zenon DEF WarpStates
  <1>2. PICK z : z = ResetWarp BY Zenon
  <1>3. z \in WarpStates /\ z.imiss = FALSE /\ z.n_atomic = 0 /\ z.membar = FALSE
    BY <1>2 DEF ResetWarp, WarpStates
  <1>4. PICK u : u = [z EXCEPT !.pc = 1, !.next_pc = 1, !.live = WarpSize, !.done_exit = FALSE,
                               !.ibuffer = b, !.stores = s, !.in_pipeline = n]
    BY Zenon
  <1>5. Started(u, z, b, s, n) BY <1>3, <1>4, StartUpdate, Zenon
  <1>6. Fresh(u, x) BY <1>1, <1>3, <1>5, Zenon DEF Fresh, Started
  <1>7. u = FreshWarp(x) BY <1>1, <1>2, <1>4, Zenon DEF FreshWarp
  <1>8. QED BY <1>6, <1>7, Zenon

\* Issuing a thread block to a free slot keeps CoreInv.
LEMMA IssueBlockKept ==
  ASSUME CountingLaws, CoreInv, IssueBlock
  PROVE  CoreInv'
  <1>1. /\ program' = program /\ ctas_left' = ctas_left - 1 /\ ctas_left > 0
        /\ m_inst_fetch_buffer' = m_inst_fetch_buffer
        /\ insts' = insts /\ reg_table' = reg_table /\ m_next_wb' = m_next_wb
        /\ m_pending_writes' = m_pending_writes /\ owed' = owed /\ sm_next_uid' = sm_next_uid
        /\ fences' = fences
    BY Zenon DEF IssueBlock, memVars
  <1>2. PICK c \in Ctas :
          /\ m_cta_status[c] = 0
          /\ m_cta_status' = [m_cta_status EXCEPT ![c] = WarpsPerCta * WarpSize]
          /\ m_warp' = [w \in Warps |-> IF w \in WarpsOf(c) THEN FreshWarp(m_warp[w])
                                                            ELSE m_warp[w]]
          /\ m_warp_active' = m_warp_active \cup WarpsOf(c)
          /\ m_warp_at_barrier' = m_warp_at_barrier \ WarpsOf(c)
          /\ arrived' = [w \in Warps |-> IF w \in WarpsOf(c) THEN 0 ELSE arrived[w]]
    BY Zenon DEF IssueBlock, FreshWarp
  <1>3. /\ WarpsOf(c) \subseteq Warps
        /\ IsFiniteSet(WarpsOf(c)) /\ Cardinality(WarpsOf(c)) = WarpsPerCta
        /\ \A w \in Warps : w \in WarpsOf(c) <=> CtaOf(w) = c
    BY WarpsOfSlot, Zenon
  <1>4. \A w \in WarpsOf(c) :
               /\ m_warp[w].done_exit /\ m_warp[w].live = 0 /\ m_warp[w].stores = 0
               /\ m_warp[w].in_pipeline = 0 /\ reg_table[w] = {}
               /\ w \notin m_warp_active
    BY <1>2, FreeSlot, Zenon
  <1>5. /\ \A w \in WarpsOf(c) : Fresh(m_warp'[w], m_warp[w])
        /\ \A w \in Warps \ WarpsOf(c) : m_warp'[w] = m_warp[w]
        /\ m_warp' \in [Warps -> WarpStates]
    <2>1. m_warp \in [Warps -> WarpStates] BY Zenon DEF CoreInv, Shape
    <2>2. \A w \in Warps : Fresh(FreshWarp(m_warp[w]), m_warp[w]) BY <2>1, FreshUpdate, Zenon
    <2>3. \A w \in Warps : FreshWarp(m_warp[w]) \in WarpStates BY <2>2, Zenon DEF Fresh
    <2>4. QED BY <1>2, <1>3, <2>1, <2>2, <2>3, Zenon
  <1>6. /\ WarpSize \in Nat \ {0} /\ WarpsPerCta \in Nat \ {0}
        /\ WarpsPerCta * WarpSize \in Nat /\ WarpsPerCta * WarpSize = WarpSize * WarpsPerCta
    BY CoreAssumption
  <1>7. Shape'
    <2>1. m_cta_status' \in [Ctas -> Nat] BY <1>2, <1>6, Zenon DEF CoreInv, Shape
    <2>2. arrived' \in [Warps -> Nat] BY <1>2, Zenon DEF CoreInv, Shape
    <2>3. ctas_left' \in 0 .. Grid BY <1>1, CoreAssumption DEF CoreInv, Shape
    <2>4. m_warp_active' \subseteq Warps BY <1>2, <1>3, Zenon DEF CoreInv, Shape
    <2>5. QED BY <1>1, <1>5, <2>1, <2>2, <2>3, <2>4, Zenon DEF CoreInv, Shape
  <1>8. \A v : SameRegs(v) BY <1>1, Zenon DEF SameRegs, SameInsts, SameOwed, InstOf, Back
  <1>9. ASSUME NEW v \in Warps \ WarpsOf(c) PROVE WarpInv(v)'
    <2>1. Untouched(v) BY <1>1, <1>2, <1>5, <1>8, Zenon DEF Untouched, NoFetch
    <2>2. QED BY <2>1, OtherWarp, Zenon DEF CoreInv
  <1>10. ASSUME NEW w \in WarpsOf(c) PROVE WarpInv(w)'
    <2>1. w \in Warps /\ SameInsts(w) /\ SameOwed(w) BY <1>3, <1>8, Zenon DEF SameRegs
    <2>2. WarpInv(w) BY <2>1, Zenon DEF CoreInv
    <2>3. Fresh(m_warp'[w], m_warp[w]) BY <1>5, Zenon
    <2>4. ControlInv(w) BY <2>2, Zenon DEF WarpInv
    <2>5. m_warp[w].live = 0 /\ w \notin m_warp_active BY <1>4, Zenon
    <2>6. /\ ~m_warp[w].membar /\ m_warp[w].n_atomic = 0 /\ ~m_warp[w].imiss
          /\ ~(m_inst_fetch_buffer # None /\ m_inst_fetch_buffer.w = w)
      BY <2>1, <2>4, <2>5 DEF ControlInv, CoreInv, Shape, WarpStates
    <2>7. m_warp[w].membar = FALSE BY <2>1, <2>6, Zenon DEF CoreInv, Shape, WarpStates
    <2>8. ControlInv(w)'
      <3>1. 1 \in DOMAIN program BY CoreAssumption, Zenon DEF WellFormed, CoreInv, Shape
      <3>2. w \in m_warp_active' BY <1>2, Zenon
      <3>3. QED BY <1>1, <1>6, <2>3, <2>4, <2>6, <3>1, <3>2 DEF ControlInv, Fresh
    <2>9. CountInv(w)' BY <2>1, <2>2, <2>3, CountFrame, Zenon DEF WarpInv, Fresh
    <2>10. AtomicInv(w)' BY <2>1, <2>2, <2>3, <2>6, AtomicFrame, Zenon DEF WarpInv, Fresh
    <2>11. StoreInv(w)' BY <2>1, <2>2, <2>3, StoreFrame, Zenon DEF WarpInv, Fresh
    <2>12. FenceInv(w)' BY <1>1, <2>1, <2>2, <2>3, <2>7, FenceFrame, Zenon DEF WarpInv, Fresh
    <2>13. \A r \in Registers : RegInv(w, r)' BY <1>8, <2>2, RegFrame, Zenon DEF WarpInv
    <2>14. QED BY <2>8, <2>9, <2>10, <2>11, <2>12, <2>13, Zenon DEF WarpInv
  <1>11. \A v \in Warps : WarpInv(v)' BY <1>9, <1>10, Zenon
  <1>12. SlotInv'
    <2>1. m_cta_status \in [Ctas -> Nat] BY Zenon DEF CoreInv, Shape
    <2>2. Undone(c)' = WarpsOf(c) BY <1>5, Zenon DEF Undone, Fresh
    <2>3. m_cta_status'[c] = WarpSize * Cardinality(Undone(c)')
      BY <1>2, <1>3, <1>6, <2>1, <2>2, Zenon
    <2>4. ASSUME NEW d \in Ctas \ {c} PROVE m_cta_status'[d] = WarpSize * Cardinality(Undone(d)')
      <3>1. WarpsOf(d) \subseteq Warps \ WarpsOf(c) BY <1>3, WarpsOfSlot, Zenon
      <3>2. Undone(d)' = Undone(d) BY <1>5, <3>1, Zenon DEF Undone
      <3>3. m_cta_status'[d] = m_cta_status[d] BY <1>2, <2>1, Zenon
      <3>4. m_cta_status[d] = WarpSize * Cardinality(Undone(d)) BY Zenon DEF CoreInv, SlotInv
      <3>5. QED BY <3>2, <3>3, <3>4, Zenon
    <2>5. \A v \in Warps : m_warp'[v].done_exit => hardware_done(v)' /\ reg_table'[v] = {}
      <3>1. \A v \in WarpsOf(c) : ~m_warp'[v].done_exit BY <1>5, Zenon DEF Fresh
      <3>2. \A v \in Warps \ WarpsOf(c) :
               m_warp'[v].done_exit => hardware_done(v)' /\ reg_table'[v] = {}
        BY <1>1, <1>5, Zenon DEF CoreInv, SlotInv, hardware_done, functional_done
      <3>3. QED BY <3>1, <3>2, Zenon
    <2>6. QED BY <2>3, <2>4, <2>5, Zenon DEF SlotInv
  <1>13. BarrierInv'
    <2>1. /\ m_warp_at_barrier \subseteq m_warp_active /\ m_warp_active \subseteq Warps
          /\ \A w \in m_warp_at_barrier : arrived[w] > 0
          /\ \A v, w \in m_warp_active : CtaOf(v) = CtaOf(w) => Passed(v) = Passed(w)
      BY Zenon DEF CoreInv, BarrierInv, Shape
    <2>2. \A w \in WarpsOf(c) : Passed(w)' = 0 BY <1>2, <1>3, Zenon DEF Passed
    <2>3. \A w \in Warps \ WarpsOf(c) : Passed(w)' = Passed(w) BY <1>2, Zenon DEF Passed
    <2>4. ASSUME NEW v \in m_warp_active', NEW w \in m_warp_active', CtaOf(v) = CtaOf(w)
          PROVE  Passed(v)' = Passed(w)'
      <3>1. v \in Warps /\ w \in Warps BY <1>2, <1>3, <2>1, Zenon
      <3>2. v \in WarpsOf(c) <=> w \in WarpsOf(c) BY <1>3, <2>4, <3>1, Zenon
      <3>3. CASE v \in WarpsOf(c) BY <2>2, <3>2, <3>3, Zenon
      <3>4. CASE v \notin WarpsOf(c)
        <4>1. v \in m_warp_active /\ w \in m_warp_active BY <1>2, <3>2, <3>4, Zenon
        <4>2. QED BY <2>1, <2>3, <2>4, <3>1, <3>2, <3>4, <4>1, Zenon
      <3>5. QED BY <3>3, <3>4, Zenon
    <2>5. \A w \in m_warp_at_barrier' : arrived'[w] > 0 /\ w \in m_warp_active'
      BY <1>2, <2>1, Zenon
    <2>6. QED BY <2>4, <2>5, Zenon DEF BarrierInv
  <1>14. KeyInv' /\ RoomInv' /\ AccessInv'
    BY <1>1, KeyFrame, RoomFrame, AccessFrame, Zenon DEF CoreInv
  <1>15. QED BY <1>7, <1>11, <1>12, <1>13, <1>14, Zenon DEF CoreInv

-----------------------------------------------------------------------------
(* Issue. *)

\* Instruction i enters the pipeline.
Added(i) ==
  /\ i \in Issued /\ i.pc \in DOMAIN program /\ i.at = "ID_OC"
  /\ i.acc = program[i.pc].acc /\ i.uid = sm_next_uid[i.w]
  /\ insts' = insts \cup {i}
  /\ program' = program
  /\ At("ID_OC", PipeOf(Op(i))) = {}

\* Issuing adds one element to the warp's instructions in flight only.
LEMMA AddedInsts ==
  ASSUME CountingLaws, CoreInv, NEW i, Added(i)
  PROVE  /\ InstsShape' /\ i.w \in Warps /\ i \notin insts
         /\ InstOf(i.w)' = InstOf(i.w) \cup {i}
         /\ \A v : v # i.w => InstOf(v)' = InstOf(v)
         /\ Cardinality(InstOf(i.w)') = Cardinality(InstOf(i.w)) + 1
  <1>1. i.w \in Warps /\ sm_next_uid[i.w] \in Nat BY Zenon DEF Added, Issued, CoreInv, Shape
  <1>2. i \notin insts
    <2>1. ASSUME i \in insts PROVE FALSE
      <3>1. i.uid < sm_next_uid[i.w] BY <2>1, Zenon DEF CoreInv, KeyInv
      <3>2. QED BY <1>1, <3>1 DEF Added
    <2>2. QED BY <2>1, Zenon
  <1>3. IsFiniteSet(insts) BY Zenon DEF CoreInv, Shape
  <1>4. IsFiniteSet(insts \cup {i}) BY <1>3, Zenon DEF CountingLaws, AddLaw
  <1>5. IsFiniteSet(insts)' BY <1>4, Zenon DEF Added
  <1>6. InstsShape' BY <1>5, Zenon DEF Added, InstsShape, CoreInv, Shape
  <1>7. /\ InstOf(i.w)' = InstOf(i.w) \cup {i}
        /\ \A v : v # i.w => InstOf(v)' = InstOf(v)
    BY Zenon DEF Added, InstOf
  <1>8. i \notin InstOf(i.w) BY <1>2, Zenon DEF InstOf
  <1>9. IsFiniteSet(InstOf(i.w)) BY InstsFinite, Zenon
  <1>10. Cardinality(InstOf(i.w) \cup {i}) = Cardinality(InstOf(i.w)) + 1
    BY <1>8, <1>9, Zenon DEF CountingLaws, AddLaw
  <1>11. QED BY <1>1, <1>2, <1>6, <1>7, <1>10, Zenon

\* An issued instruction gets a fresh id.
LEMMA AddedKey ==
  ASSUME CountingLaws, CoreInv, NEW i, Added(i), sm_next_uid' = [sm_next_uid EXCEPT ![i.w] = @ + 1]
  PROVE  KeyInv' /\ sm_next_uid' \in [Warps -> Nat]
  <1>1. PICK w \in Warps : w = i.w BY AddedInsts, Zenon
  <1>2. sm_next_uid \in [Warps -> Nat] /\ \A k \in insts : k.w \in Warps /\ k.uid \in Nat
    BY Zenon DEF CoreInv, Shape, Issued
  <1>3. /\ sm_next_uid' \in [Warps -> Nat] /\ sm_next_uid'[w] = sm_next_uid[w] + 1
        /\ \A v \in Warps \ {w} : sm_next_uid'[v] = sm_next_uid[v]
    BY <1>1, <1>2
  <1>4. KeyInv BY Zenon DEF CoreInv
  <1>5. insts' = insts \cup {i} /\ i.uid = sm_next_uid[w] BY <1>1, Zenon DEF Added
  <1>6. \A k \in insts' : k.uid < sm_next_uid'[k.w]
    BY <1>1, <1>2, <1>3, <1>4, <1>5 DEF KeyInv
  <1>7. \A k \in insts : k.w = w => k.uid # i.uid
    BY <1>1, <1>2, <1>4, <1>5 DEF KeyInv
  <1>8. \A k, l \in insts' : k.w = l.w /\ k.uid = l.uid => k = l
    BY <1>1, <1>4, <1>5, <1>7, Zenon DEF KeyInv
  <1>9. QED BY <1>3, <1>6, <1>8, Zenon DEF KeyInv

\* Issue needs a free pipeline register, so nothing is overfilled.
LEMMA AddedRoom ==
  ASSUME CoreInv, NEW i, Added(i)
  PROVE  RoomInv'
  <1>1. \A k : Op(k)' = Op(k) BY Zenon DEF Added, Op
  <1>2. \A p : At("CU", p)' = At("CU", p) /\ At("EX", p)' = At("EX", p)
    BY <1>1, Zenon DEF At, Added
  <1>3. RoomInv BY Zenon DEF CoreInv
  <1>4. ASSUME NEW k \in insts', NEW l \in insts', k.at \in {"ID_OC", "OC_EX"}, l.at = k.at,
               PipeOf(Op(k)) = PipeOf(Op(l))
        PROVE  k = l
    <2>1. CASE k \in insts /\ l \in insts BY <1>3, <1>4, <2>1, Zenon DEF RoomInv
    <2>2. CASE k = i /\ l \in insts BY <1>4, <2>2, Zenon DEF At, Added
    <2>3. CASE l = i /\ k \in insts BY <1>4, <2>3, Zenon DEF At, Added
    <2>4. QED BY <2>1, <2>2, <2>3, Zenon DEF Added
  <1>5. QED BY <1>1, <1>2, <1>3, <1>4, Zenon DEF RoomInv

\* An issued instruction has sent no access yet.
LEMMA AddedAccess ==
  ASSUME CoreInv, NEW i, Added(i), owed' = owed, m_next_wb' = m_next_wb
  PROVE  AccessInv'
  <1>1. \A k : Op(k)' = Op(k) BY Zenon DEF Added, Op
  <1>2. AccessInv BY Zenon DEF CoreInv
  <1>3. ASSUME NEW k \in insts'
        PROVE  /\ Op(k) \in Accessing => (k.acc = 0 <=> program[k.pc].acc = 0)
               /\ k.at = "SHARED" => Op(k) = "SHLOAD"
    BY <1>2, Zenon DEF AccessInv, Added
  <1>4. QED BY <1>1, <1>2, <1>3, Zenon DEF AccessInv, Added

\* A register that is not reserved is free.
LEMMA UnreservedFree ==
  ASSUME CoreInv, NEW w \in Warps, NEW r \in Registers, r \notin reg_table[w]
  PROVE  RegFree(w, r)
  BY Zenon DEF CoreInv, WarpInv, RegInv, RegInPipe, RegReturning

\* Issue reserves registers that were free.
LEMMA AddedReg ==
  ASSUME CountingLaws, CoreInv, NEW i, Added(i), NEW r \in Registers,
         Out(i) \cap reg_table[i.w] = {}, reg_table'[i.w] = reg_table[i.w] \cup Out(i),
         m_pending_writes' = m_pending_writes, owed' = owed, m_next_wb' = m_next_wb
  PROVE  RegInv(i.w, r)'
  <1>0. PICK w \in Warps : w = i.w BY AddedInsts, Zenon
  <1> SUFFICES RegInv(w, r)' BY <1>0, Zenon
  <1>1. InstOf(w)' = InstOf(w) \cup {i} BY <1>0, AddedInsts, Zenon
  <1>2. program' = program /\ \A pc : Answers(w, pc)' = Answers(w, pc)
    BY Zenon DEF Added, Answers, Back
  <1>3. /\ \A k : Out(k)' = Out(k)
        /\ \A k : Accounted(k)' = Accounted(k)
    BY <1>2, Zenon DEF Out, Accounted, IsLoad, Op
  <1>4. r \in reg_table'[w] <=> r \in reg_table[w] \/ r \in Out(i) BY <1>0, Zenon
  <1>5. CASE r \in Out(i)
    <2>1. RegFree(w, r) BY <1>0, <1>5, UnreservedFree, Zenon
    <2>2. ~Accounted(i) BY Zenon DEF Accounted, Added
    <2>3. RegInPipe(w, r, i)'
      BY <1>1, <1>2, <1>3, <1>4, <1>5, <2>1, <2>2 DEF RegInPipe, RegFree
    <2>4. QED BY <1>1, <2>3, Zenon DEF RegInv
  <1>6. CASE r \notin Out(i)
    <2>1. RegInv(w, r) BY Zenon DEF CoreInv, WarpInv
    <2>2. RegFree(w, r) => RegFree(w, r)' BY <1>1, <1>2, <1>3, <1>4, <1>6, Zenon DEF RegFree
    <2>3. \A k \in InstOf(w) : RegInPipe(w, r, k) => RegInPipe(w, r, k)'
      BY <1>1, <1>2, <1>3, <1>4, <1>6, Zenon DEF RegInPipe
    <2>4. \A pc \in DOMAIN program : RegReturning(w, r, pc) => RegReturning(w, r, pc)'
      BY <1>1, <1>2, <1>3, <1>4, <1>6, Zenon DEF RegReturning
    <2>5. QED BY <1>1, <1>2, <2>1, <2>2, <2>3, <2>4, Zenon DEF RegInv
  <1>7. QED BY <1>5, <1>6, Zenon

\* Issue raises the fence flag exactly for a fence.
LEMMA AddedFence ==
  ASSUME CountingLaws, CoreInv, NEW i, Added(i), ~m_warp[i.w].membar, fences' = fences,
         m_warp'[i.w].membar <=> Op(i) = "MEMBAR"
  PROVE  FenceInv(i.w)'
  <1>1. InstOf(i.w)' = InstOf(i.w) \cup {i} /\ i.w \in Warps BY AddedInsts, Zenon
  <1>2. \A k : Op(k)' = Op(k) BY Zenon DEF Added, Op
  <1>3. FenceInv(i.w) BY <1>1, Zenon DEF CoreInv, WarpInv
  <1>4. i.w \notin fences /\ \A k \in InstOf(i.w) : Op(k) # "MEMBAR" BY <1>3, Zenon DEF FenceInv
  <1>5. QED BY <1>1, <1>2, <1>4, Zenon DEF FenceInv

\* Issue sets the atomic counter to the accesses of an atomic.
LEMMA AddedAtomic ==
  ASSUME CountingLaws, CoreInv, NEW i, Added(i), m_warp[i.w].n_atomic = 0, owed' = owed,
         m_warp'[i.w].n_atomic = IF Op(i) = "ATOM" THEN i.acc ELSE 0
  PROVE  AtomicInv(i.w)'
  <1>0. PICK w \in Warps : w = i.w BY AddedInsts, Zenon
  <1>1. InstOf(w)' = InstOf(w) \cup {i} BY <1>0, AddedInsts, Zenon
  <1>2. program' = program /\ \A k : Op(k)' = Op(k) BY Zenon DEF Added, Op
  <1>3. \A pc \in DOMAIN program : pc \in PCs /\ owed[w][pc] \in Nat BY AnswersNat, Zenon
  <1>4. \A pc \in DOMAIN program : program[pc].op = "ATOM" => owed[w][pc] = 0
    <2>1. \A pc \in DOMAIN program : program[pc].op = "ATOM" => ~(owed[w][pc] > 0)
      BY <1>0, AtomicCounted, Zenon
    <2>2. QED BY <1>3, <2>1
  <1>5. \A k \in InstOf(w) : ~(Op(k) = "ATOM" /\ k.acc > 0)
    <2>1. ASSUME NEW k \in InstOf(w), Op(k) = "ATOM", k.acc > 0 PROVE FALSE
      <3>1. m_warp[w].n_atomic = k.acc + owed[w][k.pc]
        BY <2>1, Zenon DEF CoreInv, WarpInv, AtomicInv
      <3>2. k.acc \in Nat /\ k.pc \in DOMAIN program BY Zenon DEF CoreInv, Shape, InstOf, Issued
      <3>3. QED BY <1>0, <1>3, <2>1, <3>1, <3>2
    <2>2. QED BY <2>1, Zenon
  <1>6. i.acc \in Nat /\ i.pc \in DOMAIN program BY Zenon DEF Added, Issued
  <1>7. Op(i) = "ATOM" => owed[w][i.pc] = 0 BY <1>4, <1>6, Zenon DEF Op
  <1>8. AtomicInv(w)'
    <2>1. ASSUME NEW k \in InstOf(w)', Op(k) = "ATOM", k.acc > 0
          PROVE  k = i /\ m_warp'[w].n_atomic = k.acc + owed'[w][k.pc]
      <3>1. k = i BY <1>1, <1>5, <2>1, Zenon
      <3>2. m_warp'[w].n_atomic = i.acc + 0 BY <1>0, <1>6, <2>1, <3>1
      <3>3. QED BY <1>7, <2>1, <3>1, <3>2, Zenon
    <2>2. \A pc \in DOMAIN program : program[pc].op = "ATOM" => ~(owed'[w][pc] > 0) BY <1>4
    <2>3. QED BY <1>2, <2>1, <2>2, Zenon DEF AtomicInv
  <1>9. QED BY <1>0, <1>8, Zenon

\* The warp has executed an instruction: n threads have exited, s is what is left in
\* its buffer, and k instructions of it are in the pipeline.
HasExecuted(u, x, s, k, n, target, fence, atomics) ==
  /\ u \in WarpStates /\ u.imiss = x.imiss /\ u.stores = x.stores
  /\ u.done_exit = x.done_exit
  /\ u.pc = target /\ u.live = x.live - n /\ u.ibuffer = s /\ u.in_pipeline = k
  /\ u.membar = (x.membar \/ fence) /\ u.n_atomic = atomics

\* y is x but for its buffer and the count of its instructions.
Emptied(y, x) ==
  /\ y \in WarpStates
  /\ y.live = x.live /\ y.membar = x.membar /\ y.n_atomic = x.n_atomic
  /\ y.imiss = x.imiss /\ y.stores = x.stores /\ y.done_exit = x.done_exit

\* y is x without the head of its buffer.
Popped(y, x) ==
  /\ Emptied(y, x) /\ y.in_pipeline = x.in_pipeline
  /\ Len(y.ibuffer) = Len(x.ibuffer) - 1 /\ Len(x.ibuffer) \in Nat \ {0}

\* The warp has n instructions past its buffer.
InFlight(x, n) == x.in_pipeline = Len(x.ibuffer) + n

\* The warp's fields after an instruction is taken from its buffer.
LEMMA TailUpdate ==
  ASSUME NEW x \in WarpStates, x.ibuffer # <<>>, NEW y, y = [x EXCEPT !.ibuffer = Tail(@)]
  PROVE  Popped(y, x)
  <1>1. x.ibuffer \in Seq(Nat) BY Zenon DEF WarpStates
  <1>2. PICK s : s = Tail(x.ibuffer) BY Zenon
  <1>3. s \in Seq(Nat) /\ Len(s) = Len(x.ibuffer) - 1 /\ Len(x.ibuffer) \in Nat \ {0}
    BY <1>1, <1>2
  <1>4. y = [x EXCEPT !.ibuffer = s] BY <1>2, Zenon
  <1>5. Emptied(y, x) /\ y.ibuffer = s /\ y.in_pipeline = x.in_pipeline
    BY <1>3, <1>4, Zenon DEF WarpStates, Emptied
  <1>6. QED BY <1>3, <1>5, Zenon DEF Popped

\* The warp's fields after its buffer is flushed.
LEMMA FlushUpdate ==
  ASSUME NEW x \in WarpStates, NEW k \in Nat, k = x.in_pipeline - Len(x.ibuffer),
         NEW y, y = ibuffer_flush(x)
  PROVE  Emptied(y, x) /\ y.ibuffer = <<>> /\ y.in_pipeline = k
  <1>1. y = [x EXCEPT !.ibuffer = <<>>, !.in_pipeline = k] BY Zenon DEF ibuffer_flush
  <1>2. <<>> \in Seq(Nat) OBVIOUS
  <1>3. QED BY <1>1, <1>2, Zenon DEF WarpStates, Emptied

\* The warp's fields after an instruction is executed functionally.
LEMMA ExecUpdate ==
  ASSUME NEW x \in WarpStates, NEW n \in 0 .. x.live, NEW fence \in BOOLEAN,
         NEW atomics \in Nat, NEW target \in Nat, NEW next \in Nat,
         NEW u, u = [x EXCEPT !.live = @ - n, !.membar = @ \/ fence, !.n_atomic = atomics,
                              !.pc = target, !.next_pc = next]
  PROVE  HasExecuted(u, x, x.ibuffer, x.in_pipeline, n, target, fence, atomics)
  <1>1. PICK m : m = x.live - n BY Zenon
  <1>2. PICK b : b = (x.membar \/ fence) BY Zenon
  <1>3. m \in Nat /\ b \in BOOLEAN BY <1>1, <1>2 DEF WarpStates
  <1>4. u = [x EXCEPT !.live = m, !.membar = b, !.n_atomic = atomics,
                      !.pc = target, !.next_pc = next]
    BY <1>1, <1>2, Zenon
  <1>5. /\ u \in WarpStates /\ u.imiss = x.imiss /\ u.stores = x.stores
        /\ u.done_exit = x.done_exit /\ u.ibuffer = x.ibuffer /\ u.in_pipeline = x.in_pipeline
        /\ u.pc = target /\ u.live = m /\ u.membar = b /\ u.n_atomic = atomics
    BY <1>3, <1>4 DEF WarpStates
  <1>6. QED BY <1>1, <1>2, <1>5, Zenon DEF HasExecuted

\* The instruction leaves the buffer, and the rest of it if threads exit.
LEMMA KeptUpdate ==
  ASSUME NEW x \in WarpStates, NEW rest, Popped(rest, x), NEW n \in Nat, NEW card \in Nat,
         InFlight(x, card), NEW kept, kept = IF n > 0 THEN ibuffer_flush(rest) ELSE rest
  PROVE  /\ Emptied(kept, x) /\ InFlight(kept, card + 1)
         /\ Len(kept.ibuffer) <= Len(x.ibuffer)
  <1>1. PICK l \in Nat \ {0} : l = Len(x.ibuffer) BY Zenon DEF Popped
  <1>2. /\ Len(rest.ibuffer) = l - 1 /\ rest.in_pipeline = l + card
        /\ Emptied(rest, x) /\ rest \in WarpStates
    BY <1>1, Zenon DEF Popped, InFlight, Emptied
  <1>3. l + card = (l - 1) + (card + 1) /\ (l + card) - (l - 1) = card + 1 /\ l - 1 <= l
    OBVIOUS
  <1>4. CASE n = 0
    <2>1. kept = rest BY <1>4
    <2>2. QED BY <1>1, <1>2, <1>3, <2>1, Zenon DEF InFlight
  <1>5. CASE n > 0
    <2>1. kept = ibuffer_flush(rest) BY <1>5, Zenon
    <2>2. PICK k \in Nat : k = card + 1 OBVIOUS
    <2>3. k = rest.in_pipeline - Len(rest.ibuffer) BY <1>2, <1>3, <2>2, Zenon
    <2>4. Emptied(kept, rest) /\ kept.ibuffer = <<>> /\ kept.in_pipeline = k
      BY <1>2, <2>1, <2>3, FlushUpdate
    <2>5. Len(kept.ibuffer) = 0 /\ 0 <= l BY <2>4
    <2>6. Emptied(kept, x) BY <1>2, <2>4, Zenon DEF Emptied
    <2>7. InFlight(kept, card + 1)
      <3>1. card + 1 = 0 + (card + 1) OBVIOUS
      <3>2. kept.in_pipeline = card + 1 BY <2>2, <2>4, Zenon
      <3>3. QED BY <2>5, <3>1, <3>2, Zenon DEF InFlight
    <2>8. QED BY <1>1, <2>5, <2>6, <2>7, Zenon
  <1>6. QED BY <1>4, <1>5

\* Passed(v), when the warps B wait and f counts the arrivals.
Past(B, f, v) == IF v \in B THEN f[v] - 1 ELSE f[v]

\* The warps A of a CTA have got past the same number of barriers.
CtasAgree(A, B, f) == \A v, w \in A : CtaOf(v) = CtaOf(w) => Past(B, f, v) = Past(B, f, w)

\* Releasing the barrier of a CTA lets all its warps past, or changes nothing.
LEMMA ReleaseBarrier ==
  ASSUME CountingLaws, NEW A \in SUBSET Warps, NEW B \in SUBSET Warps, NEW c \in Ctas,
         B \subseteq A,
         NEW f \in [Warps -> Nat], CtasAgree(A, B, f),
         NEW R, R = Released(B, A, c)
  PROVE  R \subseteq B /\ CtasAgree(A, R, f)
  <1>1. \A v \in Warps : v \in WarpsOf(c) <=> CtaOf(v) = c BY WarpsOfSlot, Zenon
  <1>2. CASE B \cap WarpsOf(c) = A \cap WarpsOf(c)
    <2>1. R = B \ WarpsOf(c) BY <1>2, Zenon DEF Released
    <2>2. ASSUME NEW v \in A, NEW w \in A, CtaOf(v) = CtaOf(w) PROVE Past(R, f, v) = Past(R, f, w)
      <3>0. Past(B, f, v) = Past(B, f, w) BY <2>2, Zenon DEF CtasAgree
      <3>1. CASE CtaOf(v) = c
        <4>1. v \in B /\ w \in B /\ v \notin R /\ w \notin R BY <1>1, <1>2, <2>1, <2>2, <3>1, Zenon
        <4>2. f[v] - 1 = f[w] - 1 BY <3>0, <4>1, Zenon DEF Past
        <4>3. f[v] \in Nat /\ f[w] \in Nat BY Zenon
        <4>4. f[v] = f[w] BY <4>2, <4>3
        <4>5. Past(R, f, v) = f[v] /\ Past(R, f, w) = f[w] BY <4>1, Zenon DEF Past
        <4>6. QED BY <4>4, <4>5, Zenon
      <3>2. CASE CtaOf(v) # c
        <4>1. (v \in B <=> v \in R) /\ (w \in B <=> w \in R) BY <1>1, <2>1, <2>2, <3>2, Zenon
        <4>2. Past(R, f, v) = Past(B, f, v) /\ Past(R, f, w) = Past(B, f, w)
          BY <4>1, Zenon DEF Past
        <4>3. QED BY <3>0, <4>2, Zenon
      <3>3. QED BY <3>1, <3>2, Zenon
    <2>3. QED BY <2>1, <2>2, Zenon DEF CtasAgree
  <1>3. CASE B \cap WarpsOf(c) # A \cap WarpsOf(c)
    <2>1. R = B BY <1>3, Zenon DEF Released
    <2>2. QED BY <2>1, Zenon
  <1>4. QED BY <1>2, <1>3, Zenon

\* warp_reaches_barrier keeps the barrier unit consistent, released or not.
LEMMA ReachBarrier ==
  ASSUME CountingLaws, CoreInv, NEW w \in Warps, w \in m_warp_active, w \notin m_warp_at_barrier,
         warp_reaches_barrier(w)
  PROVE  BarrierInv' /\ arrived' \in [Warps -> Nat]
  <1>0. PICK A, B, f : /\ A = m_warp_active /\ B = m_warp_at_barrier \cup {w}
                       /\ f = [arrived EXCEPT ![w] = @ + 1]
    BY Zenon
  <1>1. BarrierInv /\ arrived \in [Warps -> Nat] /\ A \subseteq Warps
    BY <1>0, Zenon DEF CoreInv, Shape
  <1>2. PICK c \in Ctas : c = CtaOf(w) BY Zenon DEF Warps, CtaOf
  <1>3. /\ f \in [Warps -> Nat] /\ f[w] = arrived[w] + 1
        /\ \A v \in Warps \ {w} : f[v] = arrived[v]
    BY <1>0, <1>1
  <1>4. /\ B \subseteq A /\ B \subseteq Warps /\ \A v \in B : f[v] > 0
    BY <1>0, <1>1, <1>3 DEF BarrierInv
  <1>5. \A v \in Warps : Past(B, f, v) = Passed(v)
    <2>1. ASSUME NEW v \in Warps \ {w} PROVE Past(B, f, v) = Passed(v)
      BY <1>0, <1>3, <2>1, Zenon DEF Past, Passed
    <2>2. Past(B, f, w) = Passed(w)
      <3>1. Past(B, f, w) = arrived[w] + 1 - 1 BY <1>0, <1>1, <1>3 DEF Past
      <3>2. Passed(w) = arrived[w] /\ arrived[w] \in Nat BY <1>1, Zenon DEF Passed
      <3>3. QED BY <3>1, <3>2
    <2>3. QED BY <2>1, <2>2, Zenon
  <1>6. CtasAgree(A, B, f)
    <2>1. \A v, u \in A : CtaOf(v) = CtaOf(u) => Passed(v) = Passed(u)
      BY <1>0, <1>1, Zenon DEF BarrierInv
    <2>2. ASSUME NEW v \in A, NEW u \in A, CtaOf(v) = CtaOf(u)
          PROVE  Past(B, f, v) = Past(B, f, u)
      <3>1. Past(B, f, v) = Passed(v) /\ Past(B, f, u) = Passed(u) BY <1>1, <1>5, Zenon
      <3>2. QED BY <2>1, <2>2, <3>1, Zenon
    <2>3. QED BY <2>2, Zenon DEF CtasAgree
  <1>7. PICK R : R = Released(B, A, c) BY Zenon
  <1>8. m_warp_at_barrier' = R /\ arrived' = f /\ m_warp_active' = A
    BY <1>0, <1>2, <1>7, Zenon DEF warp_reaches_barrier
  <1>9. R \subseteq B /\ CtasAgree(A, R, f)
    BY <1>1, <1>3, <1>4, <1>6, <1>7, ReleaseBarrier, Zenon
  <1>10. \A v : Passed(v)' = Past(R, f, v) BY <1>8, Zenon DEF Passed, Past
  <1>11. BarrierInv' BY <1>4, <1>8, <1>9, <1>10, Zenon DEF BarrierInv, CtasAgree
  <1>12. QED BY <1>3, <1>8, <1>11, Zenon

\* warp_exit keeps the barrier unit consistent, released or not.
LEMMA ExitBarrier ==
  ASSUME CountingLaws, CoreInv, NEW w \in Warps, w \notin m_warp_at_barrier, warp_exit(w)
  PROVE  BarrierInv'
  <1>. DEFINE A == m_warp_active \ {w}
              B == m_warp_at_barrier
              f == arrived
  <1>1. BarrierInv /\ f \in [Warps -> Nat] /\ A \subseteq Warps BY Zenon DEF CoreInv, Shape
  <1>2. PICK c \in Ctas : c = CtaOf(w) BY Zenon DEF Warps, CtaOf
  <1>4. B \subseteq A /\ B \subseteq Warps /\ \A v \in B : f[v] > 0
    BY <1>1, Zenon DEF BarrierInv
  <1>5. \A v : Past(B, f, v) = Passed(v) BY Zenon DEF Past, Passed
  <1>6. CtasAgree(A, B, f)
    BY <1>1, <1>5, Zenon DEF BarrierInv, CtasAgree
  <1>7. PICK R : R = Released(B, A, c) BY Zenon
  <1>8. m_warp_at_barrier' = R /\ arrived' = f /\ m_warp_active' = A
    BY <1>2, <1>7, Zenon DEF warp_exit
  <1> HIDE DEF A, B, f
  <1>9. R \subseteq B /\ CtasAgree(A, R, f)
    BY <1>1, <1>4, <1>6, <1>7, ReleaseBarrier, Zenon
  <1>10. \A v : Passed(v)' = Past(R, f, v) BY <1>8, Zenon DEF Passed, Past
  <1>11. QED BY <1>4, <1>8, <1>9, <1>10, Zenon DEF BarrierInv, CtasAgree

\* What an issued instruction does to the barrier unit is consistent with its exits.
LEMMA IssueBarrierKept ==
  ASSUME CountingLaws, CoreInv, NEW w \in Warps, m_warp[w].live > 0, w \notin m_warp_at_barrier,
         NEW inst, NEW n \in 0 .. m_warp[w].live,
         inst.op # "EXIT" => n = 0, UpdateBarriers(w, inst, n)
  PROVE  /\ BarrierInv' /\ arrived' \in [Warps -> Nat] /\ m_warp_active' \subseteq Warps
         /\ m_warp[w].live - n > 0 <=> w \in m_warp_active'
         /\ \A v \in Warps \ {w} : v \in m_warp_active' <=> v \in m_warp_active
  <1>1. BarrierInv /\ arrived \in [Warps -> Nat] /\ m_warp_active \subseteq Warps
    BY Zenon DEF CoreInv, Shape
  <1>2. w \in m_warp_active /\ m_warp[w].live \in Nat
    BY Zenon DEF CoreInv, WarpInv, ControlInv, Shape, WarpStates
  <1>3. CASE inst.op = "BARRIER"
    <2>1. warp_reaches_barrier(w) BY <1>3, Zenon DEF UpdateBarriers
    <2>2. BarrierInv' /\ arrived' \in [Warps -> Nat] BY <1>2, <2>1, ReachBarrier, Zenon
    <2>3. m_warp_active' = m_warp_active BY <2>1, Zenon DEF warp_reaches_barrier
    <2>4. n = 0 BY <1>3, Zenon
    <2>5. QED BY <1>1, <1>2, <2>2, <2>3, <2>4
  <1>4. CASE inst.op = "EXIT" /\ n = m_warp[w].live
    <2>1. warp_exit(w) BY <1>4, Zenon DEF UpdateBarriers
    <2>2. BarrierInv' BY <2>1, ExitBarrier, Zenon
    <2>3. m_warp_active' = m_warp_active \ {w} /\ arrived' = arrived BY <2>1, Zenon DEF warp_exit
    <2>4. ~(m_warp[w].live - n > 0) BY <1>2, <1>4
    <2>5. QED BY <1>1, <2>2, <2>3, <2>4, Zenon
  <1>5. CASE inst.op # "BARRIER" /\ ~(inst.op = "EXIT" /\ n = m_warp[w].live)
    <2>1. UNCHANGED barrierVars BY <1>5, Zenon DEF UpdateBarriers
    <2>2. BarrierInv' BY <1>1, <2>1, BarrierFrame, Zenon
    <2>3. n # m_warp[w].live BY <1>2, <1>5
    <2>4. m_warp[w].live - n > 0 BY <1>2, <2>3
    <2>5. QED BY <1>1, <1>2, <2>1, <2>2, <2>4, Zenon DEF barrierVars
  <1>6. QED BY <1>3, <1>4, <1>5, Zenon

\* A warp that may issue, and what the instruction adds to what it waits for.
MayIssue(x) == x.ibuffer # <<>> /\ ~x.membar /\ x.n_atomic = 0

Effect(inst, fence, atomics) ==
  /\ inst.acc \in Nat
  /\ fence = (inst.op = "MEMBAR") /\ atomics = IF inst.op = "ATOM" THEN inst.acc ELSE 0

AfterIssue(u, x, n, target, card, fence, atomics) ==
  /\ HasExecuted(u, x, u.ibuffer, u.in_pipeline, n, target, fence, atomics)
  /\ InFlight(u, card + 1) /\ Len(u.ibuffer) <= Len(x.ibuffer)

\* The warp's fields after issue: buffer, counters, flags and live threads.
LEMMA ExecutedWarp ==
  ASSUME NEW x \in WarpStates, MayIssue(x), NEW n \in 0 .. x.live, NEW card \in Nat,
         InFlight(x, card), NEW inst, NEW fence \in BOOLEAN, NEW atomics,
         Effect(inst, fence, atomics), NEW target \in Nat
  PROVE  AfterIssue(Executed(x, inst, n, target), x, n, target, card, fence, atomics)
  <1>1. PICK rest : rest = [x EXCEPT !.ibuffer = Tail(@)] BY Zenon
  <1>2. PICK kept : kept = IF n > 0 THEN ibuffer_flush(rest) ELSE rest BY Zenon
  <1>3. PICK next : next = x.pc + 1 BY Zenon
  <1>4. next \in Nat /\ n \in Nat /\ x.live \in Nat BY <1>3 DEF WarpStates
  <1>5. Popped(rest, x)
    <2>1. x.ibuffer # <<>> BY Zenon DEF MayIssue
    <2>2. QED BY <1>1, <2>1, TailUpdate, Zenon
  <1>6. /\ Emptied(kept, x) /\ InFlight(kept, card + 1)
        /\ Len(kept.ibuffer) <= Len(x.ibuffer)
    BY <1>2, <1>4, <1>5, KeptUpdate, Zenon
  <1>7. kept \in WarpStates /\ kept.n_atomic = 0 /\ n \in 0 .. kept.live
    BY <1>6, Zenon DEF Emptied, MayIssue
  <1>8. atomics \in Nat /\ atomics = IF inst.op = "ATOM" THEN kept.n_atomic + inst.acc
                                                        ELSE kept.n_atomic
    BY <1>7 DEF Effect
  <1>9. PICK u : u = Executed(x, inst, n, target) BY Zenon
  <1>10. u = [kept EXCEPT !.live = @ - n, !.membar = @ \/ inst.op = "MEMBAR",
                          !.n_atomic = IF inst.op = "ATOM" THEN @ + inst.acc ELSE @,
                          !.pc = target, !.next_pc = next]
    BY <1>1, <1>2, <1>3, <1>9, Zenon DEF Executed
  <1>11. u = [kept EXCEPT !.live = @ - n, !.membar = @ \/ fence, !.n_atomic = atomics,
                          !.pc = target, !.next_pc = next]
    BY <1>8, <1>10, Zenon DEF Effect
  <1>12. HasExecuted(u, kept, kept.ibuffer, kept.in_pipeline, n, target, fence, atomics)
    BY <1>4, <1>7, <1>8, <1>11, ExecUpdate
  <1>13. /\ HasExecuted(u, x, u.ibuffer, u.in_pipeline, n, target, fence, atomics)
         /\ InFlight(u, card + 1) /\ Len(u.ibuffer) <= Len(x.ibuffer)
    BY <1>6, <1>12, Zenon DEF HasExecuted, Emptied, InFlight
  <1>14. QED BY <1>9, <1>13, Zenon DEF AfterIssue

\* What issuing instruction i does, when n threads of the warp exit, it goes on at
\* target and its state becomes u.
IssueSame(w) ==
  /\ program' = program /\ ctas_left' = ctas_left /\ m_cta_status' = m_cta_status
  /\ m_inst_fetch_buffer' = m_inst_fetch_buffer /\ m_next_wb' = m_next_wb
  /\ m_pending_writes' = m_pending_writes /\ owed' = owed /\ fences' = fences
  /\ sm_next_uid' = [sm_next_uid EXCEPT ![w] = @ + 1]

MayIssueNow(w) ==
  /\ MayIssue(m_warp[w]) /\ m_warp[w].live \in Nat \ {0} /\ w \notin m_warp_at_barrier
  /\ m_warp[w] \in WarpStates

WarpIssued(u, x, i, n, target, card) ==
  /\ u \in WarpStates /\ u.imiss = x.imiss /\ u.stores = x.stores
  /\ u.done_exit = x.done_exit /\ u.pc = target /\ u.live = x.live - n
  /\ u.membar <=> Op(i) = "MEMBAR"
  /\ Op(i) = "ATOM" => u.n_atomic = i.acc
  /\ Op(i) # "ATOM" => u.n_atomic = 0
  /\ InFlight(u, card + 1) /\ Len(u.ibuffer) <= Len(x.ibuffer)

IssueEffect(w, i, u, n, target) ==
  /\ Added(i) /\ i.w = w /\ Out(i) \cap reg_table[w] = {}
  /\ reg_table' = [reg_table EXCEPT ![w] = @ \cup Out(i)]
  /\ m_warp' = [m_warp EXCEPT ![w] = u]
  /\ n \in 0 .. m_warp[w].live /\ (Op(i) # "EXIT" => n = 0)
  /\ target \in DOMAIN program \/ n = m_warp[w].live
  /\ UpdateBarriers(w, program[i.pc], n)
  /\ WarpIssued(u, m_warp[w], i, n, target, Cardinality(InstOf(w)))

IssueTaken(w, i, u, n, target) == MayIssueNow(w) /\ IssueSame(w) /\ IssueEffect(w, i, u, n, target)

\* The choices of Issue: the instruction, the threads that exit and the next pc.
IssueChoice(w, pc, inst, n, target) ==
  /\ At("ID_OC", PipeOf(inst.op)) = {}
  /\ m_warp' = [m_warp EXCEPT ![w] = Executed(m_warp[w], inst, n, target)]
  /\ UpdateBarriers(w, inst, n)
  /\ reg_table' = [reg_table EXCEPT ![w] = @ \cup inst.out]
  /\ insts' = insts \cup {[w |-> w, pc |-> pc, at |-> "ID_OC", acc |-> inst.acc,
                          uid |-> sm_next_uid[w]]}

\* Issue passed its guards, and chose exiting threads and a branch target.
LEMMA IssueChoices ==
  ASSUME CoreInv, NEW w \in Warps, Issue(w)
  PROVE  /\ MayIssueNow(w) /\ IssueSame(w) /\ ~checkCollision(w, m_warp[w].pc)
         /\ \E n \in Exiting(w, program[m_warp[w].pc]), target \in program[m_warp[w].pc].next :
               IssueChoice(w, m_warp[w].pc, program[m_warp[w].pc], n, target)
  <1>1. IssueSame(w) BY Zenon DEF Issue, memVars, frontVars, IssueSame
  <1>2. m_warp[w] \in WarpStates BY Zenon DEF CoreInv, Shape
  <1>3. MayIssueNow(w) /\ ~checkCollision(w, m_warp[w].pc)
    <2>1. m_warp[w].live \in Nat BY <1>2, Zenon DEF WarpStates
    <2>2. /\ m_warp[w].live # 0 /\ w \notin m_warp_at_barrier /\ ~m_warp[w].membar
          /\ ~(m_warp[w].n_atomic > 0) /\ m_warp[w].ibuffer # <<>>
          /\ ~checkCollision(w, m_warp[w].pc)
      BY Zenon DEF Issue, Ready, waiting, functional_done
    <2>3. m_warp[w].n_atomic \in Nat BY <1>2, Zenon DEF WarpStates
    <2>4. m_warp[w].n_atomic = 0 BY <2>2, <2>3
    <2>5. QED BY <1>2, <2>1, <2>2, <2>4, Zenon DEF MayIssueNow, MayIssue
  <1>4. \E n \in Exiting(w, program[m_warp[w].pc]), target \in program[m_warp[w].pc].next :
               IssueChoice(w, m_warp[w].pc, program[m_warp[w].pc], n, target)
    BY Zenon DEF Issue, IssueChoice
  <1>5. QED BY <1>1, <1>3, <1>4, Zenon

\* Issue is described by one new instruction and one new warp record.
LEMMA IssueEffects ==
  ASSUME CountingLaws, CoreInv, NEW w \in Warps, Issue(w)
  PROVE  \E i, u, n, target : IssueTaken(w, i, u, n, target)
  <1>1. PICK x, pc, inst : x = m_warp[w] /\ pc = m_warp[w].pc /\ inst = program[pc] BY Zenon
  <1>2. PICK n \in Exiting(w, inst), target \in inst.next : IssueChoice(w, pc, inst, n, target)
    BY <1>1, IssueChoices, Zenon
  <1>3. MayIssueNow(w) /\ IssueSame(w) /\ ~checkCollision(w, pc) BY <1>1, IssueChoices, Zenon
  <1>4. x \in WarpStates /\ x.live \in Nat \ {0} /\ MayIssue(x) BY <1>1, <1>3, Zenon DEF MayIssueNow
  <1>5. pc \in DOMAIN program /\ program \in Programs
    BY <1>1, <1>4 DEF CoreInv, WarpInv, ControlInv, Shape
  <1>6. /\ pc \in PCs /\ inst.acc \in Nat /\ target \in Nat
        /\ target \in DOMAIN program \/ (inst.op = "EXIT" /\ ~inst.pred)
    <2>1. WellFormed(program) BY <1>5, CoreAssumption, Zenon
    <2>2. QED BY <1>1, <1>5, <2>1, Zenon DEF WellFormed, PCs
  <1>7. n \in 0 .. x.live /\ (inst.op # "EXIT" => n = 0)
        /\ (inst.op = "EXIT" /\ ~inst.pred => n = x.live)
    BY <1>1, <1>4 DEF Exiting
  <1>8. PICK i : i = [w |-> w, pc |-> pc, at |-> "ID_OC", acc |-> inst.acc,
                      uid |-> sm_next_uid[w]]
    BY Zenon
  <1>9. /\ i.w = w /\ i.pc = pc /\ i.at = "ID_OC" /\ i.acc = inst.acc /\ i.uid = sm_next_uid[w]
        /\ i \in Issued
    <2>1. sm_next_uid[w] \in Nat BY Zenon DEF CoreInv, Shape
    <2>2. QED BY <1>6, <1>8, <2>1, Zenon DEF Issued, Places
  <1>10. Op(i) = inst.op /\ Out(i) = inst.out BY <1>1, <1>9, Zenon DEF Op, Out
  <1>11. Added(i)
    <2>1. At("ID_OC", PipeOf(Op(i))) = {} /\ insts' = insts \cup {i}
      BY <1>2, <1>8, <1>10, Zenon DEF IssueChoice
    <2>2. program' = program BY <1>3, Zenon DEF IssueSame
    <2>3. QED BY <1>1, <1>5, <1>9, <2>1, <2>2, Zenon DEF Added
  <1>12. PICK card \in Nat : card = Cardinality(InstOf(w)) /\ InFlight(x, card)
    <2>1. Cardinality(InstOf(w)) \in Nat BY InstsFinite, Zenon DEF CountingLaws, CardinalityLaw
    <2>2. QED BY <1>1, <2>1, Zenon DEF CoreInv, WarpInv, CountInv, InFlight
  <1>13. PICK fence \in BOOLEAN, atomics \in Nat :
            fence = (Op(i) = "MEMBAR") /\ atomics = IF Op(i) = "ATOM" THEN i.acc ELSE 0
    BY <1>6, <1>9, Zenon
  <1>14. Effect(inst, fence, atomics) BY <1>6, <1>9, <1>10, <1>13, Zenon DEF Effect
  <1>15. PICK u : u = Executed(x, inst, n, target) BY Zenon
  <1>16. AfterIssue(u, x, n, target, card, fence, atomics)
    BY <1>4, <1>6, <1>7, <1>12, <1>14, <1>15, ExecutedWarp, Zenon
  <1>17. /\ m_warp' = [m_warp EXCEPT ![w] = u] /\ UpdateBarriers(w, program[i.pc], n)
         /\ reg_table' = [reg_table EXCEPT ![w] = @ \cup Out(i)]
    BY <1>1, <1>2, <1>9, <1>10, <1>15, Zenon DEF IssueChoice
  <1>18. Out(i) \cap reg_table[w] = {} BY <1>3, <1>9, <1>10, <1>1, Zenon DEF checkCollision
  <1>19. IssueEffect(w, i, u, n, target)
    <2>1. WarpIssued(u, m_warp[w], i, n, target, Cardinality(InstOf(w)))
      <3>1. ~x.membar BY <1>4, Zenon DEF MayIssue
      <3>2. WarpIssued(u, x, i, n, target, card)
        BY <1>13, <1>16, <3>1, Zenon DEF AfterIssue, HasExecuted, WarpIssued
      <3>3. QED BY <1>1, <1>12, <3>2, Zenon
    <2>2. n \in 0 .. m_warp[w].live /\ (Op(i) # "EXIT" => n = 0)
          /\ (target \in DOMAIN program \/ n = m_warp[w].live)
      BY <1>1, <1>6, <1>7, <1>10, Zenon
    <2>3. QED BY <1>9, <1>11, <1>17, <1>18, <2>1, <2>2, Zenon DEF IssueEffect
  <1>20. QED BY <1>3, <1>19, Zenon DEF IssueTaken

\* What the step does to the warp, in terms of its fields.
LEMMA IssueWarp ==
  ASSUME CoreInv, NEW w \in Warps, NEW i, NEW u, NEW n, NEW target,
         IssueTaken(w, i, u, n, target)
  PROVE  /\ m_warp' \in [Warps -> WarpStates] /\ m_warp'[w] = u
         /\ \A v \in Warps \ {w} : m_warp'[v] = m_warp[v]
         /\ WarpIssued(u, m_warp[w], i, n, target, Cardinality(InstOf(w)))
  <1>1. /\ WarpIssued(u, m_warp[w], i, n, target, Cardinality(InstOf(w)))
        /\ m_warp' = [m_warp EXCEPT ![w] = u]
    BY Zenon DEF IssueTaken, IssueEffect
  <1>2. u \in WarpStates BY <1>1, Zenon DEF WarpIssued
  <1>3. m_warp \in [Warps -> WarpStates] BY Zenon DEF CoreInv, Shape
  <1>4. QED BY <1>1, <1>2, <1>3, WarpWrite, Zenon

\* The part of the invariant about instructions and registers, after issue.
LEMMA IssueInsts ==
  ASSUME CountingLaws, CoreInv, NEW w \in Warps, NEW i, NEW u, NEW n, NEW target,
         IssueTaken(w, i, u, n, target)
  PROVE  /\ InstsShape' /\ KeyInv' /\ RoomInv' /\ AccessInv'
         /\ sm_next_uid' \in [Warps -> Nat]
         /\ reg_table' \in [Warps -> SUBSET Registers]
         /\ reg_table'[w] = reg_table[w] \cup Out(i)
         /\ \A v \in Warps \ {w} : reg_table'[v] = reg_table[v]
         /\ \A v : v # w => InstOf(v)' = InstOf(v)
         /\ CountInv(w)'
  <1>1. Added(i) /\ i.w = w BY Zenon DEF IssueTaken, IssueEffect
  <1>2. /\ InstsShape' /\ \A v : v # w => InstOf(v)' = InstOf(v)
        /\ Cardinality(InstOf(w)') = Cardinality(InstOf(w)) + 1
    BY <1>1, AddedInsts, Zenon
  <1>3. owed' = owed /\ m_next_wb' = m_next_wb
        /\ sm_next_uid' = [sm_next_uid EXCEPT ![w] = @ + 1]
    BY Zenon DEF IssueTaken, IssueSame
  <1>4. KeyInv' /\ sm_next_uid' \in [Warps -> Nat] BY <1>1, <1>3, AddedKey, Zenon
  <1>5. RoomInv' /\ AccessInv' BY <1>1, <1>3, AddedRoom, AddedAccess, Zenon
  <1>6. /\ reg_table' \in [Warps -> SUBSET Registers]
        /\ reg_table'[w] = reg_table[w] \cup Out(i)
        /\ \A v \in Warps \ {w} : reg_table'[v] = reg_table[v]
    <2>1. reg_table \in [Warps -> SUBSET Registers] /\ program \in Programs
      BY Zenon DEF CoreInv, Shape
    <2>2. i.pc \in DOMAIN program BY <1>1, Zenon DEF Added
    <2>3. Out(i) \subseteq Registers BY <2>1, <2>2 DEF Out, Registers
    <2>4. reg_table' = [reg_table EXCEPT ![w] = @ \cup Out(i)] BY Zenon DEF IssueTaken, IssueEffect
    <2>5. QED BY <2>1, <2>3, <2>4, Zenon
  <1>7. CountInv(w)'
    <2>1. InFlight(u, Cardinality(InstOf(w)) + 1)
      BY IssueWarp, Zenon DEF WarpIssued
    <2>2. m_warp'[w] = u BY IssueWarp, Zenon
    <2>3. QED BY <1>2, <2>1, <2>2, Zenon DEF CountInv, InFlight
  <1>8. QED BY <1>2, <1>4, <1>5, <1>6, <1>7, Zenon

\* The part of the invariant about barriers, after issue.
LEMMA IssueBarriers ==
  ASSUME CountingLaws, CoreInv, NEW w \in Warps, NEW i, NEW u, NEW n, NEW target,
         IssueTaken(w, i, u, n, target)
  PROVE  /\ BarrierInv' /\ arrived' \in [Warps -> Nat] /\ m_warp_active' \subseteq Warps
         /\ m_warp[w].live - n > 0 <=> w \in m_warp_active'
         /\ \A v \in Warps \ {w} : v \in m_warp_active' <=> v \in m_warp_active
  <1>1. PICK inst : inst = program[i.pc] BY Zenon
  <1>2. n \in 0 .. m_warp[w].live /\ UpdateBarriers(w, inst, n) /\ (inst.op # "EXIT" => n = 0)
    BY <1>1, Zenon DEF IssueTaken, IssueEffect, Op
  <1>3. m_warp[w].live \in Nat \ {0} /\ w \notin m_warp_at_barrier
    BY Zenon DEF IssueTaken, MayIssueNow
  <1>4. m_warp[w].live > 0 BY <1>3
  <1>5. QED BY <1>2, <1>3, <1>4, IssueBarrierKept, Zenon

\* The part of the invariant about the warp's control state, after issue.
LEMMA IssueControl ==
  ASSUME CountingLaws, CoreInv, NEW w \in Warps, NEW i, NEW u, NEW n, NEW target,
         IssueTaken(w, i, u, n, target)
  PROVE  ControlInv(w)'
  <1>1. PICK x : x = m_warp[w] BY Zenon
  <1>2. /\ m_warp'[w] = u /\ u \in WarpStates /\ u.imiss = x.imiss /\ u.pc = target
        /\ u.live = x.live - n /\ Len(u.ibuffer) <= Len(x.ibuffer)
        /\ (u.membar <=> Op(i) = "MEMBAR") /\ (Op(i) # "ATOM" => u.n_atomic = 0)
    <2>1. m_warp'[w] = u /\ WarpIssued(u, x, i, n, target, Cardinality(InstOf(w)))
      BY <1>1, IssueWarp, Zenon
    <2>2. QED BY <2>1, Zenon DEF WarpIssued
  <1>3. /\ x \in WarpStates /\ x.live \in Nat \ {0} /\ x.ibuffer # <<>>
        /\ program' = program /\ m_inst_fetch_buffer' = m_inst_fetch_buffer
    BY <1>1, Zenon DEF IssueTaken, MayIssueNow, MayIssue, IssueSame
  <1>4. /\ x.live <= WarpSize /\ Len(x.ibuffer) <= IBUFFER_SIZE /\ ~x.imiss
        /\ ~(m_inst_fetch_buffer # None /\ m_inst_fetch_buffer.w = w)
    BY <1>1, <1>3, Zenon DEF CoreInv, WarpInv, ControlInv
  <1>5. /\ n \in 0 .. x.live /\ (Op(i) # "EXIT" => n = 0)
        /\ (target \in DOMAIN program \/ n = x.live)
    BY <1>1, Zenon DEF IssueTaken, IssueEffect
  <1>6. u.live > 0 => u.pc \in DOMAIN program BY <1>2, <1>3, <1>5
  <1>7. Len(u.ibuffer) <= IBUFFER_SIZE
    <2>1. Len(u.ibuffer) \in Nat /\ Len(x.ibuffer) \in Nat BY <1>2, <1>3 DEF WarpStates
    <2>2. QED BY <1>2, <1>4, <2>1 DEF IBUFFER_SIZE
  <1>8. u.membar \/ u.n_atomic > 0 => u.live > 0
    <2>1. Op(i) # "EXIT" => u.live > 0 BY <1>2, <1>3, <1>5
    <2>2. u.membar \/ u.n_atomic > 0 => Op(i) # "EXIT" BY <1>2
    <2>3. QED BY <2>1, <2>2, Zenon
  <1>9. u.live <= WarpSize
    <2>1. WarpSize \in Nat BY CoreAssumption, Zenon
    <2>2. QED BY <1>2, <1>3, <1>4, <1>5, <2>1
  <1>10. u.live > 0 <=> w \in m_warp_active' BY <1>1, <1>2, IssueBarriers, Zenon
  <1>11. ~u.imiss BY <1>2, <1>4, Zenon
  <1>12. QED BY <1>2, <1>3, <1>4, <1>6, <1>7, <1>8, <1>9, <1>10, <1>11, Zenon DEF ControlInv

\* The issuing warp's invariant, after issue.
LEMMA IssueWarpInv ==
  ASSUME CountingLaws, CoreInv, NEW w \in Warps, NEW i, NEW u, NEW n, NEW target,
         IssueTaken(w, i, u, n, target)
  PROVE  WarpInv(w)'
  <1>1. /\ Added(i) /\ i.w = w /\ Out(i) \cap reg_table[i.w] = {}
    BY Zenon DEF IssueTaken, IssueEffect
  <1>2. /\ program' = program /\ fences' = fences /\ owed' = owed /\ m_next_wb' = m_next_wb
        /\ m_pending_writes' = m_pending_writes
    BY Zenon DEF IssueTaken, IssueSame
  <1>3. ~m_warp[w].membar /\ m_warp[w].n_atomic = 0 BY Zenon DEF IssueTaken, MayIssueNow, MayIssue
  <1>4. m_warp'[w] = u /\ WarpIssued(u, m_warp[w], i, n, target, Cardinality(InstOf(w)))
    BY IssueWarp, Zenon
  <1>5. ControlInv(w)' /\ CountInv(w)' BY IssueControl, IssueInsts, Zenon
  <1>6. FenceInv(w)'
    <2>1. m_warp'[w].membar <=> Op(i) = "MEMBAR" BY <1>4, Zenon DEF WarpIssued
    <2>2. QED BY <1>1, <1>2, <1>3, <2>1, AddedFence, Zenon
  <1>7. AtomicInv(w)'
    <2>1. m_warp'[w].n_atomic = IF Op(i) = "ATOM" THEN i.acc ELSE 0
      BY <1>4, Zenon DEF WarpIssued
    <2>2. QED BY <1>1, <1>2, <1>3, <2>1, AddedAtomic, Zenon
  <1>8. StoreInv(w)'
    <2>1. SameOwed(w) BY <1>2, Zenon DEF SameOwed
    <2>2. m_warp'[w].stores = m_warp[w].stores BY <1>4, Zenon DEF WarpIssued
    <2>3. QED BY <2>1, <2>2, StoreFrame, Zenon DEF CoreInv, WarpInv
  <1>9. ASSUME NEW r \in Registers PROVE RegInv(w, r)'
    <2>1. reg_table'[i.w] = reg_table[i.w] \cup Out(i) BY <1>1, IssueInsts, Zenon
    <2>2. RegInv(i.w, r)' BY <1>1, <1>2, <2>1, AddedReg, Zenon
    <2>3. QED BY <1>1, <2>2, Zenon
  <1>10. QED BY <1>5, <1>6, <1>7, <1>8, <1>9, Zenon DEF WarpInv

\* Issue concerns no other warp and no reclaimed one.
LEMMA IssueOthers ==
  ASSUME CountingLaws, CoreInv, NEW w \in Warps, NEW i, NEW u, NEW n, NEW target,
         IssueTaken(w, i, u, n, target)
  PROVE  OnlyWarp(w) /\ SlotInv'
  <1>1. IssueSame(w) BY Zenon DEF IssueTaken
  <1>2. OnlyWarp(w)
    <2>1. ASSUME NEW v \in Warps \ {w} PROVE Untouched(v)
      <3>1. /\ m_warp'[v] = m_warp[v] /\ reg_table'[v] = reg_table[v]
            /\ InstOf(v)' = InstOf(v) /\ (v \in m_warp_active' <=> v \in m_warp_active)
        BY <2>1, IssueWarp, IssueInsts, IssueBarriers, Zenon
      <3>2. SameRegs(v) BY <1>1, <3>1, Zenon DEF IssueSame, SameInsts, SameOwed, SameRegs, Back
      <3>3. NoFetch(v) /\ (v \in fences' <=> v \in fences) BY <1>1, Zenon DEF NoFetch, IssueSame
      <3>4. QED BY <3>1, <3>2, <3>3, Zenon DEF Untouched
    <2>2. QED BY <2>1, Zenon DEF OnlyWarp
  <1>3. SlotInv'
    <2>1. ~m_warp[w].done_exit BY LiveUndone DEF IssueTaken, MayIssueNow
    <2>2. \A v \in Warps : m_warp'[v].done_exit = m_warp[v].done_exit
      BY IssueWarp DEF WarpIssued
    <2>3. \A v \in Warps : m_warp[v].done_exit =>
               /\ m_warp'[v] = m_warp[v] /\ reg_table'[v] = reg_table[v]
      BY <2>1, IssueWarp, IssueInsts
    <2>4. SlotInv /\ m_cta_status' = m_cta_status BY <1>1, Zenon DEF CoreInv, IssueSame
    <2>5. QED BY <2>2, <2>3, <2>4, SlotFrame, Zenon
  <1>4. QED BY <1>2, <1>3, Zenon

\* Issuing an instruction keeps CoreInv.
LEMMA IssueKept ==
  ASSUME CountingLaws, CoreInv, NEW w \in Warps, Issue(w)
  PROVE  CoreInv'
  <1>1. PICK i, u, n, target : IssueTaken(w, i, u, n, target) BY IssueEffects, Zenon
  <1>2. /\ InstsShape' /\ KeyInv' /\ RoomInv' /\ AccessInv'
        /\ sm_next_uid' \in [Warps -> Nat] /\ reg_table' \in [Warps -> SUBSET Registers]
    BY <1>1, IssueInsts, Zenon
  <1>3. BarrierInv' /\ arrived' \in [Warps -> Nat] /\ m_warp_active' \subseteq Warps
    BY <1>1, IssueBarriers, Zenon
  <1>4. m_warp' \in [Warps -> WarpStates] BY <1>1, IssueWarp, Zenon
  <1>5. OnlyWarp(w) /\ SlotInv' /\ WarpInv(w)' BY <1>1, IssueOthers, IssueWarpInv, Zenon
  <1>6. \A v \in Warps : WarpInv(v)' BY <1>5, WarpsKept, Zenon
  <1>7. IssueSame(w) BY <1>1, Zenon DEF IssueTaken
  <1>8. Shape' BY <1>2, <1>3, <1>4, <1>7, Zenon DEF CoreInv, Shape, InstsShape, IssueSame
  <1>9. QED BY <1>2, <1>3, <1>5, <1>6, <1>8, Zenon DEF CoreInv

-----------------------------------------------------------------------------
(* The initial states. *)

\* A reset warp is reclaimed, empty and waits for nothing.
LEMMA ResetWarpState ==
  /\ ResetWarp \in WarpStates /\ ResetWarp.done_exit = TRUE /\ ResetWarp.live = 0
  /\ ResetWarp.ibuffer = <<>> /\ ResetWarp.in_pipeline = 0 /\ ResetWarp.stores = 0
  /\ ResetWarp.n_atomic = 0 /\ ResetWarp.membar = FALSE /\ ResetWarp.imiss = FALSE
  <1>1. <<>> \in Seq(Nat) OBVIOUS
  <1>2. QED BY <1>1, Zenon DEF ResetWarp, WarpStates

\* CoreInv holds initially.
LEMMA InitKept ==
  ASSUME CountingLaws, Init
  PROVE  CoreInv
  <1>1. \A w \in Warps : m_warp[w] = ResetWarp BY Zenon DEF Init
  <1>2. \A w \in Warps : InstOf(w) = {} BY Zenon DEF Init, InstOf
  <1>3. IsFiniteSet({}) /\ Cardinality({}) = 0 BY Zenon DEF CountingLaws, EmptyLaw
  <1>4. Shape
    <2>1. program \in Programs /\ Grid \in Nat BY CoreAssumption, Zenon DEF Init
    <2>2. m_warp \in [Warps -> WarpStates] BY ResetWarpState, Zenon DEF Init
    <2>3. ctas_left \in 0 .. Grid BY <2>1 DEF Init
    <2>4. QED BY <1>3, <2>1, <2>2, <2>3, Zenon DEF Init, Shape
  <1>5. KeyInv BY Zenon DEF Init, KeyInv
  <1>6. RoomInv
    <2>1. \A p : At("CU", p) = {} /\ At("EX", p) = {} BY Zenon DEF At, Init
    <2>2. \A p \in Pipes : 0 <= Units[p] BY CoreAssumption
    <2>3. QED BY <1>3, <2>1, <2>2, Zenon DEF RoomInv, Init
  <1>7. AccessInv BY DEF Init, AccessInv
  <1>8. SlotInv
    <2>1. ASSUME NEW c \in Ctas PROVE m_cta_status[c] = WarpSize * Cardinality(Undone(c))
      <3>1. Undone(c) = {} BY <1>1, ResetWarpState, Zenon DEF Undone, Warps, WarpsOf
      <3>2. WarpSize \in Nat BY CoreAssumption, Zenon
      <3>3. WarpSize * 0 = 0 BY <3>2
      <3>4. QED BY <1>3, <3>1, <3>3, Zenon DEF Init
    <2>2. \A w \in Warps : hardware_done(w) /\ reg_table[w] = {}
      BY <1>1, ResetWarpState, Zenon DEF hardware_done, functional_done, Init
    <2>3. QED BY <2>1, <2>2, Zenon DEF SlotInv
  <1>9. BarrierInv BY Zenon DEF Init, BarrierInv
  <1>10. ASSUME NEW w \in Warps PROVE WarpInv(w)
    <2>1. ControlInv(w)
      <3>1. Len(<<>>) <= IBUFFER_SIZE /\ 0 <= WarpSize BY CoreAssumption DEF IBUFFER_SIZE
      <3>2. QED BY <1>1, <3>1, ResetWarpState DEF ControlInv, Init
    <2>2. CountInv(w)
      <3>1. Len(<<>>) = 0 /\ 0 + 0 = 0 OBVIOUS
      <3>2. QED BY <1>1, <1>2, <1>3, <3>1, ResetWarpState, Zenon DEF CountInv
    <2>3. FenceInv(w) BY <1>2, Zenon DEF FenceInv, Init
    <2>4. \A pc \in DOMAIN program : pc \in PCs /\ owed[w][pc] = 0 BY Zenon DEF Init, PCs
    <2>5. AtomicInv(w) BY <1>2, <2>4 DEF AtomicInv
    <2>6. StoreInv(w)
      <3>1. StoreAccesses(w) = {} BY <2>4 DEF StoreAccesses
      <3>2. QED BY <1>1, <1>3, <3>1, ResetWarpState, Zenon DEF StoreInv
    <2>7. ASSUME NEW r \in Registers PROVE RegInv(w, r)
      <3>1. \A pc \in DOMAIN program : Answers(w, pc) = 0
        BY <2>4 DEF Answers, Back, Init
      <3>2. RegFree(w, r) BY <1>2, <3>1, Zenon DEF RegFree, Init
      <3>3. QED BY <3>2, Zenon DEF RegInv
    <2>8. QED BY <2>1, <2>2, <2>3, <2>5, <2>6, <2>7, Zenon DEF WarpInv
  <1>11. QED BY <1>4, <1>5, <1>6, <1>7, <1>8, <1>9, <1>10, Zenon DEF CoreInv

=============================================================================
