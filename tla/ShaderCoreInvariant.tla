------------------------ MODULE ShaderCoreInvariant -------------------------
(***************************************************************************)
(* The inductive invariant of one SIMT core.                               *)
(***************************************************************************)
EXTENDS ShaderCore, Integers

WarpStates ==
    [pc : Nat, next_pc : Nat, live : Nat, imiss : BOOLEAN, ibuffer : Seq(Nat),
     n_atomic : Nat, membar : BOOLEAN, done_exit : BOOLEAN,
     stores : Nat, in_pipeline : Nat]

Places == {"ID_OC", "CU", "OC_EX", "EX", "SHARED"}

Issued == [w : Warps, pc : PCs, at : Places, acc : Nat, uid : Nat]

\* The shape of the state.
Shape ==
    /\ program \in Programs
    /\ ctas_left \in 0 .. Grid
    /\ m_cta_status \in [Ctas -> Nat]
    /\ m_warp \in [Warps -> WarpStates]
    /\ m_inst_fetch_buffer \in {None} \cup [w : Warps, pc : Nat]
    /\ reg_table \in [Warps -> SUBSET Registers]
    /\ m_warp_active \subseteq Warps
    /\ insts \subseteq Issued /\ IsFiniteSet(insts)
    /\ \A i \in insts : i.pc \in DOMAIN program
    /\ sm_next_uid \in [Warps -> Nat]
    /\ m_pending_writes \in [Warps -> [Registers -> Nat]]
    /\ m_next_wb \in {None} \cup [w : Warps, pc : DOMAIN program]
    /\ owed \in [Warps -> [PCs -> Nat]]
    /\ fences \subseteq Warps
    /\ arrived \in [Warps -> Nat]

\* A warp is active as long as it has threads; it fetches with an empty buffer
\* and live threads only, and it keeps its threads while it waits for a fence
\* or for an atomic.
ControlInv(w) ==
    LET x == m_warp[w] IN
    /\ x.live > 0 <=> w \in m_warp_active
    /\ x.live <= WarpSize
    /\ x.live > 0 => x.pc \in DOMAIN program
    /\ Len(x.ibuffer) <= IBUFFER_SIZE
    /\ x.imiss => x.live > 0 /\ x.ibuffer = <<>>
    /\ m_inst_fetch_buffer # None /\ m_inst_fetch_buffer.w = w
          => x.live > 0 /\ x.ibuffer = <<>> /\ ~x.imiss
    /\ x.membar \/ x.n_atomic > 0 => x.live > 0

\* No instruction is lost or confused with another one.
CountInv(w) == m_warp[w].in_pipeline = Len(m_warp[w].ibuffer) + Cardinality(InstOf(w))

KeyInv ==
    /\ \A i \in insts : i.uid < sm_next_uid[i.w]
    /\ \A i, j \in insts : i.w = j.w /\ i.uid = j.uid => i = j

\* The register sets of the pipeline are not overrun.
RoomInv ==
    /\ \A i, j \in insts :
          i.at \in {"ID_OC", "OC_EX"} /\ j.at = i.at /\ PipeOf(Op(i)) = PipeOf(Op(j)) => i = j
    /\ \A i, j \in At("EX", "MEM") : i = j
    /\ \A p \in Pipes : Cardinality(At("CU", p)) <= Units[p]

\* One fence of a warp at a time, in the pipeline or in Ruby.
FenceInv(w) ==
    /\ \A i, j \in InstOf(w) : Op(i) = "MEMBAR" /\ Op(j) = "MEMBAR" => i = j
    /\ \A i \in InstOf(w) : Op(i) = "MEMBAR" => m_warp[w].membar /\ w \notin fences
    /\ w \in fences => m_warp[w].membar

\* One atomic of a warp at a time: n_atomic counts its accesses, those still to
\* be sent and those that Ruby has not answered.
AtomicInv(w) ==
    /\ \A i \in InstOf(w) : Op(i) = "ATOM" /\ i.acc > 0 =>
          /\ m_warp[w].n_atomic = i.acc + owed[w][i.pc]
          /\ \A j \in InstOf(w) : Op(j) = "ATOM" /\ j.acc > 0 => i = j
          /\ \A pc \in DOMAIN program : program[pc].op = "ATOM" /\ owed[w][pc] > 0 => pc = i.pc
    /\ \A pc \in DOMAIN program : program[pc].op = "ATOM" /\ owed[w][pc] > 0 =>
          /\ \/ m_warp[w].n_atomic = owed[w][pc]
             \/ \E i \in InstOf(w) : Op(i) = "ATOM" /\ i.acc > 0
          /\ \A qc \in DOMAIN program : program[qc].op = "ATOM" /\ owed[w][qc] > 0 => qc = pc

\* The unanswered accesses of stores, one element for each.
StoreAccesses(w) ==
    {a \in PCs \X Nat : a[1] \in DOMAIN program /\ program[a[1]].op = "STORE"
                        /\ a[2] \in 1 .. owed[w][a[1]]}

StoreInv(w) ==
    /\ IsFiniteSet(StoreAccesses(w))
    /\ m_warp[w].stores = Cardinality(StoreAccesses(w))

\* Only accesses of loads, stores and atomics are sent, and a load or atomic in
\* the pipeline without an access left never had one.
Accessing == {"LOAD", "STORE", "ATOM"}

AccessInv ==
    /\ \A w \in Warps, pc \in PCs : owed[w][pc] > 0 =>
          pc \in DOMAIN program /\ program[pc].op \in Accessing /\ program[pc].acc > 0
    /\ m_next_wb # None =>
          \/ Op(m_next_wb) \in Accessing /\ program[m_next_wb.pc].acc > 0
          \/ Op(m_next_wb) = "SHLOAD"
    /\ \A i \in insts : Op(i) \in Accessing => (i.acc = 0 <=> program[i.pc].acc = 0)
    /\ \A i \in insts : i.at = "SHARED" => Op(i) = "SHLOAD"

\* m_next_wb holds an answer for the instruction of warp w at pc.
Back(w, pc) == m_next_wb # None /\ m_next_wb.w = w /\ m_next_wb.pc = pc

Answers(w, pc) == owed[w][pc] + (IF Back(w, pc) THEN 1 ELSE 0)

\* The three states of a register of a warp: nothing has to write it; the
\* instruction i in the pipeline has to; or the answers to the instruction at
\* pc, which has left the pipeline, have to.
RegFree(w, r) ==
    /\ r \notin reg_table[w]
    /\ m_pending_writes[w][r] = 0
    /\ \A i \in InstOf(w) : r \notin Out(i)
    /\ \A pc \in DOMAIN program : r \in program[pc].out => Answers(w, pc) = 0

\* A load that the load/store unit has taken.
Accounted(i) == IsLoad(i) /\ i.at = "EX"

RegInPipe(w, r, i) ==
    /\ r \in reg_table[w] /\ r \in Out(i)
    /\ \A j \in InstOf(w) : r \in Out(j) => j = i
    /\ \A pc \in DOMAIN program : r \in program[pc].out /\ Answers(w, pc) > 0 =>
          pc = i.pc /\ Accounted(i)
    /\ m_pending_writes[w][r] = IF Accounted(i) THEN i.acc + Answers(w, i.pc) ELSE 0

RegReturning(w, r, pc) ==
    /\ r \in reg_table[w] /\ r \in program[pc].out
    /\ \A i \in InstOf(w) : r \notin Out(i)
    /\ \A qc \in DOMAIN program : r \in program[qc].out /\ Answers(w, qc) > 0 => qc = pc
    /\ Answers(w, pc) > 0
    /\ m_pending_writes[w][r] = IF program[pc].op = "SHLOAD" THEN 0 ELSE Answers(w, pc)

RegInv(w, r) ==
    \/ RegFree(w, r)
    \/ \E i \in InstOf(w) : RegInPipe(w, r, i)
    \/ \E pc \in DOMAIN program : RegReturning(w, r, pc)

\* The warps of a slot that have not been reclaimed; a reclaimed warp has
\* nothing left.
Undone(c) == {w \in WarpsOf(c) : ~m_warp[w].done_exit}

SlotInv ==
    /\ \A c \in Ctas : m_cta_status[c] = WarpSize * Cardinality(Undone(c))
    /\ \A w \in Warps : m_warp[w].done_exit => hardware_done(w) /\ reg_table[w] = {}

\* The active warps of a CTA have got past the same number of barriers.
BarrierInv ==
    /\ m_warp_at_barrier \subseteq m_warp_active
    /\ \A w \in m_warp_at_barrier : arrived[w] > 0
    /\ \A v, w \in m_warp_active : CtaOf(v) = CtaOf(w) => Passed(v) = Passed(w)

\* What holds of one warp.
WarpInv(w) ==
    /\ ControlInv(w) /\ CountInv(w) /\ FenceInv(w) /\ AtomicInv(w) /\ StoreInv(w)
    /\ \A r \in Registers : RegInv(w, r)

CoreInv ==
    /\ Shape /\ KeyInv /\ RoomInv /\ AccessInv /\ SlotInv /\ BarrierInv
    /\ \A w \in Warps : WarpInv(w)

=============================================================================
