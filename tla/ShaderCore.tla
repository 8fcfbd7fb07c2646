----------------------------- MODULE ShaderCore -----------------------------
(***************************************************************************)
(* One SIMT core of the GPU (shader_core_ctx): CTAs are issued to hardware  *)
(* slots, warps fetch, decode and issue instructions, the scoreboard keeps  *)
(* dependent instructions apart, instructions pass the operand collector,   *)
(* the execution units and the load/store unit, and a warp whose threads    *)
(* are done is reclaimed for the next CTA.                                  *)
(*                                                                          *)
(* cycle() runs the stages of the core in a fixed order, each picking the   *)
(* warp or instruction it serves by round robin; latencies, register bank   *)
(* conflicts and cache misses make the schedule unpredictable.  Here every  *)
(* stage is an action of its own for one warp or instruction, and the       *)
(* stages interleave freely, which includes the order of the code.  The     *)
(* memory system behind the load/store unit is Ruby: it answers accesses    *)
(* and fences in any order.                                                 *)
(***************************************************************************)
EXTENDS Naturals, FiniteSets, Sequences

CONSTANTS
    Ctas,          \* the hardware CTA slots of the core (max_cta)
    WarpsPerCta,   \* warps of a CTA
    WarpSize,      \* threads of a warp
    Grid,          \* CTAs of the kernel that this core will run
    Programs,      \* the kernels to choose from: sequences of instructions
    Units,         \* collector units of the SP, SFU and MEM pipelines
    SendMemfence,  \* -ruby_send_memfence_to_protocol
    None           \* an empty buffer

\* Hardware warp k of CTA slot c: the slot of a warp never changes.
Warps == Ctas \X (1 .. WarpsPerCta)
WarpsOf(c) == {c} \X (1 .. WarpsPerCta)
CtaOf(w) == w[1]

IBUFFER_SIZE == 2
\* Stages of the shared memory pipeline, m_pipeline_reg[0 .. 2].
SharedStages == 3

VARIABLES
    program,         \* the kernel that runs
    ctas_left,       \* CTAs not yet issued
    m_cta_status,    \* CTA slot -> threads not yet registered as exited
    m_warp,          \* shd_warp_t of each warp, with the pc of its SIMT stack
    m_inst_fetch_buffer,
    reg_table,       \* the scoreboard: registers reserved by each warp
    m_warp_active, m_warp_at_barrier,   \* barrier_set_t
    insts,           \* instructions between issue and the end of the pipeline
    sm_next_uid,     \* the uid of the next instruction, here for each warp
    m_pending_writes,  \* warp -> register -> accesses not yet written back
    m_next_wb,       \* writeback buffer of the load/store unit
    owed,            \* warp -> pc -> accesses that Ruby has not answered
    fences,          \* warps whose fence is in Ruby
    arrived          \* warp -> barriers reached so far in this CTA

frontVars == <<m_inst_fetch_buffer, ctas_left, m_cta_status>>
barrierVars == <<m_warp_active, m_warp_at_barrier, arrived>>
memVars == <<m_pending_writes, m_next_wb, owed, fences>>
vars == <<program, frontVars, m_warp, reg_table, barrierVars, insts, sm_next_uid,
          memVars>>

\* The program counters of all kernels.
PCs == UNION {DOMAIN p : p \in Programs}
Registers == UNION {UNION {p[i].out : i \in DOMAIN p} : p \in Programs}

Fetchable(pc) == pc \in DOMAIN program
MemOps == {"LOAD", "STORE", "ATOM", "SHLOAD", "MEMBAR"}
\* The pipeline an instruction is issued to by the scheduler.
PipeOf(op) == IF op \in MemOps THEN "MEM" ELSE IF op = "SFU" THEN "SFU" ELSE "SP"

Pipes == {"SP", "SFU", "MEM"}

\* What every compiled kernel is like: it has a first instruction, control stays
\* inside it until the last thread has left, a load writes a register, and the
\* memory operations without a result write none.
WellFormed(p) ==
    /\ DOMAIN p \subseteq Nat \ {0} /\ 1 \in DOMAIN p
    /\ \A k \in DOMAIN p :
          /\ p[k].acc \in Nat /\ p[k].next \subseteq Nat /\ p[k].pred \in BOOLEAN
          /\ p[k].next \subseteq DOMAIN p \/ (p[k].op = "EXIT" /\ ~p[k].pred)
          /\ p[k].op = "LOAD" => p[k].out # {}
          /\ p[k].op \in {"STORE", "MEMBAR"} => p[k].out = {}

ASSUME CoreAssumption ==
    /\ Ctas \subseteq Nat
    /\ {WarpsPerCta, WarpSize} \subseteq Nat \ {0} /\ Grid \in Nat
    /\ Units \in [Pipes -> Nat]
    /\ SendMemfence \in BOOLEAN
    /\ None \notin [w : Warps, pc : Nat]
    /\ \A p \in Programs : WellFormed(p)

Op(i) == program[i.pc].op
Out(i) == program[i.pc].out
IsLoad(i) == Op(i) \in {"LOAD", "ATOM"}
At(place, pipe) == {i \in insts : i.at = place /\ PipeOf(Op(i)) = pipe}
Moved(i, place) == (insts \ {i}) \cup {[i EXCEPT !.at = place]}

-----------------------------------------------------------------------------
(* shd_warp_t *)

ResetWarp ==
    [pc |-> 0, next_pc |-> 0, live |-> 0, imiss |-> FALSE, ibuffer |-> <<>>,
     n_atomic |-> 0, membar |-> FALSE, done_exit |-> TRUE,
     stores |-> 0, in_pipeline |-> 0]

functional_done(w) == m_warp[w].live = 0

\* Mutant: outstanding stores are forgotten.
hardware_done_NoStores(w) == functional_done(w) /\ m_warp[w].in_pipeline = 0

hardware_done(w) ==
    /\ functional_done(w)
    /\ m_warp[w].stores = 0
    /\ m_warp[w].in_pipeline = 0

waiting(w) ==
    \/ functional_done(w)
    \/ w \in m_warp_at_barrier
    \/ m_warp[w].membar
    \/ m_warp[w].n_atomic > 0

\* Mutant: the flushed instructions stay counted.
ibuffer_flush_Counted(warp) == [warp EXCEPT !.ibuffer = <<>>]

\* ibuffer_flush: what is still buffered leaves the pipeline uncounted.
ibuffer_flush(warp) ==
    [warp EXCEPT !.ibuffer = <<>>,
                 !.in_pipeline = @ - Len(warp.ibuffer)]

-----------------------------------------------------------------------------
(* barrier_set_t *)

\* Mutant: one arrival is taken for all of them.
Released_Subset(waitingNow, active, c) ==
    IF waitingNow \cap WarpsOf(c) \subseteq active
    THEN waitingNow \ WarpsOf(c)
    ELSE waitingNow

\* The warps waiting once those of one CTA are let go, if all have come.
Released(waitingNow, active, c) ==
    IF waitingNow \cap WarpsOf(c) = active \cap WarpsOf(c)
    THEN waitingNow \ WarpsOf(c)
    ELSE waitingNow

warp_reaches_barrier(w) ==
    /\ m_warp_at_barrier' =
          Released(m_warp_at_barrier \cup {w}, m_warp_active, CtaOf(w))
    /\ arrived' = [arrived EXCEPT ![w] = @ + 1]
    /\ UNCHANGED m_warp_active

\* Mutant: an exit does not test for release.
warp_exit_NoRelease(w) ==
    m_warp_active' = m_warp_active \ {w} /\ UNCHANGED <<m_warp_at_barrier, arrived>>

\* The caller has seen that every thread of the warp is done.
warp_exit(w) ==
    /\ m_warp_active' = m_warp_active \ {w}
    /\ m_warp_at_barrier' =
          Released(m_warp_at_barrier, m_warp_active \ {w}, CtaOf(w))
    /\ UNCHANGED arrived

-----------------------------------------------------------------------------
(* Scoreboard *)

checkCollision(w, pc) ==
    reg_table[w] \cap (program[pc].out \cup program[pc].in) # {}
pendingWrites(w) == reg_table[w] # {}
releaseRegisters(w, regs) == [reg_table EXCEPT ![w] = @ \ regs]

\* A memory barrier waits for the registers its warp still expects.
warp_mem_barrier_waiting_for_writes(w, pc) ==
    program[pc].op = "MEMBAR" /\ pendingWrites(w)

-----------------------------------------------------------------------------
(* Front end *)

\* issue_block2core: the lowest free slot is given to the next CTA; reinit
\* resets its warps, init_warps starts them at the first instruction.
IssueBlock ==
    /\ ctas_left > 0
    /\ \E c \in Ctas :
          /\ m_cta_status[c] = 0
          /\ \A d \in Ctas : m_cta_status[d] = 0 => c <= d
          /\ m_cta_status' = [m_cta_status EXCEPT ![c] = WarpsPerCta * WarpSize]
          /\ m_warp' = [w \in Warps |->
                IF w \in WarpsOf(c)
                THEN [ResetWarp EXCEPT !.pc = 1, !.next_pc = 1, !.live = WarpSize,
                         !.done_exit = FALSE,
                         !.ibuffer = m_warp[w].ibuffer,
                         !.stores = m_warp[w].stores,
                         !.in_pipeline = m_warp[w].in_pipeline]
                ELSE m_warp[w]]
          /\ m_warp_active' = m_warp_active \cup WarpsOf(c)
          /\ m_warp_at_barrier' = m_warp_at_barrier \ WarpsOf(c)
          /\ arrived' = [w \in Warps |-> IF w \in WarpsOf(c) THEN 0 ELSE arrived[w]]
    /\ ctas_left' = ctas_left - 1
    /\ UNCHANGED <<program, m_inst_fetch_buffer, reg_table, insts, memVars, sm_next_uid>>

NeedsFetch(w) ==
    /\ m_inst_fetch_buffer = None
    /\ ~functional_done(w)
    /\ ~m_warp[w].imiss
    /\ m_warp[w].ibuffer = <<>>

\* fetch, the instruction cache hits.
FetchHit(w) ==
    /\ NeedsFetch(w)
    /\ m_inst_fetch_buffer' = [w |-> w, pc |-> m_warp[w].next_pc]
    /\ UNCHANGED <<program, ctas_left, m_cta_status, m_warp, reg_table,
                   barrierVars, insts, memVars, sm_next_uid>>

\* fetch, the instruction cache misses.
FetchMiss(w) ==
    /\ NeedsFetch(w)
    /\ m_warp' = [m_warp EXCEPT ![w].imiss = TRUE]
    /\ UNCHANGED <<program, frontVars, reg_table, barrierVars, insts, memVars, sm_next_uid>>

\* The line has come: the warp may fetch again.
FetchFill(w) ==
    /\ m_warp[w].imiss
    /\ m_warp' = [m_warp EXCEPT ![w].imiss = FALSE]
    /\ UNCHANGED <<program, frontVars, reg_table, barrierVars, insts, memVars, sm_next_uid>>

\* register_cta_thread_exit for every thread of a warp; the last one of the
\* CTA frees the slot and its barrier.
Reclaimable(w) ==
    hardware_done(w) /\ ~pendingWrites(w) /\ ~m_warp[w].done_exit

Reclaim(w) ==
    /\ m_inst_fetch_buffer = None
    /\ Reclaimable(w)
    /\ m_warp' = [m_warp EXCEPT ![w].done_exit = TRUE]
    /\ LET c == CtaOf(w)
           rest == m_cta_status[c] - WarpSize
       IN /\ m_cta_status' = [m_cta_status EXCEPT ![c] = rest]
          /\ m_warp_active' =
                IF rest = 0 THEN m_warp_active \ WarpsOf(c) ELSE m_warp_active
          /\ m_warp_at_barrier' =
                IF rest = 0 THEN m_warp_at_barrier \ WarpsOf(c)
                            ELSE m_warp_at_barrier
    /\ UNCHANGED <<program, ctas_left, m_inst_fetch_buffer, reg_table, arrived,
                   insts, memVars, sm_next_uid>>

\* decode: one or two instructions go to the buffer of the warp.  The first
\* may lie past the end of the kernel, on a path the warp does not take.
Decode ==
    /\ m_inst_fetch_buffer # None
    /\ LET w == m_inst_fetch_buffer.w
           pc == m_inst_fetch_buffer.pc
           found == IF Fetchable(pc) /\ Fetchable(pc + 1)
                    THEN <<pc, pc + 1>> ELSE <<pc>>
       IN m_warp' = [m_warp EXCEPT ![w].ibuffer = found,
                                   ![w].in_pipeline = @ + Len(found)]
    /\ m_inst_fetch_buffer' = None
    /\ UNCHANGED <<program, ctas_left, m_cta_status, reg_table, barrierVars,
                   insts, memVars, sm_next_uid>>

-----------------------------------------------------------------------------
(* Issue: LooseRoundRobbinScheduler::cycle and issue_warp *)

\* Control hazard: the buffer does not hold what the SIMT stack asks for.
FlushBuffer(w) ==
    /\ ~waiting(w)
    /\ m_warp[w].ibuffer # <<>>
    /\ Head(m_warp[w].ibuffer) # m_warp[w].pc
    /\ m_warp' = [m_warp EXCEPT ![w] =
                     [ibuffer_flush(m_warp[w]) EXCEPT !.next_pc = m_warp[w].pc]]
    /\ UNCHANGED <<program, frontVars, reg_table, barrierVars, insts, memVars, sm_next_uid>>

Ready(w) ==
    /\ ~waiting(w)
    /\ m_warp[w].ibuffer # <<>>
    /\ Head(m_warp[w].ibuffer) = m_warp[w].pc
    /\ ~checkCollision(w, m_warp[w].pc)
    /\ ~warp_mem_barrier_waiting_for_writes(w, m_warp[w].pc)

\* The threads that an instruction ends: a predicated exit any of them.
Exiting(w, inst) ==
    IF inst.op # "EXIT" THEN {0}
    ELSE IF inst.pred THEN 0 .. m_warp[w].live ELSE {m_warp[w].live}

\* func_exec_inst and updateSIMTStack: the warp after an instruction that ends n
\* of its threads, each of which flushes the buffer, and goes on at target.
Executed(warp, inst, n, target) ==
    LET rest == [warp EXCEPT !.ibuffer = Tail(@)]
        kept == IF n > 0 THEN ibuffer_flush(rest) ELSE rest
    IN [kept EXCEPT !.live = @ - n,
                    !.membar = @ \/ inst.op = "MEMBAR",
                    !.n_atomic = IF inst.op = "ATOM" THEN @ + inst.acc ELSE @,
                    !.pc = target,
                    !.next_pc = warp.pc + 1]

\* What the instruction does to the barriers.
UpdateBarriers(w, inst, n) ==
    CASE inst.op = "BARRIER" -> warp_reaches_barrier(w)
      [] inst.op = "EXIT" /\ n = m_warp[w].live -> warp_exit(w)
      [] OTHER -> UNCHANGED barrierVars

\* issue_warp: the instruction is executed functionally, then sent down the
\* pipeline.
Issue(w) ==
    /\ Ready(w)
    /\ \E pc \in {m_warp[w].pc} : \E inst \in {program[pc]} :
          /\ At("ID_OC", PipeOf(inst.op)) = {}
          /\ \E n \in Exiting(w, inst), target \in inst.next :
                /\ m_warp' = [m_warp EXCEPT ![w] = Executed(m_warp[w], inst, n, target)]
                /\ UpdateBarriers(w, inst, n)
          /\ reg_table' = [reg_table EXCEPT ![w] = @ \cup inst.out]
          /\ insts' = insts \cup {[w |-> w, pc |-> pc, at |-> "ID_OC", acc |-> inst.acc,
                                  uid |-> sm_next_uid[w]]}
    /\ sm_next_uid' = [sm_next_uid EXCEPT ![w] = @ + 1]
    /\ UNCHANGED <<program, frontVars, memVars>>

-----------------------------------------------------------------------------
(* Operand collector and execution units *)

\* allocate_cu: a free collector unit takes the instruction over.
AllocateCU(i) ==
    /\ i.at = "ID_OC"
    /\ Cardinality(At("CU", PipeOf(Op(i)))) < Units[PipeOf(Op(i))]
    /\ insts' = Moved(i, "CU")
    /\ UNCHANGED <<program, frontVars, m_warp, reg_table, barrierVars, memVars, sm_next_uid>>

\* dispatch_ready_cu: any unit whose operands have been read; bank conflicts
\* decide which is first.
DispatchCU(i) ==
    /\ i.at = "CU"
    /\ At("OC_EX", PipeOf(Op(i))) = {}
    /\ insts' = Moved(i, "OC_EX")
    /\ UNCHANGED <<program, frontVars, m_warp, reg_table, barrierVars, memVars, sm_next_uid>>

\* execute, the unit takes the instruction.  The load/store unit has one
\* dispatch register; it notes the accesses a load will write back.
IssueToUnit(i) ==
    /\ i.at = "OC_EX"
    /\ PipeOf(Op(i)) = "MEM" => At("EX", "MEM") = {}
    /\ insts' = Moved(i, "EX")
    /\ m_pending_writes' =
          IF IsLoad(i)
          THEN [m_pending_writes EXCEPT ![i.w] =
                   [r \in Registers |-> IF r \in Out(i) THEN @[r] + i.acc ELSE @[r]]]
          ELSE m_pending_writes
    /\ UNCHANGED <<program, frontVars, m_warp, reg_table, barrierVars,
                   m_next_wb, owed, fences, sm_next_uid>>

\* writeback of the SP and SFU pipelines.  The result bus keeps EX_WB free
\* for what leaves a pipeline, which drains it in the next cycle.
Writeback(i) ==
    /\ i.at = "EX"
    /\ PipeOf(Op(i)) # "MEM"
    /\ insts' = insts \ {i}
    /\ reg_table' = releaseRegisters(i.w, Out(i))
    /\ m_warp' = [m_warp EXCEPT ![i.w].in_pipeline = @ - 1]
    /\ UNCHANGED <<program, frontVars, barrierVars, memVars, sm_next_uid>>

-----------------------------------------------------------------------------
(* Load/store unit *)

\* memory_cycle and the end of ldst_unit::cycle: one access is sent, if Ruby
\* is ready for it (an instruction without active threads, or a store to
\* shared memory, has none); after the last one the instruction leaves the
\* pipeline, and a load nothing is pending for releases its registers.
MemoryCycle(i) ==
    /\ i.at = "EX"
    /\ Op(i) \in {"LOAD", "STORE", "ATOM"}
    /\ \E left \in {IF i.acc > 0 THEN i.acc - 1 ELSE 0} :
          /\ insts' = (insts \ {i}) \cup
                         (IF left > 0 THEN {[i EXCEPT !.acc = left]} ELSE {})
          /\ m_warp' = [m_warp EXCEPT
                ![i.w].stores = IF Op(i) = "STORE" /\ i.acc > 0 THEN @ + 1 ELSE @,
                ![i.w].in_pipeline = IF left = 0 THEN @ - 1 ELSE @]
          /\ reg_table' =
                IF left = 0 /\ IsLoad(i) /\ \A r \in Out(i) : m_pending_writes[i.w][r] = 0
                THEN releaseRegisters(i.w, Out(i))
                ELSE reg_table
    /\ owed' = IF i.acc > 0 THEN [owed EXCEPT ![i.w][i.pc] = @ + 1] ELSE owed
    /\ UNCHANGED <<program, frontVars, barrierVars, m_pending_writes, m_next_wb, fences,
                   sm_next_uid>>

\* shared_cycle: a shared memory load enters the pipeline of its own.
SharedCycle(i) ==
    /\ i.at = "EX"
    /\ Op(i) = "SHLOAD"
    /\ Cardinality(At("SHARED", "MEM")) < SharedStages
    /\ insts' = Moved(i, "SHARED")
    /\ UNCHANGED <<program, frontVars, m_warp, reg_table, barrierVars, memVars, sm_next_uid>>

\* membar_cycle: the fence goes to Ruby, or is over at once; either way it
\* leaves the pipeline.
MembarCycle(i) ==
    /\ i.at = "EX"
    /\ Op(i) = "MEMBAR"
    /\ insts' = insts \ {i}
    /\ m_warp' = [m_warp EXCEPT ![i.w].in_pipeline = @ - 1,
                                ![i.w].membar = @ /\ SendMemfence]
    /\ fences' = IF SendMemfence THEN fences \cup {i.w} ELSE fences
    /\ UNCHANGED <<program, frontVars, reg_table, barrierVars,
                   m_pending_writes, m_next_wb, owed, sm_next_uid>>

\* Ruby answers an access: stores and atomics are acknowledged when the
\* answer is taken, registers are written from m_next_wb.
Reply(w, pc) ==
    /\ m_next_wb = None
    /\ owed[w][pc] > 0
    /\ owed' = [owed EXCEPT ![w][pc] = @ - 1]
    /\ m_warp' = [m_warp EXCEPT
          ![w].stores = IF program[pc].op = "STORE" THEN @ - 1 ELSE @,
          ![w].n_atomic = IF program[pc].op = "ATOM" THEN @ - 1 ELSE @]
    /\ m_next_wb' = [w |-> w, pc |-> pc]
    /\ UNCHANGED <<program, frontVars, reg_table, barrierVars, insts,
                   m_pending_writes, fences, sm_next_uid>>

\* The shared memory pipeline hands an instruction to m_next_wb; which of the
\* few it holds is the oldest is left open.
SharedReply(i) ==
    /\ m_next_wb = None
    /\ i.at = "SHARED"
    /\ insts' = insts \ {i}
    /\ m_warp' = [m_warp EXCEPT ![i.w].in_pipeline = @ - 1]
    /\ m_next_wb' = [w |-> i.w, pc |-> i.pc]
    /\ UNCHANGED <<program, frontVars, reg_table, barrierVars,
                   m_pending_writes, owed, fences, sm_next_uid>>

\* Ruby ends a fence.  It does not wait for the answers to stores of the warp
\* (see FenceCovers of CacheLease3), so this may happen at any time.
FenceReply(w) ==
    /\ m_next_wb = None
    /\ w \in fences
    /\ fences' = fences \ {w}
    /\ m_warp' = [m_warp EXCEPT ![w].membar = FALSE]
    /\ UNCHANGED <<program, frontVars, reg_table, barrierVars, insts,
                   m_pending_writes, m_next_wb, owed, sm_next_uid>>

\* Mutant: the first access of a load releases its registers.
LdstWriteback_First ==
    /\ m_next_wb # None
    /\ LET w == m_next_wb.w
       IN /\ m_pending_writes' = [m_pending_writes EXCEPT ![w] =
                [r \in Registers |->
                   IF r \in Out(m_next_wb) /\ Op(m_next_wb) # "SHLOAD"
                   THEN @[r] - 1 ELSE @[r]]]
          /\ reg_table' = releaseRegisters(w, Out(m_next_wb))
    /\ m_next_wb' = None
    /\ UNCHANGED <<program, frontVars, m_warp, barrierVars, insts, owed, fences, sm_next_uid>>

\* ldst_unit::writeback, m_next_wb is written to the register file: the last
\* access of a load releases the register.
LdstWriteback ==
    /\ m_next_wb # None
    /\ \E w \in {m_next_wb.w} : \E out \in {Out(m_next_wb)} :
          \E counts \in {[r \in Registers |->
                IF r \in out /\ Op(m_next_wb) # "SHLOAD"
                THEN m_pending_writes[w][r] - 1 ELSE m_pending_writes[w][r]]} :
             /\ m_pending_writes' = [m_pending_writes EXCEPT ![w] = counts]
             /\ reg_table' = releaseRegisters(w, {r \in out : counts[r] = 0})
    /\ m_next_wb' = None
    /\ UNCHANGED <<program, frontVars, m_warp, barrierVars, insts, owed, fences, sm_next_uid>>

-----------------------------------------------------------------------------
Init ==
    /\ program \in Programs
    /\ ctas_left = Grid
    /\ m_cta_status = [c \in Ctas |-> 0]
    /\ m_warp = [w \in Warps |-> ResetWarp]
    /\ m_inst_fetch_buffer = None
    /\ reg_table = [w \in Warps |-> {}]
    /\ m_warp_active = {}
    /\ m_warp_at_barrier = {}
    /\ insts = {}
    /\ sm_next_uid = [w \in Warps |-> 0]
    /\ m_pending_writes = [w \in Warps |-> [r \in Registers |-> 0]]
    /\ m_next_wb = None
    /\ owed = [w \in Warps |-> [pc \in PCs |-> 0]]
    /\ fences = {}
    /\ arrived = [w \in Warps |-> 0]

\* The kernel has run: every CTA was issued and every slot is free.
Finished == ctas_left = 0 /\ \A c \in Ctas : m_cta_status[c] = 0

Pipeline ==
    \E i \in insts :
        \/ AllocateCU(i) \/ DispatchCU(i) \/ IssueToUnit(i) \/ Writeback(i)
        \/ MemoryCycle(i) \/ SharedCycle(i) \/ MembarCycle(i) \/ SharedReply(i)

Progress ==
    \/ IssueBlock
    \/ Decode
    \/ \E w \in Warps : Reclaim(w) \/ FlushBuffer(w) \/ Issue(w) \/ FenceReply(w)
    \/ Pipeline
    \/ \E w \in Warps, pc \in DOMAIN program : Reply(w, pc)
    \/ LdstWriteback

Next ==
    \/ Progress
    \/ \E w \in Warps : FetchHit(w) \/ FetchMiss(w) \/ FetchFill(w)

\* Every cycle runs every stage, and Ruby answers what it is asked; a line
\* that was filled is found by the fetch that missed it, so a warp does not
\* miss for ever.
Fairness ==
    /\ WF_vars(Progress)
    /\ \A w \in Warps : WF_vars(FetchFill(w)) /\ SF_vars(FetchHit(w))

Spec == Init /\ [][Next]_vars /\ Fairness
-----------------------------------------------------------------------------
(* Properties *)

InstOf(w) == {i \in insts : i.w = w}

\* Every place of the pipeline holds what its registers have room for, and no
\* counter of the core ever wraps below zero.
TypeOK ==
    /\ ctas_left \in 0 .. Grid
    /\ m_cta_status \in [Ctas -> 0 .. WarpsPerCta * WarpSize]
    /\ \A w \in Warps :
          /\ m_warp[w].live \in 0 .. WarpSize
          /\ Len(m_warp[w].ibuffer) <= IBUFFER_SIZE
          /\ {m_warp[w].stores, m_warp[w].in_pipeline, m_warp[w].n_atomic} \subseteq Nat
          /\ reg_table[w] \subseteq Registers
          /\ m_pending_writes[w] \in [Registers -> Nat]
    /\ m_inst_fetch_buffer \in {None} \cup [w : Warps, pc : Nat]
    /\ m_next_wb \in {None} \cup [w : Warps, pc : DOMAIN program]
    /\ m_warp_at_barrier \subseteq m_warp_active
    /\ \A p \in DOMAIN Units :
          /\ \A place \in {"ID_OC", "OC_EX"} : Cardinality(At(place, p)) <= 1
          /\ Cardinality(At("CU", p)) <= Units[p]
    /\ Cardinality(At("EX", "MEM")) <= 1

\* The instructions of a warp that have still to write a register: those in
\* the pipeline and the loads whose answers have not all been written back.
Writers(w, r) ==
    {i.pc : i \in {j \in InstOf(w) : r \in Out(j)}}
    \cup {pc \in DOMAIN program : owed[w][pc] > 0 /\ r \in program[pc].out}
    \cup {b.pc : b \in {x \in {m_next_wb} \ {None} : x.w = w /\ r \in Out(x)}}

\* Scoreboard: a register is reserved exactly as long as one issued
\* instruction has still to write it, however many accesses a load was split
\* into and in whichever order they return.  So reserveRegister never finds
\* the register taken, and nothing reads a register too early.
ScoreboardExact ==
    \A w \in Warps, r \in Registers :
        /\ Cardinality(Writers(w, r)) <= 1
        /\ (r \in reg_table[w]) <=> (Writers(w, r) # {})

\* m_inst_in_pipeline counts the buffered instructions and those issued and
\* not yet out of the pipeline, also across the flushes that a control hazard
\* or the exit of some threads causes: dec_inst_in_pipeline never underflows,
\* and zero means that the warp has nothing left.  With it, no register set of
\* the pipeline is overrun (TypeOK).
PipelineCounted ==
    /\ TypeOK
    /\ \A w \in Warps :
        m_warp[w].in_pipeline = Len(m_warp[w].ibuffer) + Cardinality(InstOf(w))

\* Barriers a warp has got past.
Passed(w) == IF w \in m_warp_at_barrier THEN arrived[w] - 1 ELSE arrived[w]

\* barrier_set_t: no warp gets past a barrier that another warp of its CTA,
\* not yet exited, has not reached, whether the barrier is released by the
\* last arrival or by the exit of a warp the others no longer wait for.
BarrierSafe ==
    \A c \in Ctas : \A v, w \in WarpsOf(c) \cap m_warp_active : Passed(w) <= arrived[v]

\* The last warp of a CTA is reclaimed only when no warp of the CTA is active or
\* stuck at a barrier, as deallocate_barrier asserts, and the slot is then free
\* of its CTA: reset() may assert that no store and no instruction is
\* outstanding, warps that reinit does not reset start clean all the same, and
\* no late answer or fetch reaches the CTA that takes the slot.
CleanSlots ==
    /\ \A w \in Warps : Reclaimable(w) /\ m_cta_status[CtaOf(w)] = WarpSize =>
          WarpsOf(CtaOf(w)) \cap (m_warp_active \cup m_warp_at_barrier) = {}
    /\ \A w \in Warps : m_cta_status[CtaOf(w)] = 0 =>
          /\ [m_warp[w] EXCEPT !.pc = 0, !.next_pc = 0] = ResetWarp
          /\ InstOf(w) = {} /\ reg_table[w] = {}
          /\ \A pc \in PCs : owed[w][pc] = 0
          /\ \A r \in Registers : m_pending_writes[w][r] = 0
          /\ w \notin fences
          /\ m_inst_fetch_buffer # None => m_inst_fetch_buffer.w # w

\* Every CTA of the kernel completes: no warp is left at a barrier, behind a
\* fence, an atomic or a register that nothing will release.
KernelFinishes == <>Finished
=============================================================================
