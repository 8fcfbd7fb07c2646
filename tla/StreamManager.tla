---------------------------- MODULE StreamManager ----------------------------
(***************************************************************************)
(* The host side of GPGPU-Sim: application threads push operations into    *)
(* CUDA streams (stream_manager.cc) while the simulation thread            *)
(* (gpgpu_sim_thread_concurrent, gpgpusim_entrypoint.cc) takes them out,   *)
(* performs memory copies at once, launches kernels on the GPU and retires *)
(* the kernels that the GPU reports as finished.                           *)
(*                                                                         *)
(* Every mutex-protected section that nothing can observe half-way is one  *)
(* action.  The sections that do stay open across steps are modelled with  *)
(* the lock itself: destroy_stream spins while it holds m_lock,            *)
(* synchronize walks the streams while it holds g_sim_lock, and            *)
(* operation() retires a kernel and then starts an operation in two steps  *)
(* that readers without the lock can tell apart.                           *)
(***************************************************************************)
EXTENDS Naturals, Sequences, FiniteSets

CONSTANTS
  Hosts,              \* application threads calling the CUDA API
  Streams,            \* CUstream_st objects the application may create
  Zero,               \* m_stream_zero, the stream behind the NULL handle
  None,               \* a NULL stream handle; a mutex nobody holds
  Sim,                \* the simulation thread, as an owner of m_lock
  MaxOps,             \* bound: operations the application pushes in total
  MaxConcurrentKernel,\* -gpgpu_max_concurrent_kernel: slots of m_running_kernels
  LaunchBlocking,     \* m_cuda_launch_blocking
  Calls,              \* the API calls this application makes
  SyncFirst,          \* it destroys only drained streams, exits only when drained
  Limited             \* -gpgpu_max_cycle/insn/cta or deadlock detection may trigger

API == {"add", "destroy", "kernel", "func", "copy", "sync", "streamSync", "exit"}

ASSUME StreamAssumption ==
  /\ Zero \notin Streams /\ None \notin Streams \cup {Zero}
  /\ Sim \notin Hosts /\ None \notin Hosts \cup {Sim}
  /\ MaxOps \in Nat
  /\ MaxConcurrentKernel \in Nat \ {0}
  /\ LaunchBlocking \in BOOLEAN /\ SyncFirst \in BOOLEAN /\ Limited \in BOOLEAN
  /\ Calls \subseteq API

VARIABLES
  m_operations,          \* per stream: the operations not yet completed
  m_pending,             \* per stream: next() was called on the front operation
  m_streams,             \* the created streams, in creation order
  m_grid_id_to_stream,   \* kernel uid -> stream it was taken from, or None
  m_service_stream_zero, \* front() is serving stream zero
  m_lock,                \* owner of stream_manager::m_lock, or None
  m_running_kernels,     \* uids in the GPU's kernel slots
  m_finished_kernel,     \* uids the GPU finished, oldest first
  gpu_busy,              \* memory partitions or interconnect still draining
  gpu_limit,             \* active() is FALSE because a configured limit was hit
  g_sim_lock,            \* owner of g_sim_lock, or None
  g_sim_active, g_sim_done, g_sim_signal_exit,
  sim_pc,                \* where the simulation thread is
  host_pc,               \* where each host thread is
  host_op,               \* the operation a host is pushing
  host_stream,           \* the stream argument of a host's call
  host_cursor,           \* iterator of an unlocked walk of empty()
  host_empty,            \* the local variable "result" of that walk
  next_uid               \* kernel_info_t::m_next_uid, here for all operations

gpuVars  == <<m_running_kernels, m_finished_kernel, gpu_busy, gpu_limit>>
simVars  == <<g_sim_active, g_sim_done, g_sim_signal_exit, sim_pc>>
walkVars == <<host_cursor, host_empty>>
hostVars == <<host_pc, host_op, host_stream, walkVars, next_uid>>
mgrVars  == <<m_operations, m_pending, m_streams, m_grid_id_to_stream,
              m_service_stream_zero>>
vars == <<mgrVars, m_lock, gpuVars, g_sim_lock, simVars, hostVars>>

AllStreams == Streams \cup {Zero}
Uids == 1..MaxOps
\* stream_kernel_launch in performance or functional mode, and the memcpy and
\* event operations, which all do their work at once.
OpTypes == {"kernel", "func", "copy"}
Operations == [type : OpTypes, uid : Uids, host : Hosts]

Listed == {m_streams[i] : i \in 1..Len(m_streams)}

-----------------------------------------------------------------------------
(* CUstream_st and the GPU as the stream manager sees it. *)

Empty(s) == m_operations[s] = <<>>

\* Mutant: a stream whose only operation is in flight counts as empty.
concurrent_streams_empty_InFlight ==
  \A s \in Listed : Empty(s) \/ (m_pending[s] /\ Len(m_operations[s]) = 1)

concurrent_streams_empty == \A s \in Listed : Empty(s)

AllEmpty == concurrent_streams_empty /\ Empty(Zero)

can_start_kernel == Cardinality(m_running_kernels) < MaxConcurrentKernel

\* Mutant: traffic left in the memory system is forgotten.
active_CoresOnly == ~gpu_limit /\ m_running_kernels # {}

active == ~gpu_limit /\ (m_running_kernels # {} \/ gpu_busy)

\* Mutant: the pending flag survives the operation.
record_next_done_StillPending(s) ==
  /\ m_operations' = [m_operations EXCEPT ![s] = Tail(@)]
  /\ UNCHANGED m_pending

\* CUstream_st::record_next_done: pop the front operation, no longer pending.
record_next_done(s) ==
  /\ m_operations' = [m_operations EXCEPT ![s] = Tail(@)]
  /\ m_pending' = [m_pending EXCEPT ![s] = FALSE]

-----------------------------------------------------------------------------
(* Initial state: start_sim_thread has created the simulation thread. *)

Init ==
  /\ m_operations = [s \in AllStreams |-> <<>>]
  /\ m_pending = [s \in AllStreams |-> FALSE]
  /\ m_streams = <<>>
  /\ m_grid_id_to_stream = [k \in Uids |-> None]
  /\ m_service_stream_zero = FALSE
  /\ m_lock = None
  /\ m_running_kernels = {}
  /\ m_finished_kernel = <<>>
  /\ gpu_busy = FALSE
  /\ gpu_limit = FALSE
  /\ g_sim_lock = None
  /\ g_sim_active = FALSE
  /\ g_sim_done = FALSE
  /\ g_sim_signal_exit = 0
  /\ sim_pc = "spin"
  /\ host_pc = [h \in Hosts |-> "idle"]
  /\ host_op = [h \in Hosts |-> None]
  /\ host_stream = [h \in Hosts |-> None]
  /\ host_cursor = [h \in Hosts |-> None]
  /\ host_empty = [h \in Hosts |-> TRUE]
  /\ next_uid = 1

-----------------------------------------------------------------------------
(* Host threads. *)

\* After exit_simulation the process is going down: no further calls.
Call(h, c) == c \in Calls /\ host_pc[h] = "idle" /\ ~g_sim_done

Goto(h, l) == host_pc' = [host_pc EXCEPT ![h] = l]

AddStream(h, s) ==
  /\ Call(h, "add")
  /\ s \notin Listed
  /\ m_lock = None
  /\ m_streams' = Append(m_streams, s)
  /\ UNCHANGED <<m_operations, m_pending, m_grid_id_to_stream, m_service_stream_zero,
                 m_lock, gpuVars, g_sim_lock, simVars, hostVars>>

\* A stream the application may name: created, and not being destroyed.
Usable(s) == s \in Listed /\ \A g \in Hosts : host_pc[g] = "destroy" => host_stream[g] # s

\* destroy_stream takes m_lock and keeps it while it waits for the stream.
DestroyStream(h, s) ==
  /\ Call(h, "destroy")
  /\ s \in Listed
  /\ \A g \in Hosts : host_stream[g] # s
  /\ SyncFirst => Empty(s)
  /\ m_lock = None
  /\ m_lock' = h
  /\ Goto(h, "destroy")
  /\ host_stream' = [host_stream EXCEPT ![h] = s]
  /\ UNCHANGED <<mgrVars, gpuVars, g_sim_lock, simVars, host_op, walkVars, next_uid>>

\* m_streams after erase of its i-th element.
Without(i) ==
  [j \in 1..(Len(m_streams) - 1) |-> IF j < i THEN m_streams[j] ELSE m_streams[j + 1]]

DestroyStreamDone(h) ==
  /\ host_pc[h] = "destroy"
  /\ Empty(host_stream[h])
  /\ \E i \in 1..Len(m_streams) :
       m_streams[i] = host_stream[h] /\ m_streams' = Without(i)
  /\ m_lock' = None
  /\ Goto(h, "idle")
  /\ host_stream' = [host_stream EXCEPT ![h] = None]
  /\ UNCHANGED <<m_operations, m_pending, m_grid_id_to_stream, m_service_stream_zero,
                 gpuVars, g_sim_lock, simVars, host_op, walkVars, next_uid>>

\* push, to a created stream or, with a NULL handle, to stream zero.
Blocking(s) == s = None \/ LaunchBlocking

PushBegin(h, s, type) ==
  /\ Call(h, type)
  /\ next_uid \in Uids
  /\ s = None \/ Usable(s)
  /\ host_op' = [host_op EXCEPT ![h] = [type |-> type, uid |-> next_uid, host |-> h]]
  /\ next_uid' = next_uid + 1
  /\ host_stream' = [host_stream EXCEPT ![h] = s]
  /\ Goto(h, IF Blocking(s) THEN "block" ELSE "push")
  /\ UNCHANGED <<mgrVars, m_lock, gpuVars, g_sim_lock, simVars, walkVars>>

\* The first loop of push leaves when it sees no concurrent operation; m_lock
\* is released before it is taken again to push.
PushUnblock(h) ==
  /\ host_pc[h] = "block"
  /\ m_lock = None
  /\ concurrent_streams_empty
  /\ Goto(h, "push")
  /\ UNCHANGED <<mgrVars, m_lock, gpuVars, g_sim_lock, simVars, host_op, host_stream,
                 walkVars, next_uid>>

\* The iterator at the start of a walk, and the one after stream s.
FirstCursor == IF m_streams = <<>> THEN Zero ELSE m_streams[1]

NextCursor(s) ==
  IF s \in Listed
  THEN LET i == CHOOSE i \in 1..Len(m_streams) : m_streams[i] = s
       IN IF i = Len(m_streams) THEN Zero ELSE m_streams[i + 1]
  ELSE Zero

StartWalk(h) ==
  /\ host_cursor' = [host_cursor EXCEPT ![h] = FirstCursor]
  /\ host_empty' = [host_empty EXCEPT ![h] = TRUE]

EndWalk(h) ==
  /\ host_cursor' = [host_cursor EXCEPT ![h] = None]
  /\ host_empty' = [host_empty EXCEPT ![h] = TRUE]

Push(h) ==
  LET target == IF Blocking(host_stream[h]) THEN Zero ELSE host_stream[h] IN
  /\ host_pc[h] = "push"
  /\ m_lock = None
  /\ m_operations' = [m_operations EXCEPT ![target] = Append(@, host_op[h])]
  /\ IF Blocking(host_stream[h])
     THEN Goto(h, "wait") /\ StartWalk(h) /\ UNCHANGED host_op
     ELSE /\ Goto(h, "idle")
          /\ host_op' = [host_op EXCEPT ![h] = None]
          /\ UNCHANGED walkVars
  /\ host_stream' = [host_stream EXCEPT ![h] = None]
  /\ UNCHANGED <<m_pending, m_streams, m_grid_id_to_stream, m_service_stream_zero,
                 m_lock, gpuVars, g_sim_lock, simVars, next_uid>>

\* empty() without m_lock: one stream per step, stream zero last.  An iterator
\* whose stream was destroyed meanwhile reads freed memory: any answer.
Walk(h) ==
  LET s == host_cursor[h] IN
  /\ host_pc[h] \in {"wait", "sync"}
  /\ s # None /\ s # Zero
  /\ host_cursor' = [host_cursor EXCEPT ![h] = NextCursor(s)]
  /\ \E freed \in BOOLEAN :
       /\ s \in Listed => freed = Empty(s)
       /\ host_empty' = [host_empty EXCEPT ![h] = @ /\ freed]
  /\ UNCHANGED <<mgrVars, m_lock, gpuVars, g_sim_lock, simVars, host_pc, host_op,
                 host_stream, next_uid>>

\* Mutant: the last test of push forgets stream zero itself.
WaitZero_StreamsOnly(h) ==
  /\ host_pc[h] = "wait"
  /\ host_cursor[h] = Zero
  /\ IF host_empty[h]
     THEN Goto(h, "idle") /\ EndWalk(h) /\ host_op' = [host_op EXCEPT ![h] = None]
     ELSE UNCHANGED <<host_pc, host_op>> /\ StartWalk(h)
  /\ UNCHANGED <<mgrVars, m_lock, gpuVars, g_sim_lock, simVars, host_stream, next_uid>>

\* The last read of empty() in push: return, or start over.
WaitZero(h) ==
  /\ host_pc[h] = "wait"
  /\ host_cursor[h] = Zero
  /\ IF host_empty[h] /\ Empty(Zero)
     THEN Goto(h, "idle") /\ EndWalk(h) /\ host_op' = [host_op EXCEPT ![h] = None]
     ELSE UNCHANGED <<host_pc, host_op>> /\ StartWalk(h)
  /\ UNCHANGED <<mgrVars, m_lock, gpuVars, g_sim_lock, simVars, host_stream, next_uid>>

\* synchronize() prints the manager's state under m_lock, then loops: take
\* g_sim_lock, walk, read g_sim_active, release.
SynchronizeBegin(h) ==
  /\ Call(h, "sync")
  /\ m_lock = None
  /\ Goto(h, "sync")
  /\ UNCHANGED <<mgrVars, m_lock, gpuVars, g_sim_lock, simVars, host_op, host_stream,
                 walkVars, next_uid>>

SynchronizeLock(h) ==
  /\ host_pc[h] = "sync"
  /\ host_cursor[h] = None
  /\ g_sim_lock = None
  /\ g_sim_lock' = h
  /\ StartWalk(h)
  /\ UNCHANGED <<mgrVars, m_lock, gpuVars, simVars, host_pc, host_op, host_stream,
                 next_uid>>

\* Mutant: synchronize() looks at the queues and not at g_sim_active.
SynchronizeTest_QueuesOnly(h) ==
  /\ host_pc[h] = "sync"
  /\ host_cursor[h] = Zero
  /\ Goto(h, IF host_empty[h] /\ Empty(Zero) THEN "idle" ELSE "sync")
  /\ EndWalk(h)
  /\ g_sim_lock' = None
  /\ UNCHANGED <<mgrVars, m_lock, gpuVars, simVars, host_op, host_stream, next_uid>>

SynchronizeTest(h) ==
  /\ host_pc[h] = "sync"
  /\ host_cursor[h] = Zero
  /\ Goto(h, IF host_empty[h] /\ Empty(Zero) /\ ~g_sim_active THEN "idle" ELSE "sync")
  /\ EndWalk(h)
  /\ g_sim_lock' = None
  /\ UNCHANGED <<mgrVars, m_lock, gpuVars, simVars, host_op, host_stream, next_uid>>

\* CUstream_st::synchronize spins on the stream's own lock.
StreamSynchronizeBegin(h, s) ==
  /\ Call(h, "streamSync")
  /\ Usable(s)
  /\ Goto(h, "streamSync")
  /\ host_stream' = [host_stream EXCEPT ![h] = s]
  /\ UNCHANGED <<mgrVars, m_lock, gpuVars, g_sim_lock, simVars, host_op, walkVars,
                 next_uid>>

StreamSynchronizeDone(h) ==
  /\ host_pc[h] = "streamSync"
  /\ Empty(host_stream[h])
  /\ Goto(h, "idle")
  /\ host_stream' = [host_stream EXCEPT ![h] = None]
  /\ UNCHANGED <<mgrVars, m_lock, gpuVars, g_sim_lock, simVars, host_op, walkVars,
                 next_uid>>

\* exit_simulation runs when the process exits: no other call is in progress.
ExitBegin(h) ==
  /\ Call(h, "exit")
  /\ \A g \in Hosts : host_pc[g] = "idle"
  /\ SyncFirst => AllEmpty
  /\ g_sim_done' = TRUE
  /\ Goto(h, "exit")
  /\ UNCHANGED <<mgrVars, m_lock, gpuVars, g_sim_lock, g_sim_active, g_sim_signal_exit,
                 sim_pc, host_op, host_stream, walkVars, next_uid>>

ExitDone(h) ==
  /\ host_pc[h] = "exit"
  /\ g_sim_signal_exit > 0
  /\ g_sim_signal_exit' = g_sim_signal_exit - 1
  /\ Goto(h, "exited")
  /\ UNCHANGED <<mgrVars, m_lock, gpuVars, g_sim_lock, g_sim_active, g_sim_done, sim_pc,
                 host_op, host_stream, walkVars, next_uid>>

-----------------------------------------------------------------------------
(* The simulation thread: gpgpu_sim_thread_concurrent. *)

SimGoto(from, to) == sim_pc = from /\ sim_pc' = to

\* The outer loop stops spinning when it sees work, or when the program ends.
SimDetect ==
  /\ SimGoto("spin", "start")
  /\ m_lock = None
  /\ ~AllEmpty \/ g_sim_done
  /\ UNCHANGED <<mgrVars, m_lock, gpuVars, g_sim_lock, g_sim_active, g_sim_done,
                 g_sim_signal_exit, hostVars>>

SimStart ==
  /\ SimGoto("start", "operation")
  /\ g_sim_lock = None
  /\ g_sim_active' = TRUE
  /\ UNCHANGED <<mgrVars, m_lock, gpuVars, g_sim_lock, g_sim_done, g_sim_signal_exit,
                 hostVars>>

\* The first half of operation(): take m_lock, check_finished_kernel.
CheckFinishedKernel ==
  /\ SimGoto("operation", "front")
  /\ m_lock = None
  /\ m_lock' = Sim
  /\ IF m_finished_kernel = <<>>
     THEN UNCHANGED <<m_operations, m_pending, m_grid_id_to_stream, m_finished_kernel>>
     ELSE LET uid == Head(m_finished_kernel) IN
          /\ m_finished_kernel' = Tail(m_finished_kernel)
          /\ record_next_done(m_grid_id_to_stream[uid])
          /\ m_grid_id_to_stream' = [m_grid_id_to_stream EXCEPT ![uid] = None]
  /\ UNCHANGED <<m_streams, m_service_stream_zero, m_running_kernels, gpu_busy, gpu_limit,
                 g_sim_lock, g_sim_active, g_sim_done, g_sim_signal_exit, hostVars>>

\* A stream with an operation that front() may take.
Ready(s) == ~m_pending[s] /\ ~Empty(s)

\* Mutant: while the operation of stream zero is in flight, front() goes on to
\* the concurrent streams.
Chosen_FallThrough(serviceZero, s) ==
  IF serviceZero /\ Ready(Zero)
  THEN s = Zero
  ELSE \E i \in 1..Len(m_streams) :
         /\ s = m_streams[i] /\ Ready(s)
         /\ \A j \in 1..(i - 1) : ~Ready(m_streams[j])

\* The stream whose operation front() returns, given the service flag.
Chosen(serviceZero, s) ==
  IF serviceZero
  THEN s = Zero /\ Ready(Zero)
  ELSE \E i \in 1..Len(m_streams) :
         /\ s = m_streams[i] /\ Ready(s)
         /\ \A j \in 1..(i - 1) : ~Ready(m_streams[j])

\* do_operation for a copy or an event: next() and record_next_done().
DoCopy(s) ==
  /\ record_next_done(s)
  /\ UNCHANGED <<m_grid_id_to_stream, m_running_kernels>>

\* do_operation for a kernel.  A functional run completes and is registered as
\* finished before it returns.  With no free slot nothing is launched, although
\* next() has already marked the stream as pending.
DoKernel(s, op) ==
  IF can_start_kernel /\ op.type = "func"
  THEN record_next_done(s) /\ UNCHANGED <<m_grid_id_to_stream, m_running_kernels>>
  ELSE /\ m_pending' = [m_pending EXCEPT ![s] = TRUE]
       /\ m_grid_id_to_stream' = [m_grid_id_to_stream EXCEPT ![op.uid] = s]
       /\ m_running_kernels' = IF can_start_kernel
                               THEN m_running_kernels \cup {op.uid}
                               ELSE m_running_kernels
       /\ UNCHANGED m_operations

\* Mutant: front() never stops serving stream zero.
FrontAndDoOperation_ZeroForever ==
  LET serviceZero == concurrent_streams_empty \/ m_service_stream_zero IN
  /\ SimGoto("front", "cycle")
  /\ m_lock' = None
  /\ m_service_stream_zero' = serviceZero
  /\ \/ /\ \A s \in AllStreams : ~Chosen(serviceZero, s)
        /\ UNCHANGED <<m_operations, m_pending, m_grid_id_to_stream, m_running_kernels>>
     \/ \E s \in AllStreams :
          /\ Chosen(serviceZero, s)
          /\ LET op == Head(m_operations[s]) IN
             IF op.type = "copy" THEN DoCopy(s) ELSE DoKernel(s, op)
  /\ UNCHANGED <<m_streams, m_finished_kernel, gpu_busy, gpu_limit, g_sim_lock,
                 g_sim_active, g_sim_done, g_sim_signal_exit, hostVars>>

\* The second half of operation(): front(), do_operation, release m_lock.
FrontAndDoOperation ==
  LET serviceZero == concurrent_streams_empty \/ m_service_stream_zero IN
  /\ SimGoto("front", "cycle")
  /\ m_lock' = None
  /\ m_service_stream_zero' = (serviceZero /\ ~Empty(Zero))
  /\ \/ /\ \A s \in AllStreams : ~Chosen(serviceZero, s)
        /\ UNCHANGED <<m_operations, m_pending, m_grid_id_to_stream, m_running_kernels>>
     \/ \E s \in AllStreams :
          /\ Chosen(serviceZero, s)
          /\ LET op == Head(m_operations[s]) IN
             IF op.type = "copy" THEN DoCopy(s) ELSE DoKernel(s, op)
  /\ UNCHANGED <<m_streams, m_finished_kernel, gpu_busy, gpu_limit, g_sim_lock,
                 g_sim_active, g_sim_done, g_sim_signal_exit, hostVars>>

\* Inside cycle(): the last core running kernel k reports it as done; the
\* memory system may still hold some of its writes.
SetKernelDone(k) ==
  /\ sim_pc = "cycle" /\ active
  /\ k \in m_running_kernels
  /\ m_running_kernels' = m_running_kernels \ {k}
  /\ m_finished_kernel' = Append(m_finished_kernel, k)
  /\ gpu_busy' \in BOOLEAN
  /\ UNCHANGED <<mgrVars, m_lock, gpu_limit, g_sim_lock, simVars, hostVars>>

\* Inside cycle(): the memory partitions and the interconnect have drained.
GpuDrained ==
  /\ sim_pc = "cycle" /\ active
  /\ gpu_busy
  /\ gpu_busy' = FALSE
  /\ UNCHANGED <<mgrVars, m_lock, m_running_kernels, m_finished_kernel, gpu_limit,
                 g_sim_lock, simVars, hostVars>>

\* The cycle ends (or is skipped when the GPU is inactive); a limit may be hit.
CycleEnd ==
  /\ SimGoto("cycle", "check")
  /\ gpu_limit' \in (IF Limited /\ active THEN {FALSE, TRUE} ELSE {gpu_limit})
  /\ UNCHANGED <<mgrVars, m_lock, m_running_kernels, m_finished_kernel, gpu_busy,
                 g_sim_lock, g_sim_active, g_sim_done, g_sim_signal_exit, hostVars>>

SimCheck ==
  /\ SimGoto("check", IF active \/ ~AllEmpty THEN "operation" ELSE "stop")
  /\ active \/ m_lock = None
  /\ UNCHANGED <<mgrVars, m_lock, gpuVars, g_sim_lock, g_sim_active, g_sim_done,
                 g_sim_signal_exit, hostVars>>

SimStop ==
  /\ SimGoto("stop", "again")
  /\ g_sim_lock = None
  /\ g_sim_active' = FALSE
  /\ UNCHANGED <<mgrVars, m_lock, gpuVars, g_sim_lock, g_sim_done, g_sim_signal_exit,
                 hostVars>>

\* Mutant: the outer loop does not test g_sim_done.
SimAgain_Forever ==
  /\ SimGoto("again", "spin")
  /\ UNCHANGED <<mgrVars, m_lock, gpuVars, g_sim_lock, g_sim_active, g_sim_done,
                 g_sim_signal_exit, hostVars>>

SimAgain ==
  /\ SimGoto("again", IF g_sim_done THEN "exited" ELSE "spin")
  /\ g_sim_signal_exit' = g_sim_signal_exit + (IF g_sim_done THEN 1 ELSE 0)
  /\ UNCHANGED <<mgrVars, m_lock, gpuVars, g_sim_lock, g_sim_active, g_sim_done, hostVars>>

-----------------------------------------------------------------------------

HostReturn(h) ==
  \/ DestroyStreamDone(h) \/ PushUnblock(h) \/ Push(h) \/ Walk(h) \/ WaitZero(h)
  \/ SynchronizeLock(h) \/ SynchronizeTest(h) \/ StreamSynchronizeDone(h) \/ ExitDone(h)

HostCall(h) ==
  \/ \E s \in Streams : AddStream(h, s) \/ DestroyStream(h, s) \/ StreamSynchronizeBegin(h, s)
  \/ \E s \in Streams \cup {None}, type \in OpTypes : PushBegin(h, s, type)
  \/ SynchronizeBegin(h) \/ ExitBegin(h)

SimStep ==
  \/ SimDetect \/ SimStart \/ CheckFinishedKernel \/ FrontAndDoOperation
  \/ CycleEnd \/ SimCheck \/ SimStop \/ SimAgain

GpuStep == GpuDrained \/ \E k \in Uids : SetKernelDone(k)

\* The process has ended, or every host thread rests and may call again.
Rest ==
  /\ \A h \in Hosts : host_pc[h] \in {"idle", "exited"}
  /\ UNCHANGED vars

Next == (\E h \in Hosts : HostCall(h) \/ HostReturn(h)) \/ SimStep \/ GpuStep \/ Rest

Spec == Init /\ [][Next]_vars

\* Threads keep running and a contended mutex is eventually granted to each of
\* them; the GPU eventually completes what it cycles through.
Fairness ==
  /\ \A h \in Hosts : SF_vars(HostReturn(h))
  /\ SF_vars(SimStep)
  /\ SF_vars(GpuStep)

FairSpec == Spec /\ Fairness

-----------------------------------------------------------------------------
(* Properties. *)

HostPcs == {"idle", "destroy", "block", "push", "wait", "sync", "streamSync", "exit",
            "exited"}
SimPcs == {"spin", "start", "operation", "front", "cycle", "check", "stop", "again",
           "exited"}

\* Type invariant of the stream manager, the GPU interface and the threads.
TypeOK ==
  /\ m_operations \in [AllStreams -> Seq(Operations)]
  /\ m_pending \in [AllStreams -> BOOLEAN]
  /\ m_streams \in Seq(Streams)
  /\ m_grid_id_to_stream \in [Uids -> AllStreams \cup {None}]
  /\ m_service_stream_zero \in BOOLEAN
  /\ m_lock \in Hosts \cup {Sim, None}
  /\ m_running_kernels \in SUBSET Uids
  /\ m_finished_kernel \in Seq(Uids)
  /\ gpu_busy \in BOOLEAN /\ gpu_limit \in BOOLEAN
  /\ g_sim_lock \in Hosts \cup {None}
  /\ g_sim_active \in BOOLEAN /\ g_sim_done \in BOOLEAN
  /\ g_sim_signal_exit \in Nat
  /\ sim_pc \in SimPcs
  /\ host_pc \in [Hosts -> HostPcs]
  /\ host_op \in [Hosts -> Operations \cup {None}]
  /\ host_stream \in [Hosts -> Streams \cup {None}]
  /\ host_cursor \in [Hosts -> AllStreams \cup {None}]
  /\ host_empty \in [Hosts -> BOOLEAN]
  /\ next_uid \in 1..(MaxOps + 1)

\* front() never lets an operation of stream zero be in flight together with
\* an operation of a concurrent stream, whatever the hosts push between the
\* unlocked steps of push().
ZeroExclusive == m_pending[Zero] => \A s \in Streams : ~m_pending[s]

Retirable(k) ==
  LET s == m_grid_id_to_stream[k] IN
  s # None /\ m_pending[s] /\ ~Empty(s) /\ Head(m_operations[s]).uid = k

Finished == {m_finished_kernel[i] : i \in 1..Len(m_finished_kernel)}

\* The assertions of register_finished_kernel and record_next_done: a kernel
\* the GPU reports is the front operation of the stream it was mapped to, and
\* that stream is pending.
KernelRegistered == \A k \in m_running_kernels \cup Finished : Retirable(k)

\* "m_pending: front operation has started but not yet completed".
PendingStarted ==
  \A s \in AllStreams :
    m_pending[s] => /\ ~Empty(s)
                    /\ Head(m_operations[s]).uid \in m_running_kernels \cup Finished

\* While g_sim_active is FALSE the GPU holds no kernel, no unretired kernel
\* and no memory traffic: a host that sees FALSE under g_sim_lock may go on.
InactiveQuiescent ==
  ~g_sim_active => /\ m_running_kernels = {}
                   /\ m_finished_kernel = <<>>
                   /\ ~gpu_busy

Queued(uid) == \E s \in AllStreams : \E i \in 1..Len(m_operations[s]) :
                 m_operations[s][i].uid = uid

\* push() to stream zero, or with launch blocking, returns only when the
\* operation it pushed is complete.
PushReturnsComplete ==
  [][\A h \in Hosts : host_pc[h] = "wait" /\ host_pc'[h] = "idle"
                        => ~Queued(host_op[h].uid)]_vars

\* synchronize() returns only when everything its caller pushed is complete
\* and the GPU is quiescent, although it reads the queues one by one.
SynchronizeReturnsComplete ==
  [][\A h \in Hosts : host_pc[h] = "sync" /\ host_pc'[h] = "idle"
       => /\ \A s \in AllStreams : \A i \in 1..Len(m_operations[s]) :
               m_operations[s][i].host # h
          /\ m_running_kernels = {} /\ ~gpu_busy]_vars

Order == INSTANCE StreamOrder WITH queue <- m_operations, started <- m_pending

\* The manager implements stream order: FIFO per stream, stream zero alone.
ImplementsStreamOrder == Order!Spec

\* Every operation that entered a stream is completed.
OperationsComplete == \A k \in Uids : Queued(k) ~> ~Queued(k)

\* Every API call returns: no host spins for ever on a lock or on a queue.
CallsReturn ==
  \A h \in Hosts : host_pc[h] # "idle" ~> host_pc[h] \in {"idle", "exited"}

=============================================================================
