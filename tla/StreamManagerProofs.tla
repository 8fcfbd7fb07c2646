------------------------- MODULE StreamManagerProofs -------------------------
(***************************************************************************)
(* Proofs about the stream manager for any number of hosts, streams and    *)
(* operations: the safety invariants that the runs check on small          *)
(* instances, that the manager implements StreamOrder, and what an API     *)
(* call may rely on when it returns.                                       *)
(***************************************************************************)
EXTENDS StreamManager, Integers, TLAPS

\* Stream zero is in flight only while it is being served, and while it is
\* being served no concurrent stream is in flight.
ServiceInv ==
  /\ m_pending[Zero] => m_service_stream_zero
  /\ m_service_stream_zero => \A s \in Streams : ~m_pending[s]

\* A pending stream has the pending operation at its front.
PendingInv == \A s \in AllStreams : m_pending[s] => m_operations[s] # <<>>

\* The streams that front() and concurrent_streams_empty() look at are all
\* the concurrent streams that can hold operations.
ListedInv ==
  /\ \A s \in Streams \ Listed : m_operations[s] = <<>>
  /\ \A h \in Hosts : host_stream[h] # None => host_stream[h] \in Listed
  /\ \A g, h \in Hosts : /\ host_pc[g] = "destroy"
                         /\ host_stream[h] = host_stream[g]
                         => h = g
  /\ \A h \in Hosts : host_pc[h] = "destroy" => host_stream[h] # None

\* A host between PushBegin and Push holds an operation.
Pushing(h) == host_pc[h] \in {"block", "push"}

\* No two queued operations have the same uid.
QueueUnique ==
  \A s, t \in AllStreams : \A i \in 1..Len(m_operations[s]), j \in 1..Len(m_operations[t]) :
    m_operations[s][i].uid = m_operations[t][j].uid => s = t /\ i = j

QueueOld ==
  \A s \in AllStreams : \A i \in 1..Len(m_operations[s]) : m_operations[s][i].uid < next_uid

\* The operation host h is about to push is in no queue.
ArgFresh(h) ==
  /\ host_op[h] \in Operations
  /\ host_op[h].uid < next_uid
  /\ \A s \in AllStreams : \A i \in 1..Len(m_operations[s]) :
       m_operations[s][i].uid # host_op[h].uid

ArgsFresh == \A h \in Hosts : Pushing(h) => ArgFresh(h)

ArgsUnique ==
  \A g, h \in Hosts : Pushing(g) /\ Pushing(h) /\ host_op[g].uid = host_op[h].uid => g = h

\* Operation uids are unique among queued operations and hosts' arguments.
UniqueInv == QueueUnique /\ QueueOld /\ ArgsFresh /\ ArgsUnique

\* Kernels in the GPU's slots and in its list of finished kernels can be
\* retired, and none is there twice.
RegisterInv ==
  /\ KernelRegistered
  /\ m_running_kernels \cap Finished = {}
  /\ \A i, j \in 1..Len(m_finished_kernel) :
       m_finished_kernel[i] = m_finished_kernel[j] => i = j

StreamInv == TypeOK /\ ServiceInv /\ PendingInv /\ ListedInv /\ UniqueInv /\ RegisterInv

-----------------------------------------------------------------------------
(* Sequences. *)

\* What pop_front leaves.
LEMMA TailFacts ==
  ASSUME NEW S, NEW q \in Seq(S), q # <<>>
  PROVE  /\ Tail(q) \in Seq(S)
         /\ Len(Tail(q)) = Len(q) - 1
         /\ Len(q) \in Nat /\ Len(q) > 0
         /\ \A i \in 1..Len(Tail(q)) : Tail(q)[i] = q[i + 1]
         /\ Head(q) = q[1] /\ Head(q) \in S
  OBVIOUS

\* What push_back leaves.
LEMMA AppendFacts ==
  ASSUME NEW S, NEW q \in Seq(S), NEW e \in S
  PROVE  /\ Append(q, e) \in Seq(S)
         /\ Len(Append(q, e)) = Len(q) + 1
         /\ Len(q) \in Nat
         /\ \A i \in 1..Len(q) : Append(q, e)[i] = q[i]
         /\ Append(q, e)[Len(q) + 1] = e
         /\ Append(q, e) # <<>>
  OBVIOUS

-----------------------------------------------------------------------------
(* What steps that leave a part of the state alone preserve. *)

\* A step that leaves the queues, the map, the flags and the GPU's kernels
\* alone preserves the manager's part of the invariant.
LEMMA ManagerFrame ==
  ASSUME StreamInv,
         UNCHANGED <<m_operations, m_pending, m_grid_id_to_stream, m_service_stream_zero,
                     m_running_kernels, m_finished_kernel>>
  PROVE  ServiceInv' /\ PendingInv' /\ RegisterInv'
  <1>1. ServiceInv' /\ PendingInv'
    BY Zenon DEF StreamInv, ServiceInv, PendingInv
  <1>2. RegisterInv'
    BY DEF StreamInv, RegisterInv, KernelRegistered, Retirable, Finished, Empty
  <1>3. QED BY <1>1, <1>2, Zenon

\* A step that leaves the queues and the operations that hosts hold alone, and
\* in which no host starts a push, preserves the uniqueness of uids.
LEMMA UniqueFrame ==
  ASSUME StreamInv, UNCHANGED <<m_operations, next_uid>>,
         \A g \in Hosts : Pushing(g)' => Pushing(g) /\ host_op'[g] = host_op[g]
  PROVE  UniqueInv'
  <1>1. QueueUnique' /\ QueueOld'
    BY DEF StreamInv, UniqueInv, QueueUnique, QueueOld
  <1>2. \A g \in Hosts : host_op'[g] = host_op[g] /\ ArgFresh(g) => ArgFresh(g)'
    BY Zenon DEF ArgFresh
  <1>3. ArgsFresh'
    BY <1>2, Zenon DEF StreamInv, UniqueInv, ArgsFresh
  <1>4. ArgsUnique'
    BY Zenon DEF StreamInv, UniqueInv, ArgsUnique
  <1>5. QED BY <1>1, <1>3, <1>4, Zenon DEF UniqueInv

\* A step that leaves the queues, the list of streams and the hosts' calls
\* alone preserves the hosts' part of the invariant.
LEMMA HostFrame ==
  ASSUME StreamInv,
         UNCHANGED <<m_operations, m_streams, host_pc, host_op, host_stream, next_uid>>
  PROVE  ListedInv' /\ UniqueInv'
  <1>1. ListedInv'
    BY Zenon DEF StreamInv, ListedInv, Listed
  <1>2. UniqueInv'
    BY UniqueFrame, Zenon DEF Pushing
  <1>3. QED BY <1>1, <1>2, Zenon

-----------------------------------------------------------------------------
(* One lemma per kind of step. *)

\* Host steps that leave the queues and the list of streams alone and do not
\* start a push.
LEMMA HostControlStep ==
  ASSUME StreamInv, NEW h \in Hosts,
         \/ PushUnblock(h) \/ Walk(h) \/ WaitZero(h)
         \/ SynchronizeBegin(h) \/ SynchronizeLock(h) \/ SynchronizeTest(h)
         \/ StreamSynchronizeDone(h) \/ ExitBegin(h) \/ ExitDone(h)
  PROVE  StreamInv'
  <1> USE StreamAssumption
  <1>0. TypeOK BY Zenon DEF StreamInv
  <1>1. ServiceInv' /\ PendingInv' /\ RegisterInv'
    BY ManagerFrame, Zenon DEF PushUnblock, Walk, WaitZero, SynchronizeBegin, SynchronizeLock,
       SynchronizeTest, StreamSynchronizeDone, ExitBegin, ExitDone, mgrVars, gpuVars
  <1>2. TypeOK'
    <2>1. CASE PushUnblock(h)
      BY <1>0, <2>1, Zenon DEF TypeOK, PushUnblock, Goto, HostPcs, mgrVars, gpuVars, simVars,
         walkVars
    <2>2. CASE Walk(h)
      <3>1. NextCursor(host_cursor[h]) \in AllStreams \cup {None}
        BY <1>0, <2>2 DEF TypeOK, NextCursor, Listed, AllStreams
      <3>2. QED
        BY <1>0, <2>2, <3>1, Zenon DEF TypeOK, Walk, mgrVars, gpuVars, simVars
    <2>3. CASE WaitZero(h)
      <3>1. FirstCursor \in AllStreams \cup {None}
        BY <1>0 DEF TypeOK, FirstCursor, AllStreams
      <3>2. \/ Goto(h, "idle") /\ EndWalk(h) /\ host_op' = [host_op EXCEPT ![h] = None]
            \/ UNCHANGED <<host_pc, host_op>> /\ StartWalk(h)
        BY <2>3, Zenon DEF WaitZero
      <3>3. UNCHANGED <<mgrVars, m_lock, gpuVars, g_sim_lock, simVars, host_stream, next_uid>>
        BY <2>3, Zenon DEF WaitZero
      <3>4. CASE Goto(h, "idle") /\ EndWalk(h) /\ host_op' = [host_op EXCEPT ![h] = None]
        BY <1>0, <3>3, <3>4, Zenon DEF TypeOK, Goto, EndWalk, HostPcs, mgrVars, gpuVars, simVars
      <3>5. CASE UNCHANGED <<host_pc, host_op>> /\ StartWalk(h)
        BY <1>0, <3>1, <3>3, <3>5, Zenon DEF TypeOK, StartWalk, mgrVars, gpuVars, simVars
      <3>6. QED BY <3>2, <3>4, <3>5, Zenon
    <2>4. CASE SynchronizeBegin(h)
      BY <1>0, <2>4, Zenon DEF TypeOK, SynchronizeBegin, Goto, HostPcs, mgrVars, gpuVars, simVars,
         walkVars
    <2>5. CASE SynchronizeLock(h)
      <3>1. FirstCursor \in AllStreams \cup {None}
        BY <1>0 DEF TypeOK, FirstCursor, AllStreams
      <3>2. QED
        BY <1>0, <2>5, <3>1, Zenon DEF TypeOK, SynchronizeLock, StartWalk, mgrVars, gpuVars, simVars
    <2>6. CASE SynchronizeTest(h)
      BY <1>0, <2>6, Zenon DEF TypeOK, SynchronizeTest, Goto, EndWalk, HostPcs, mgrVars, gpuVars,
         simVars
    <2>7. CASE StreamSynchronizeDone(h)
      BY <1>0, <2>7, Zenon DEF TypeOK, StreamSynchronizeDone, Goto, HostPcs, mgrVars, gpuVars,
         simVars,
         walkVars
    <2>8. CASE ExitBegin(h)
      BY <1>0, <2>8, Zenon DEF TypeOK, ExitBegin, Goto, HostPcs, mgrVars, gpuVars, walkVars
    <2>9. CASE ExitDone(h)
      BY <1>0, <2>9 DEF TypeOK, ExitDone, Goto, HostPcs, mgrVars, gpuVars, walkVars
    <2>10. QED
      BY <2>1, <2>2, <2>3, <2>4, <2>5, <2>6, <2>7, <2>8, <2>9, Zenon
  <1>3. /\ UNCHANGED <<m_operations, m_streams, next_uid>>
        /\ \A g \in Hosts \ {h} : /\ host_pc'[g] = host_pc[g]
                                  /\ host_op'[g] = host_op[g]
                                  /\ host_stream'[g] = host_stream[g]
        /\ host_pc'[h] = "push" => Pushing(h) /\ host_op'[h] = host_op[h]
        /\ host_pc'[h] \notin {"block", "destroy"}
        /\ host_stream'[h] \in {None, host_stream[h]}
    BY <1>0 DEF TypeOK, Pushing, PushUnblock, Walk, WaitZero, SynchronizeBegin, SynchronizeLock,
       SynchronizeTest, StreamSynchronizeDone, ExitBegin, ExitDone, Goto, EndWalk, StartWalk,
       mgrVars, walkVars, Call
  <1>4. ListedInv'
    BY <1>3 DEF StreamInv, ListedInv, Listed
  <1>5. UniqueInv'
    <2>1. \A g \in Hosts : Pushing(g)' => Pushing(g) /\ host_op'[g] = host_op[g]
      BY <1>3, Zenon DEF Pushing
    <2>2. QED BY <1>3, <2>1, UniqueFrame, Zenon
  <1>6. QED
    BY <1>1, <1>2, <1>4, <1>5, Zenon DEF StreamInv


\* The simulation thread's control steps, and the GPU draining.
LEMMA SimControlStep ==
  ASSUME StreamInv,
         \/ SimDetect \/ SimStart \/ CycleEnd \/ SimCheck \/ SimStop \/ SimAgain \/ GpuDrained
  PROVE  StreamInv'
  <1> DEFINE Frame == /\ UNCHANGED <<mgrVars, m_lock, m_running_kernels, m_finished_kernel>>
                      /\ UNCHANGED <<g_sim_lock, g_sim_done, hostVars>>
             Moved == /\ gpu_busy' \in {gpu_busy, FALSE} /\ gpu_limit' \in {gpu_limit, FALSE, TRUE}
                      /\ g_sim_active' \in {g_sim_active, FALSE, TRUE}
                      /\ g_sim_signal_exit' \in {g_sim_signal_exit, g_sim_signal_exit + 1}
                      /\ sim_pc' \in SimPcs
  <1>0. TypeOK BY Zenon DEF StreamInv
  <1>1. Frame /\ Moved
    <2> USE DEF gpuVars, simVars, SimPcs, SimGoto
    <2>1. CASE SimDetect BY <2>1, Zenon DEF SimDetect
    <2>2. CASE SimStart BY <2>2, Zenon DEF SimStart
    <2>3. CASE CycleEnd
      <3>1. Frame /\ sim_pc' = "check" BY <2>3, Zenon DEF CycleEnd
      <3>2. gpu_limit' \in {gpu_limit, FALSE, TRUE} BY <2>3, Zenon DEF CycleEnd
      <3>3. UNCHANGED <<gpu_busy, g_sim_active, g_sim_signal_exit>> BY <2>3, Zenon DEF CycleEnd
      <3>4. QED BY <3>1, <3>2, <3>3, Zenon
    <2>4. CASE SimCheck BY <2>4, Zenon DEF SimCheck
    <2>5. CASE SimStop BY <2>5, Zenon DEF SimStop
    <2>6. CASE SimAgain
      <3>1. g_sim_signal_exit \in Nat BY <1>0, Zenon DEF TypeOK
      <3>2. g_sim_signal_exit' \in {g_sim_signal_exit, g_sim_signal_exit + 1}
        BY <2>6, <3>1 DEF SimAgain
      <3>3. QED BY <2>6, <3>2, Zenon DEF SimAgain
    <2>7. CASE GpuDrained BY <2>7, Zenon DEF GpuDrained
    <2>8. QED BY <2>1, <2>2, <2>3, <2>4, <2>5, <2>6, <2>7, Zenon
  <1>2. ServiceInv' /\ PendingInv' /\ RegisterInv'
    BY <1>1, ManagerFrame, Zenon DEF mgrVars
  <1>3. ListedInv' /\ UniqueInv'
    BY <1>1, HostFrame, Zenon DEF mgrVars, hostVars
  <1>4. TypeOK'
    <2>1. g_sim_signal_exit' \in Nat BY <1>0, <1>1 DEF TypeOK
    <2>2. gpu_busy' \in BOOLEAN /\ gpu_limit' \in BOOLEAN /\ g_sim_active' \in BOOLEAN
      BY <1>0, <1>1, Zenon DEF TypeOK
    <2>3. QED BY <1>0, <1>1, <2>1, <2>2, Zenon DEF TypeOK, mgrVars, hostVars, walkVars
  <1>5. QED BY <1>2, <1>3, <1>4, Zenon DEF StreamInv

\* add_stream.
LEMMA AddStreamStep ==
  ASSUME StreamInv, NEW h \in Hosts, NEW s \in Streams, AddStream(h, s)
  PROVE  StreamInv'
  <1>0. TypeOK BY Zenon DEF StreamInv
  <1>1. ServiceInv' /\ PendingInv' /\ RegisterInv'
    BY ManagerFrame, Zenon DEF AddStream, gpuVars
  <1>2. TypeOK'
    BY <1>0 DEF TypeOK, AddStream, gpuVars, simVars, hostVars, walkVars
  <1>3. Listed \subseteq Listed'
    BY <1>0, AppendFacts DEF TypeOK, AddStream, Listed
  <1>4. ListedInv'
    BY <1>3, Zenon DEF StreamInv, ListedInv, AddStream, hostVars
  <1>5. UniqueInv'
    BY UniqueFrame, Zenon DEF Pushing, AddStream, hostVars
  <1>6. QED BY <1>1, <1>2, <1>4, <1>5, Zenon DEF StreamInv

\* destroy_stream, up to its loop.
LEMMA DestroyStreamStep ==
  ASSUME StreamInv, NEW h \in Hosts, NEW s \in Streams, DestroyStream(h, s)
  PROVE  StreamInv'
  <1>0. TypeOK BY Zenon DEF StreamInv
  <1>1. ServiceInv' /\ PendingInv' /\ RegisterInv'
    BY ManagerFrame, Zenon DEF DestroyStream, mgrVars, gpuVars
  <1>2. TypeOK'
    BY <1>0, Zenon DEF TypeOK, DestroyStream, Goto, HostPcs, mgrVars, gpuVars, simVars, walkVars
  <1>3. ListedInv'
    <2>1. /\ host_pc'[h] = "destroy" /\ host_stream'[h] = s
          /\ \A g \in Hosts \ {h} : host_pc'[g] = host_pc[g] /\ host_stream'[g] = host_stream[g]
      BY <1>0, Zenon DEF TypeOK, DestroyStream, Goto
    <2>2. s \in Listed /\ \A g \in Hosts : host_stream[g] # s
      BY Zenon DEF DestroyStream
    <2>3. UNCHANGED <<m_operations, m_streams>>
      BY Zenon DEF DestroyStream, mgrVars
    <2>4. Listed' = Listed
      BY <2>3, Zenon DEF Listed
    <2>5. s # None
      BY StreamAssumption, Zenon
    <2>6. QED BY <2>1, <2>2, <2>3, <2>4, <2>5, Zenon DEF StreamInv, ListedInv
  <1>4. UniqueInv'
    <2>1. /\ UNCHANGED <<m_operations, host_op, next_uid>>
          /\ \A g \in Hosts : Pushing(g)' => Pushing(g)
      BY <1>0, Zenon DEF TypeOK, DestroyStream, Goto, Pushing, mgrVars
    <2>2. QED BY <2>1, UniqueFrame, Zenon
  <1>5. QED BY <1>1, <1>2, <1>3, <1>4, Zenon DEF StreamInv

\* destroy_stream, once the stream is empty.
LEMMA DestroyStreamDoneStep ==
  ASSUME StreamInv, NEW h \in Hosts, DestroyStreamDone(h)
  PROVE  StreamInv'
  <1>0. TypeOK BY Zenon DEF StreamInv
  <1>1. ServiceInv' /\ PendingInv' /\ RegisterInv'
    BY ManagerFrame, Zenon DEF DestroyStreamDone, mgrVars, gpuVars
  <1> DEFINE s == host_stream[h]
  <1>2. PICK i \in 1..Len(m_streams) : m_streams[i] = s /\ m_streams' = Without(i)
    BY Zenon DEF DestroyStreamDone
  <1>3. m_streams' \in Seq(Streams)
    BY <1>0, <1>2 DEF TypeOK, Without
  <1>4. TypeOK'
    BY <1>0, <1>3, Zenon DEF TypeOK, DestroyStreamDone, Goto, HostPcs, gpuVars, simVars, walkVars
  <1>5. Listed \ {s} \subseteq Listed'
    <2> SUFFICES ASSUME NEW j \in 1..Len(m_streams), m_streams[j] # s
                 PROVE  \E k \in 1..Len(m_streams') : m_streams'[k] = m_streams[j]
      BY Zenon DEF Listed
    <2>1. Len(m_streams') = Len(m_streams) - 1 /\ Len(m_streams) \in Nat
      BY <1>0, <1>2 DEF TypeOK, Without
    <2>2. CASE j < i
      BY <2>1, <2>2, <1>2 DEF Without
    <2>3. CASE j > i
      <3>1. m_streams'[j - 1] = m_streams[j]
        BY <2>1, <2>3, <1>2 DEF Without
      <3>2. QED BY <2>1, <2>3, <3>1
    <2>4. QED BY <2>2, <2>3, <1>2
  <1>6. ListedInv'
    <2>1. /\ host_pc[h] = "destroy" /\ m_operations[s] = <<>>
          /\ host_pc'[h] = "idle" /\ host_stream'[h] = None
          /\ \A g \in Hosts \ {h} : host_pc'[g] = host_pc[g] /\ host_stream'[g] = host_stream[g]
          /\ UNCHANGED m_operations
      BY <1>0, Zenon DEF TypeOK, DestroyStreamDone, Goto, Empty
    <2>2. \A g \in Hosts \ {h} : host_stream[g] # s
      BY <2>1, Zenon DEF StreamInv, ListedInv
    <2>3. QED BY <1>5, <2>1, <2>2 DEF StreamInv, ListedInv
  <1>7. UniqueInv'
    <2>1. /\ UNCHANGED <<m_operations, host_op, next_uid>>
          /\ \A g \in Hosts : Pushing(g)' => Pushing(g)
      BY <1>0, Zenon DEF TypeOK, DestroyStreamDone, Goto, Pushing
    <2>2. QED BY <2>1, UniqueFrame, Zenon
  <1>8. QED BY <1>1, <1>4, <1>6, <1>7, Zenon DEF StreamInv


\* cudaStreamSynchronize, up to its loop.
LEMMA StreamSynchronizeBeginStep ==
  ASSUME StreamInv, NEW h \in Hosts, NEW s \in Streams, StreamSynchronizeBegin(h, s)
  PROVE  StreamInv'
  <1>0. TypeOK BY Zenon DEF StreamInv
  <1>1. ServiceInv' /\ PendingInv' /\ RegisterInv'
    BY ManagerFrame, Zenon DEF StreamSynchronizeBegin, mgrVars, gpuVars
  <1>2. TypeOK'
    BY <1>0, Zenon DEF TypeOK, StreamSynchronizeBegin, Goto, HostPcs, mgrVars, gpuVars, simVars,
       walkVars
  <1>3. /\ host_pc'[h] = "streamSync" /\ host_stream'[h] = s
        /\ \A g \in Hosts \ {h} : host_pc'[g] = host_pc[g] /\ host_stream'[g] = host_stream[g]
        /\ s \in Listed /\ \A g \in Hosts : host_pc[g] = "destroy" => host_stream[g] # s
        /\ Listed' = Listed
        /\ UNCHANGED <<m_operations, host_op, next_uid>>
    BY <1>0, Zenon DEF TypeOK, StreamSynchronizeBegin, Usable, Goto, Listed, mgrVars
  <1>4. ListedInv'
    BY <1>3 DEF StreamInv, ListedInv
  <1>5. UniqueInv'
    <2>1. \A g \in Hosts : Pushing(g)' => Pushing(g)
      BY <1>3, Zenon DEF Pushing
    <2>2. QED BY <1>3, <2>1, UniqueFrame, Zenon
  <1>6. QED BY <1>1, <1>2, <1>4, <1>5, Zenon DEF StreamInv

-----------------------------------------------------------------------------
(* push, the one host call that changes the queues. *)

\* The start of push: a fresh uid for the operation.
LEMMA PushBeginStep ==
  ASSUME StreamInv, NEW h \in Hosts, NEW s \in Streams \cup {None}, NEW type \in OpTypes,
         PushBegin(h, s, type)
  PROVE  StreamInv'
  <1>0. TypeOK BY Zenon DEF StreamInv
  <1>1. ServiceInv' /\ PendingInv' /\ RegisterInv'
    BY ManagerFrame, Zenon DEF PushBegin, mgrVars, gpuVars
  <1> DEFINE op == [type |-> type, uid |-> next_uid, host |-> h]
  <1>2. op \in Operations /\ op.uid = next_uid /\ next_uid \in Nat /\ next_uid' = next_uid + 1
    <2>1. next_uid \in Uids /\ next_uid \in Nat /\ next_uid' = next_uid + 1
      BY <1>0, StreamAssumption DEF TypeOK, PushBegin, Uids
    <2>2. QED BY <2>1, Zenon DEF Operations
  <1>3. TypeOK'
    <2>1. next_uid' \in 1..(MaxOps + 1)
      <3>1. next_uid \in 1..MaxOps /\ MaxOps \in Nat BY StreamAssumption, Zenon DEF PushBegin, Uids
      <3>2. QED BY <1>2, <3>1
    <2>2. host_op' \in [Hosts -> Operations \cup {None}]
      BY <1>0, <1>2, Zenon DEF TypeOK, PushBegin
    <2>3. host_pc' \in [Hosts -> HostPcs]
      BY <1>0, Zenon DEF TypeOK, PushBegin, Goto, HostPcs
    <2>4. host_stream' \in [Hosts -> Streams \cup {None}]
      BY <1>0, Zenon DEF TypeOK, PushBegin
    <2>5. QED
      BY <1>0, <2>1, <2>2, <2>3, <2>4, Zenon DEF TypeOK, PushBegin, mgrVars, gpuVars, simVars,
         walkVars
  <1>4. /\ host_pc[h] = "idle" /\ host_pc'[h] \in {"block", "push"}
        /\ host_stream'[h] = s /\ host_op'[h] = op
        /\ \A g \in Hosts \ {h} : /\ host_pc'[g] = host_pc[g] /\ host_stream'[g] = host_stream[g]
                                  /\ host_op'[g] = host_op[g]
        /\ s # None => s \in Listed /\ \A g \in Hosts : host_pc[g] = "destroy" => host_stream[g] # s
        /\ Listed' = Listed /\ UNCHANGED m_operations
    BY <1>0 DEF TypeOK, PushBegin, Call, Usable, Goto, Listed, mgrVars
  <1>5. ListedInv'
    BY <1>4 DEF StreamInv, ListedInv
  <1>6. UniqueInv'
    <2>1. \A g \in Hosts \ {h} : Pushing(g)' => Pushing(g)
      BY <1>4, Zenon DEF Pushing
    <2>2. \A g \in Hosts \ {h} : Pushing(g)' =>
             host_op'[g] \in Operations /\ host_op'[g].uid \in Nat /\ host_op'[g].uid < next_uid
      BY <1>4, <2>1 DEF StreamInv, UniqueInv, ArgsFresh, ArgFresh, Operations, Uids
    <2>3. \A t \in AllStreams : \A i \in 1..Len(m_operations[t]) :
            m_operations[t][i].uid \in Nat /\ m_operations[t][i].uid < next_uid
      <3> SUFFICES ASSUME NEW t \in AllStreams, NEW i \in 1..Len(m_operations[t])
                   PROVE  m_operations[t][i].uid \in Nat /\ m_operations[t][i].uid < next_uid
        BY Zenon
      <3>1. m_operations[t] \in Seq(Operations)
        BY <1>0, Zenon DEF TypeOK
      <3>2. m_operations[t][i] \in Operations
        BY <3>1
      <3>3. QED BY <3>2 DEF StreamInv, UniqueInv, QueueOld, Operations, Uids
    <2>4. ArgsFresh'
      <3> SUFFICES ASSUME NEW g \in Hosts, Pushing(g)' PROVE ArgFresh(g)'
        BY Zenon DEF ArgsFresh
      <3>1. CASE g = h
        <4>1. host_op'[g] = op BY <1>4, <3>1, Zenon
        <4>2. op.uid < next_uid' BY <1>2
        <4>3. \A t \in AllStreams : \A i \in 1..Len(m_operations[t]) : m_operations[t][i].uid # op.uid
          BY <1>2, <2>3
        <4> HIDE DEF op
        <4>4. QED BY <1>2, <1>4, <4>1, <4>2, <4>3, Zenon DEF ArgFresh
      <3>2. CASE g # h
        <4>1. host_op'[g] = host_op[g] /\ Pushing(g) BY <1>4, <2>1, <3>2, Zenon
        <4>2. ArgFresh(g) BY <4>1, Zenon DEF StreamInv, UniqueInv, ArgsFresh
        <4>3. host_op'[g].uid < next_uid' BY <1>2, <2>2, <3>2
        <4>4. QED BY <1>4, <4>1, <4>2, <4>3 DEF ArgFresh
      <3>3. QED BY <3>1, <3>2, Zenon
    <2>5. ArgsUnique'
      <3> SUFFICES ASSUME NEW g \in Hosts, NEW k \in Hosts, Pushing(g)', Pushing(k)',
                          host_op'[g].uid = host_op'[k].uid, g # k
                   PROVE  FALSE
        BY Zenon DEF ArgsUnique
      <3>1. CASE g # h /\ k # h
        <4>1. /\ host_op'[g] = host_op[g] /\ Pushing(g)
              /\ host_op'[k] = host_op[k] /\ Pushing(k)
          BY <1>4, <2>1, <3>1, Zenon
        <4>2. QED BY <4>1, Zenon DEF StreamInv, UniqueInv, ArgsUnique
      <3>2. CASE g = h
        <4>1. host_op'[g] = op BY <1>4, <3>2, Zenon
        <4>2. host_op'[k].uid \in Nat /\ host_op'[k].uid < next_uid BY <2>2, <3>2, Zenon
        <4> HIDE DEF op
        <4>3. QED BY <1>2, <4>1, <4>2
      <3>3. CASE k = h
        <4>1. host_op'[k] = op BY <1>4, <3>3, Zenon
        <4>2. host_op'[g].uid \in Nat /\ host_op'[g].uid < next_uid BY <2>2, <3>3, Zenon
        <4> HIDE DEF op
        <4>3. QED BY <1>2, <4>1, <4>2
      <3>4. QED BY <3>1, <3>2, <3>3, Zenon
    <2>6. \A t \in AllStreams : \A i \in 1..Len(m_operations[t]) : m_operations[t][i].uid < next_uid'
      BY <1>2, <2>3
    <2>7. QueueOld' BY <1>4, <2>6, Zenon DEF QueueOld
    <2>8. QueueUnique' BY <1>4 DEF StreamInv, UniqueInv, QueueUnique
    <2>9. QED BY <2>4, <2>5, <2>7, <2>8, Zenon DEF UniqueInv
  <1>7. QED BY <1>1, <1>3, <1>5, <1>6, Zenon DEF StreamInv


\* The end of push: the operation enters a listed stream or stream zero.
LEMMA PushStep ==
  ASSUME StreamInv, NEW h \in Hosts, Push(h)
  PROVE  StreamInv'
  <1>0. TypeOK BY Zenon DEF StreamInv
  <1> DEFINE s == IF Blocking(host_stream[h]) THEN Zero ELSE host_stream[h]
             op == host_op[h]
  <1>1. /\ s \in AllStreams /\ (s = Zero \/ s \in Listed)
        /\ op \in Operations /\ op.uid < next_uid /\ Pushing(h) /\ host_pc[h] = "push"
    <2>1. Pushing(h) /\ host_pc[h] = "push" BY Zenon DEF Push, Pushing
    <2>2. ArgFresh(h) BY <2>1, Zenon DEF StreamInv, UniqueInv, ArgsFresh
    <2>3. s \in AllStreams /\ (s = Zero \/ s \in Listed)
      BY <1>0, Zenon DEF StreamInv, ListedInv, Blocking, AllStreams, TypeOK
    <2>4. QED BY <2>1, <2>2, <2>3, Zenon DEF ArgFresh
  <1>2. m_operations' = [m_operations EXCEPT ![s] = Append(@, op)]
    BY Zenon DEF Push
  <1>3. /\ m_operations[s] \in Seq(Operations)
        /\ m_operations'[s] = Append(m_operations[s], op)
        /\ \A t \in AllStreams \ {s} : m_operations'[t] = m_operations[t]
    BY <1>0, <1>1, <1>2, Zenon DEF TypeOK
  <1> HIDE DEF s, op
  <1>4. /\ m_operations'[s] \in Seq(Operations)
        /\ Len(m_operations'[s]) = Len(m_operations[s]) + 1
        /\ Len(m_operations[s]) \in Nat
        /\ \A i \in 1..Len(m_operations[s]) : m_operations'[s][i] = m_operations[s][i]
        /\ m_operations'[s][Len(m_operations[s]) + 1] = op
        /\ m_operations'[s] # <<>>
    BY <1>1, <1>3, AppendFacts
  <1>5. TypeOK'
    <2>1. m_operations' \in [AllStreams -> Seq(Operations)]
      BY <1>0, <1>1, <1>2, <1>3, <1>4, Zenon DEF TypeOK
    <2>2. FirstCursor \in AllStreams \cup {None}
      BY <1>0 DEF TypeOK, FirstCursor, AllStreams
    <2>3. /\ host_pc' \in [Hosts -> HostPcs]
          /\ host_op' \in [Hosts -> Operations \cup {None}]
          /\ host_cursor' \in [Hosts -> AllStreams \cup {None}]
          /\ host_empty' \in [Hosts -> BOOLEAN]
      <3>1. \/ Goto(h, "wait") /\ StartWalk(h) /\ UNCHANGED host_op
            \/ /\ Goto(h, "idle")
               /\ host_op' = [host_op EXCEPT ![h] = None]
               /\ UNCHANGED walkVars
        BY Zenon DEF Push
      <3>2. CASE Goto(h, "wait") /\ StartWalk(h) /\ UNCHANGED host_op
        BY <1>0, <2>2, <3>2, Zenon DEF TypeOK, Goto, StartWalk, HostPcs
      <3>3. CASE /\ Goto(h, "idle")
                 /\ host_op' = [host_op EXCEPT ![h] = None]
                 /\ UNCHANGED walkVars
        BY <1>0, <3>3, Zenon DEF TypeOK, Goto, HostPcs, walkVars
      <3>4. QED BY <3>1, <3>2, <3>3, Zenon
    <2>4. host_stream' \in [Hosts -> Streams \cup {None}]
      BY <1>0, Zenon DEF TypeOK, Push
    <2>5. QED
      BY <1>0, <2>1, <2>3, <2>4, Zenon DEF TypeOK, Push, gpuVars, simVars
  <1>6. ServiceInv'
    BY Zenon DEF StreamInv, ServiceInv, Push
  <1>7. PendingInv'
    BY <1>3, <1>4, Zenon DEF StreamInv, PendingInv, Push
  <1>8. RegisterInv'
    <2>1. \A k \in Uids : Retirable(k) => Retirable(k)'
      <3> SUFFICES ASSUME NEW k \in Uids, Retirable(k) PROVE Retirable(k)'
        BY Zenon
      <3>1. m_grid_id_to_stream[k] \in AllStreams
        BY <1>0, Zenon DEF TypeOK, Retirable
      <3>2. CASE m_grid_id_to_stream[k] # s
        <4>1. m_operations'[m_grid_id_to_stream[k]] = m_operations[m_grid_id_to_stream[k]]
          BY <1>3, <3>1, <3>2, Zenon
        <4>2. UNCHANGED <<m_pending, m_grid_id_to_stream>>
          BY Zenon DEF Push
        <4>3. QED BY <4>1, <4>2, Zenon DEF Retirable, Empty
      <3>3. CASE m_grid_id_to_stream[k] = s
        <4>1. m_operations[s] # <<>> /\ Len(m_operations[s]) >= 1
          BY <1>3, <3>3 DEF Retirable, Empty
        <4>2. Head(m_operations'[s]) = Head(m_operations[s])
          BY <1>3, <1>4, <4>1
        <4>3. QED BY <1>4, <3>3, <4>2, Zenon DEF Retirable, Empty, Push
      <3>4. QED BY <3>2, <3>3, Zenon
    <2>2. UNCHANGED <<m_running_kernels, m_finished_kernel>> /\ Finished' = Finished
      BY Zenon DEF Push, gpuVars, Finished
    <2>3. m_running_kernels \cup Finished \subseteq Uids
      BY <1>0 DEF TypeOK, Finished
    <2>4. QED
      BY <2>1, <2>2, <2>3, Zenon DEF StreamInv, RegisterInv, KernelRegistered
  <1>9. /\ host_pc'[h] \in {"idle", "wait"} /\ host_stream'[h] = None
        /\ \A g \in Hosts \ {h} : /\ host_pc'[g] = host_pc[g] /\ host_stream'[g] = host_stream[g]
                                  /\ host_op'[g] = host_op[g]
        /\ Listed' = Listed /\ next_uid' = next_uid
    BY <1>0, Zenon DEF TypeOK, Push, Goto, Listed
  <1>10. ListedInv'
    <2>1. \A t \in Streams \ Listed : t # s
      BY <1>1, StreamAssumption, Zenon
    <2>2. \A t \in Streams \ Listed : m_operations'[t] = <<>>
      BY <1>3, <2>1, Zenon DEF StreamInv, ListedInv, AllStreams
    <2>3. QED BY <1>9, <2>2 DEF StreamInv, ListedInv
  <1>11. UniqueInv'
    <2>1. \A g \in Hosts : Pushing(g)' => g # h /\ Pushing(g) /\ host_op'[g] = host_op[g]
      BY <1>9, Zenon DEF Pushing
    <2>2. \A t \in AllStreams : \A i \in 1..Len(m_operations'[t]) :
            \/ t = s /\ i = Len(m_operations[s]) + 1 /\ m_operations'[t][i] = op
            \/ i \in 1..Len(m_operations[t]) /\ m_operations'[t][i] = m_operations[t][i]
      <3> SUFFICES ASSUME NEW t \in AllStreams, NEW i \in 1..Len(m_operations'[t])
                   PROVE  \/ t = s /\ i = Len(m_operations[s]) + 1 /\ m_operations'[t][i] = op
                          \/ /\ i \in 1..Len(m_operations[t])
                             /\ m_operations'[t][i] = m_operations[t][i]
        BY Zenon
      <3>1. CASE t = s BY <1>4, <3>1
      <3>2. CASE t # s BY <1>3, <3>2, Zenon
      <3>3. QED BY <3>1, <3>2, Zenon
    <2>3. \A t \in AllStreams : \A i \in 1..Len(m_operations[t]) : m_operations[t][i].uid # op.uid
      BY <1>1, Zenon DEF StreamInv, UniqueInv, ArgsFresh, ArgFresh, op
    <2>4. \A g \in Hosts : Pushing(g)' => op.uid # host_op'[g].uid
      BY <1>1, <2>1, Zenon DEF StreamInv, UniqueInv, ArgsUnique, op
    <2>5. \A t, u \in AllStreams : \A i \in 1..Len(m_operations'[t]), j \in 1..Len(m_operations'[u]) :
            m_operations'[t][i].uid = m_operations'[u][j].uid => t = u /\ i = j
      <3> SUFFICES ASSUME NEW t \in AllStreams, NEW u \in AllStreams,
                          NEW i \in 1..Len(m_operations'[t]), NEW j \in 1..Len(m_operations'[u]),
                          m_operations'[t][i].uid = m_operations'[u][j].uid
                   PROVE  t = u /\ i = j
        BY Zenon
      <3>1. \/ t = s /\ i = Len(m_operations[s]) + 1 /\ m_operations'[t][i] = op
            \/ i \in 1..Len(m_operations[t]) /\ m_operations'[t][i] = m_operations[t][i]
        BY <2>2, Zenon
      <3>2. \/ u = s /\ j = Len(m_operations[s]) + 1 /\ m_operations'[u][j] = op
            \/ j \in 1..Len(m_operations[u]) /\ m_operations'[u][j] = m_operations[u][j]
        BY <2>2, Zenon
      <3>3. CASE i \in 1..Len(m_operations[t]) /\ m_operations'[t][i] = m_operations[t][i]
        <4>1. j \in 1..Len(m_operations[u]) /\ m_operations'[u][j] = m_operations[u][j]
          BY <2>3, <3>2, <3>3, Zenon
        <4>2. QED BY <3>3, <4>1 DEF StreamInv, UniqueInv, QueueUnique
      <3>4. CASE t = s /\ i = Len(m_operations[s]) + 1 /\ m_operations'[t][i] = op
        BY <2>3, <3>2, <3>4, Zenon
      <3>5. QED BY <3>1, <3>3, <3>4, Zenon
    <2>6. QueueOld'
      <3> SUFFICES ASSUME NEW t \in AllStreams, NEW i \in 1..Len(m_operations'[t])
                   PROVE  m_operations'[t][i].uid < next_uid'
        BY Zenon DEF QueueOld
      <3>1. CASE m_operations'[t][i] = op BY <1>1, <1>9, <3>1, Zenon
      <3>2. CASE i \in 1..Len(m_operations[t]) /\ m_operations'[t][i] = m_operations[t][i]
        BY <1>9, <3>2, Zenon DEF StreamInv, UniqueInv, QueueOld
      <3>3. QED BY <2>2, <3>1, <3>2, Zenon
    <2>7. ArgsFresh'
      <3> SUFFICES ASSUME NEW g \in Hosts, Pushing(g)' PROVE ArgFresh(g)'
        BY Zenon DEF ArgsFresh
      <3>1. Pushing(g) /\ host_op'[g] = host_op[g] BY <2>1, Zenon
      <3>2. ArgFresh(g) BY <3>1, Zenon DEF StreamInv, UniqueInv, ArgsFresh
      <3>3. ASSUME NEW t \in AllStreams, NEW i \in 1..Len(m_operations'[t])
            PROVE  m_operations'[t][i].uid # host_op'[g].uid
        <4>1. CASE m_operations'[t][i] = op BY <2>4, <4>1, Zenon
        <4>2. CASE i \in 1..Len(m_operations[t]) /\ m_operations'[t][i] = m_operations[t][i]
          BY <3>1, <3>2, <4>2, Zenon DEF ArgFresh
        <4>3. QED BY <2>2, <4>1, <4>2, Zenon
      <3>4. QED BY <1>9, <3>1, <3>2, <3>3, Zenon DEF ArgFresh
    <2>8. ArgsUnique'
      BY <2>1, Zenon DEF StreamInv, UniqueInv, ArgsUnique
    <2>9. QueueUnique' BY <2>5, Zenon DEF QueueUnique
    <2>10. QED BY <2>6, <2>7, <2>8, <2>9, Zenon DEF UniqueInv
  <1>12. QED BY <1>5, <1>6, <1>7, <1>8, <1>10, <1>11, Zenon DEF StreamInv

-----------------------------------------------------------------------------
(* The steps that take operations from streams and complete them. *)

\* Completing the front operation of one stream: what record_next_done does to
\* the queues, stated once for kernels that finish and for copies.
LEMMA PopStep ==
  ASSUME StreamInv, NEW s \in AllStreams, m_operations[s] # <<>>, record_next_done(s)
  PROVE  /\ m_operations' \in [AllStreams -> Seq(Operations)]
         /\ m_pending' \in [AllStreams -> BOOLEAN]
         /\ m_pending'[s] = FALSE
         /\ \A t \in AllStreams \ {s} : /\ m_operations'[t] = m_operations[t]
                                        /\ m_pending'[t] = m_pending[t]
         /\ \A t \in AllStreams : m_operations[t] = <<>> => m_operations'[t] = <<>>
         /\ \A t \in AllStreams : \A i \in 1..Len(m_operations'[t]) :
              LET d == IF t = s THEN 1 ELSE 0 IN
              i + d \in 1..Len(m_operations[t]) /\ m_operations'[t][i] = m_operations[t][i + d]
  <1>0. TypeOK BY Zenon DEF StreamInv
  <1>1. /\ m_operations[s] \in Seq(Operations)
        /\ m_operations'[s] = Tail(m_operations[s])
        /\ \A t \in AllStreams \ {s} : m_operations'[t] = m_operations[t]
        /\ m_pending'[s] = FALSE
        /\ \A t \in AllStreams \ {s} : m_pending'[t] = m_pending[t]
        /\ m_pending' \in [AllStreams -> BOOLEAN]
    BY <1>0, Zenon DEF TypeOK, record_next_done
  <1>2. /\ Tail(m_operations[s]) \in Seq(Operations)
        /\ Len(Tail(m_operations[s])) = Len(m_operations[s]) - 1
        /\ Len(m_operations[s]) \in Nat
        /\ \A i \in 1..Len(Tail(m_operations[s])) : Tail(m_operations[s])[i] = m_operations[s][i + 1]
    BY <1>1, TailFacts, Zenon
  <1>3. m_operations' \in [AllStreams -> Seq(Operations)]
    BY <1>0, <1>1, <1>2, Zenon DEF TypeOK, record_next_done
  <1>4. ASSUME NEW t \in AllStreams, NEW i \in 1..Len(m_operations'[t])
        PROVE  LET d == IF t = s THEN 1 ELSE 0 IN
               i + d \in 1..Len(m_operations[t]) /\ m_operations'[t][i] = m_operations[t][i + d]
    <2>1. CASE t = s
      <3>1. m_operations'[t] = Tail(m_operations[s])
        BY <1>1, <2>1, Zenon
      <3>2. i \in 1..(Len(m_operations[s]) - 1)
        BY <1>2, <3>1, Zenon
      <3>3. i + 1 \in 1..Len(m_operations[s])
        BY <1>2, <3>2
      <3>4. Tail(m_operations[s])[i] = m_operations[s][i + 1]
        BY <1>2, <3>2, Zenon
      <3>5. QED BY <2>1, <3>1, <3>3, <3>4, Zenon
    <2>2. CASE t # s
      <3>1. m_operations'[t] = m_operations[t] BY <1>1, <2>2, Zenon
      <3>2. i \in Int /\ i + 0 = i OBVIOUS
      <3>3. QED BY <2>2, <3>1, <3>2, Zenon
    <2>3. QED BY <2>1, <2>2, Zenon
  <1>5. QED BY <1>1, <1>3, <1>4, Zenon

\* Completing an operation keeps the hosts' part of the invariant.
LEMMA PopHostInv ==
  ASSUME StreamInv, NEW s \in AllStreams, m_operations[s] # <<>>, record_next_done(s),
         UNCHANGED <<m_streams, hostVars>>
  PROVE  ListedInv' /\ UniqueInv'
  <1>1. /\ \A t \in AllStreams : m_operations[t] = <<>> => m_operations'[t] = <<>>
        /\ \A t \in AllStreams : \A i \in 1..Len(m_operations'[t]) :
             LET d == IF t = s THEN 1 ELSE 0 IN
             i + d \in 1..Len(m_operations[t]) /\ m_operations'[t][i] = m_operations[t][i + d]
    BY PopStep, Zenon
  <1>2. ListedInv'
    BY <1>1 DEF StreamInv, ListedInv, Listed, AllStreams, hostVars
  <1>3. \A t, u \in AllStreams : \A i \in 1..Len(m_operations'[t]), j \in 1..Len(m_operations'[u]) :
          m_operations'[t][i].uid = m_operations'[u][j].uid => t = u /\ i = j
    <2> SUFFICES ASSUME NEW t \in AllStreams, NEW u \in AllStreams,
                        NEW i \in 1..Len(m_operations'[t]), NEW j \in 1..Len(m_operations'[u]),
                        m_operations'[t][i].uid = m_operations'[u][j].uid
                 PROVE  t = u /\ i = j
      BY Zenon
    <2> DEFINE d == IF t = s THEN 1 ELSE 0
               e == IF u = s THEN 1 ELSE 0
    <2>1. /\ i + d \in 1..Len(m_operations[t]) /\ m_operations'[t][i] = m_operations[t][i + d]
          /\ j + e \in 1..Len(m_operations[u]) /\ m_operations'[u][j] = m_operations[u][j + e]
      BY <1>1, Zenon
    <2>2. t = u /\ i + d = j + e
      <3> HIDE DEF d, e
      <3>1. QED BY <2>1 DEF StreamInv, UniqueInv, QueueUnique
    <2>3. d = e /\ d \in {0, 1} /\ i \in Int /\ j \in Int BY <2>2
    <2> HIDE DEF d, e
    <2>4. QED BY <2>2, <2>3
  <1>4. \A t \in AllStreams : \A i \in 1..Len(m_operations'[t]) :
          \E j \in 1..Len(m_operations[t]) : m_operations'[t][i] = m_operations[t][j]
    BY <1>1, Zenon
  <1>5. UniqueInv'
    <2>1. QueueUnique' BY <1>3, Zenon DEF QueueUnique
    <2>2. QueueOld' BY <1>4 DEF StreamInv, UniqueInv, QueueOld, hostVars
    <2>3. \A g \in Hosts : ArgFresh(g) => ArgFresh(g)' BY <1>4 DEF ArgFresh, hostVars
    <2>4. \A g \in Hosts : Pushing(g)' = Pushing(g) BY Zenon DEF Pushing, hostVars
    <2>5. ArgsFresh' BY <2>3, <2>4, Zenon DEF StreamInv, UniqueInv, ArgsFresh
    <2>6. ArgsUnique' BY <2>4, Zenon DEF StreamInv, UniqueInv, ArgsUnique, hostVars
    <2>7. QED BY <2>1, <2>2, <2>5, <2>6, Zenon DEF UniqueInv
  <1>6. QED BY <1>2, <1>5, Zenon


\* Completing the front operation of s, which is not a kernel the GPU still
\* has, keeps every other kernel retirable.
LEMMA PopRetirable ==
  ASSUME StreamInv, NEW s \in AllStreams, m_operations[s] # <<>>, record_next_done(s),
         NEW k \in Uids, Retirable(k), m_grid_id_to_stream[k] # s,
         m_grid_id_to_stream'[k] = m_grid_id_to_stream[k]
  PROVE  Retirable(k)'
  <1>1. m_grid_id_to_stream[k] \in AllStreams
    BY Zenon DEF StreamInv, TypeOK, Retirable
  <1>2. /\ m_operations'[m_grid_id_to_stream[k]] = m_operations[m_grid_id_to_stream[k]]
        /\ m_pending'[m_grid_id_to_stream[k]] = m_pending[m_grid_id_to_stream[k]]
    BY <1>1, PopStep, Zenon
  <1>3. QED BY <1>2, Zenon DEF Retirable, Empty

\* The first half of operation(): retiring a finished kernel.
LEMMA CheckFinishedKernelStep ==
  ASSUME StreamInv, CheckFinishedKernel
  PROVE  StreamInv'
  <1>0. TypeOK BY Zenon DEF StreamInv
  <1>1. CASE m_finished_kernel = <<>>
    <2>1. UNCHANGED <<m_operations, m_pending, m_grid_id_to_stream, m_finished_kernel>>
      BY <1>1, Zenon DEF CheckFinishedKernel
    <2>2. ServiceInv' /\ PendingInv' /\ RegisterInv' /\ ListedInv' /\ UniqueInv'
      BY <2>1, ManagerFrame, HostFrame, Zenon DEF CheckFinishedKernel, hostVars
    <2>3. TypeOK'
      BY <1>0, <2>1, Zenon DEF TypeOK, CheckFinishedKernel, SimGoto, SimPcs, hostVars, walkVars
    <2>4. QED BY <2>2, <2>3, Zenon DEF StreamInv
  <1>2. CASE m_finished_kernel # <<>>
    <2> DEFINE uid == Head(m_finished_kernel)
               s == m_grid_id_to_stream[uid]
    <2>1. /\ m_finished_kernel' = Tail(m_finished_kernel)
          /\ record_next_done(s)
          /\ m_grid_id_to_stream' = [m_grid_id_to_stream EXCEPT ![uid] = None]
          /\ UNCHANGED <<m_streams, m_service_stream_zero, m_running_kernels, gpu_busy, gpu_limit,
                         g_sim_lock, g_sim_active, g_sim_done, g_sim_signal_exit, hostVars>>
      BY <1>2, Zenon DEF CheckFinishedKernel
    <2>2. /\ Tail(m_finished_kernel) \in Seq(Uids)
          /\ Len(Tail(m_finished_kernel)) = Len(m_finished_kernel) - 1
          /\ Len(m_finished_kernel) \in Nat /\ Len(m_finished_kernel) > 0
          /\ \A i \in 1..Len(Tail(m_finished_kernel)) :
               Tail(m_finished_kernel)[i] = m_finished_kernel[i + 1]
          /\ uid = m_finished_kernel[1] /\ uid \in Uids
      BY <1>0, <1>2, TailFacts, Zenon DEF TypeOK
    <2>3. uid \in Finished /\ Retirable(uid)
      BY <2>2 DEF StreamInv, RegisterInv, KernelRegistered, Finished
    <2>4. s \in AllStreams /\ m_operations[s] # <<>> /\ Head(m_operations[s]).uid = uid
      BY <1>0, <2>2, <2>3, Zenon DEF TypeOK, Retirable, Empty
    <2> HIDE DEF uid, s
    <2>5. /\ m_operations' \in [AllStreams -> Seq(Operations)]
          /\ m_pending' \in [AllStreams -> BOOLEAN]
          /\ m_pending'[s] = FALSE
          /\ \A t \in AllStreams \ {s} : /\ m_operations'[t] = m_operations[t]
                                         /\ m_pending'[t] = m_pending[t]
      BY <2>1, <2>4, PopStep, Zenon
    <2>6. TypeOK'
      <3>1. m_grid_id_to_stream' \in [Uids -> AllStreams \cup {None}]
        BY <1>0, <2>1, Zenon DEF TypeOK
      <3>2. m_lock' = Sim /\ sim_pc' = "front"
        BY Zenon DEF CheckFinishedKernel, SimGoto
      <3>3. m_finished_kernel' \in Seq(Uids)
        BY <2>1, <2>2, Zenon
      <3>4. QED
        BY <1>0, <2>1, <2>5, <3>1, <3>2, <3>3, Zenon DEF TypeOK, SimPcs, hostVars, walkVars
    <2>7. ServiceInv' /\ PendingInv'
      BY <2>1, <2>5, Zenon DEF StreamInv, ServiceInv, PendingInv, AllStreams
    <2>8. ListedInv' /\ UniqueInv'
      BY <2>1, <2>4, PopHostInv, Zenon
    <2>9. RegisterInv'
      <3>1. \A i \in 1..Len(m_finished_kernel') :
               i + 1 \in 1..Len(m_finished_kernel) /\ m_finished_kernel'[i] = m_finished_kernel[i + 1]
        BY <2>1, <2>2
      <3>2. Finished' \subseteq Finished \ {uid}
        BY <2>2, <3>1 DEF Finished, StreamInv, RegisterInv
      <3>3. m_running_kernels' = m_running_kernels /\ uid \notin m_running_kernels
        BY <2>1, <2>3, Zenon DEF StreamInv, RegisterInv
      <3>4. ASSUME NEW k \in m_running_kernels' \cup Finished'
            PROVE  Retirable(k)'
        <4>1. k \in m_running_kernels \cup Finished /\ k # uid
          BY <3>2, <3>3, Zenon
        <4>2. Retirable(k) /\ k \in Uids
          <5>1. Retirable(k) BY <4>1, Zenon DEF StreamInv, RegisterInv, KernelRegistered
          <5>2. m_running_kernels \subseteq Uids /\ Finished \subseteq Uids
            BY <1>0 DEF TypeOK, Finished
          <5>3. QED BY <4>1, <5>1, <5>2, Zenon
        <4>3. m_grid_id_to_stream[k] # s
          BY <2>4, <4>1, <4>2, Zenon DEF Retirable
        <4>4. m_grid_id_to_stream'[k] = m_grid_id_to_stream[k]
          BY <1>0, <2>1, <4>1, <4>2, Zenon DEF TypeOK
        <4>5. QED BY <2>1, <2>4, <4>2, <4>3, <4>4, PopRetirable, Zenon
      <3>5. \A i, j \in 1..Len(m_finished_kernel') :
              m_finished_kernel'[i] = m_finished_kernel'[j] => i = j
        BY <3>1 DEF StreamInv, RegisterInv
      <3>6. m_running_kernels' \cap Finished' = {}
        BY <3>2, <3>3, Zenon DEF StreamInv, RegisterInv
      <3>7. QED BY <3>4, <3>5, <3>6, Zenon DEF RegisterInv, KernelRegistered
    <2>10. QED BY <2>6, <2>7, <2>8, <2>9, Zenon DEF StreamInv
  <1>3. QED BY <1>1, <1>2, Zenon


\* A stream that front() may choose holds an operation, is not in flight, and
\* excludes stream zero or is stream zero.
LEMMA ChosenFacts ==
  ASSUME StreamInv, NEW z \in BOOLEAN, NEW s \in AllStreams, Chosen(z, s)
  PROVE  /\ m_operations[s] # <<>> /\ ~m_pending[s]
         /\ z => s = Zero
         /\ ~z => s \in Streams
         /\ Head(m_operations[s]) \in Operations
         /\ Head(m_operations[s]) = m_operations[s][1]
         /\ 1 \in 1..Len(m_operations[s])
         /\ Head(m_operations[s]).uid \in Uids
         /\ Head(m_operations[s]).uid \notin m_running_kernels \cup Finished
  <1>0. TypeOK BY Zenon DEF StreamInv
  <1>1. /\ m_operations[s] # <<>> /\ ~m_pending[s]
        /\ z => s = Zero
        /\ ~z => s \in Streams
    BY <1>0 DEF Chosen, Ready, Empty, TypeOK
  <1>2. m_operations[s] \in Seq(Operations)
    BY <1>0, Zenon DEF TypeOK
  <1>3. /\ Head(m_operations[s]) \in Operations
        /\ Head(m_operations[s]) = m_operations[s][1]
        /\ 1 \in 1..Len(m_operations[s])
    BY <1>1, <1>2, TailFacts
  <1>4. Head(m_operations[s]).uid \in Uids
    BY <1>3, Zenon DEF Operations
  <1>5. ASSUME NEW k \in m_running_kernels \cup Finished, k = Head(m_operations[s]).uid
        PROVE  FALSE
    <2> DEFINE t == m_grid_id_to_stream[k]
    <2>1. t \in AllStreams /\ m_pending[t] /\ m_operations[t] # <<>>
                           /\ Head(m_operations[t]).uid = k
      <3>1. Retirable(k) BY <1>5, Zenon DEF StreamInv, RegisterInv, KernelRegistered
      <3>2. t \in AllStreams \cup {None} BY <1>0, <1>4, <1>5, Zenon DEF TypeOK
      <3>3. QED BY <3>1, <3>2, Zenon DEF Retirable, Empty
    <2> HIDE DEF t
    <2>2. m_operations[t] \in Seq(Operations)
      BY <1>0, <2>1, Zenon DEF TypeOK
    <2>3. 1 \in 1..Len(m_operations[t]) /\ Head(m_operations[t]) = m_operations[t][1]
      BY <2>1, <2>2, TailFacts
    <2>4. t = s
      BY <1>3, <1>5, <2>1, <2>3 DEF StreamInv, UniqueInv, QueueUnique
    <2>5. QED BY <1>1, <2>1, <2>4, Zenon
  <1>6. QED BY <1>1, <1>3, <1>4, <1>5, Zenon

\* When front() turns to stream zero no concurrent stream is in flight.
LEMMA ServiceZeroFacts ==
  ASSUME StreamInv, concurrent_streams_empty \/ m_service_stream_zero
  PROVE  \A s \in Streams : ~m_pending[s]
  <1>1. CASE concurrent_streams_empty
    BY <1>1, Zenon DEF concurrent_streams_empty, Empty, StreamInv, ListedInv, PendingInv, AllStreams
  <1>2. CASE m_service_stream_zero
    BY <1>2, Zenon DEF StreamInv, ServiceInv
  <1>3. QED BY <1>1, <1>2, Zenon

\* A kernel that starts, or that finds the GPU full: the stream becomes
\* pending and the kernel is mapped to it.
LEMMA LaunchRegisterInv ==
  ASSUME StreamInv, NEW s \in AllStreams, NEW k \in Uids,
         m_operations[s] # <<>>, ~m_pending[s], Head(m_operations[s]).uid = k,
         k \notin m_running_kernels \cup Finished,
         m_pending' = [m_pending EXCEPT ![s] = TRUE],
         m_grid_id_to_stream' = [m_grid_id_to_stream EXCEPT ![k] = s],
         m_running_kernels' \in {m_running_kernels, m_running_kernels \cup {k}},
         UNCHANGED <<m_operations, m_finished_kernel>>
  PROVE  RegisterInv'
  <1>0. TypeOK BY Zenon DEF StreamInv
  <1>1. Finished' = Finished /\ Finished \subseteq Uids
    BY <1>0 DEF Finished, TypeOK
  <1>2. Retirable(k)'
    <2>1. m_grid_id_to_stream'[k] = s /\ m_pending'[s] /\ s # None
      BY <1>0, StreamAssumption, Zenon DEF TypeOK, AllStreams
    <2>2. QED BY <2>1, Zenon DEF Retirable, Empty
  <1>3. ASSUME NEW j \in m_running_kernels \cup Finished
        PROVE  Retirable(j)'
    <2>1. j \in Uids /\ j # k /\ Retirable(j)
      BY <1>0, <1>1, Zenon DEF StreamInv, RegisterInv, KernelRegistered, TypeOK
    <2>2. m_grid_id_to_stream'[j] = m_grid_id_to_stream[j] /\ m_grid_id_to_stream[j] \in AllStreams
      BY <1>0, <2>1, Zenon DEF TypeOK, Retirable
    <2>3. m_pending[m_grid_id_to_stream[j]] => m_pending'[m_grid_id_to_stream[j]]
      BY <1>0, <2>2, Zenon DEF TypeOK
    <2>4. QED BY <2>1, <2>2, <2>3, Zenon DEF Retirable, Empty
  <1>4. QED BY <1>1, <1>2, <1>3, Zenon DEF StreamInv, RegisterInv, KernelRegistered


\* The outcomes of the second half of operation(), as far as the manager's
\* state goes: nothing to do, one operation completed, or one kernel taken.
TakeNothing == UNCHANGED <<m_operations, m_pending, m_grid_id_to_stream, m_running_kernels>>

TakeAndComplete(s) ==
  record_next_done(s) /\ UNCHANGED <<m_grid_id_to_stream, m_running_kernels>>

TakeKernel(s, k) ==
  /\ m_pending' = [m_pending EXCEPT ![s] = TRUE]
  /\ m_grid_id_to_stream' = [m_grid_id_to_stream EXCEPT ![k] = s]
  /\ m_running_kernels' \in {m_running_kernels, m_running_kernels \cup {k}}
  /\ UNCHANGED m_operations

(* FrontAndDoOperation has one of these three effects on the queues, so     *)
(* every fact about front() and do_operation can be proved case by case.    *)
LEMMA FrontOutcomes ==
  ASSUME FrontAndDoOperation
  PROVE  LET z == concurrent_streams_empty \/ m_service_stream_zero IN
         \/ TakeNothing
         \/ \E s \in AllStreams : Chosen(z, s) /\ TakeAndComplete(s)
         \/ \E s \in AllStreams : Chosen(z, s) /\ TakeKernel(s, Head(m_operations[s]).uid)
  <1> DEFINE z == concurrent_streams_empty \/ m_service_stream_zero
  <1>1. \/ TakeNothing
        \/ \E s \in AllStreams :
             /\ Chosen(z, s)
             /\ IF Head(m_operations[s]).type = "copy" THEN DoCopy(s)
                                                       ELSE DoKernel(s, Head(m_operations[s]))
    BY Zenon DEF FrontAndDoOperation, TakeNothing
  <1>2. ASSUME NEW s \in AllStreams, DoCopy(s)
        PROVE  TakeAndComplete(s)
    BY <1>2, Zenon DEF DoCopy, TakeAndComplete
  <1>3. ASSUME NEW s \in AllStreams, DoKernel(s, Head(m_operations[s]))
        PROVE  TakeAndComplete(s) \/ TakeKernel(s, Head(m_operations[s]).uid)
    BY <1>3, Zenon DEF DoKernel, TakeAndComplete, TakeKernel
  <1> HIDE DEF z
  <1>4. QED BY <1>1, <1>2, <1>3, Zenon DEF z

\* The second half of operation(): front() and do_operation().
LEMMA FrontAndDoOperationStep ==
  ASSUME StreamInv, FrontAndDoOperation
  PROVE  StreamInv'
  <1>0. TypeOK BY Zenon DEF StreamInv
  <1> DEFINE z == concurrent_streams_empty \/ m_service_stream_zero
  <1>1. /\ m_service_stream_zero' = (z /\ m_operations[Zero] # <<>>)
        /\ UNCHANGED <<m_streams, m_finished_kernel, hostVars>>
        /\ z \in BOOLEAN
    BY Zenon DEF FrontAndDoOperation, Empty
  <1>2. z => \A s \in Streams : ~m_pending[s]
    BY ServiceZeroFacts, Zenon
  <1>3. m_pending[Zero] => z /\ m_operations[Zero] # <<>>
    BY Zenon DEF StreamInv, ServiceInv, PendingInv, AllStreams
  <1>4. ASSUME m_operations' \in [AllStreams -> Seq(Operations)],
               m_pending' \in [AllStreams -> BOOLEAN],
               m_grid_id_to_stream' \in [Uids -> AllStreams \cup {None}],
               m_running_kernels' \in SUBSET Uids
        PROVE  TypeOK'
    <2>1. UNCHANGED <<m_streams, m_finished_kernel, gpu_busy, gpu_limit, g_sim_lock,
                      g_sim_active, g_sim_done, g_sim_signal_exit, hostVars>>
      BY Zenon DEF FrontAndDoOperation
    <2>2. m_lock' = None /\ sim_pc' = "cycle" /\ m_service_stream_zero' \in BOOLEAN
      BY <1>1, Zenon DEF FrontAndDoOperation, SimGoto
    <2>3. QED BY <1>0, <1>4, <2>1, <2>2, Zenon DEF TypeOK, hostVars, walkVars, SimPcs
  <1> HIDE DEF z
  <1>5. CASE TakeNothing
    <2>1. TypeOK' BY <1>0, <1>4, <1>5, Zenon DEF TypeOK, TakeNothing
    <2>2. ListedInv' /\ UniqueInv' BY <1>1, <1>5, HostFrame, Zenon DEF TakeNothing, hostVars
    <2>3. ServiceInv' BY <1>1, <1>2, <1>3, <1>5, Zenon DEF ServiceInv, TakeNothing
    <2>4. PendingInv' BY <1>5, Zenon DEF StreamInv, PendingInv, TakeNothing
    <2>5. RegisterInv'
      BY <1>1, <1>5 DEF StreamInv, RegisterInv, KernelRegistered, Retirable, Finished, Empty,
         TakeNothing
    <2>6. QED BY <2>1, <2>2, <2>3, <2>4, <2>5, Zenon DEF StreamInv
  <1>6. ASSUME NEW s \in AllStreams, Chosen(z, s), TakeAndComplete(s)
        PROVE  StreamInv'
    <2>1. /\ m_operations[s] # <<>> /\ ~m_pending[s]
          /\ z => s = Zero
          /\ ~z => s \in Streams
          /\ record_next_done(s) /\ UNCHANGED <<m_grid_id_to_stream, m_running_kernels>>
      BY <1>1, <1>6, ChosenFacts, Zenon DEF TakeAndComplete
    <2>2. /\ m_operations' \in [AllStreams -> Seq(Operations)]
          /\ m_pending' \in [AllStreams -> BOOLEAN]
          /\ m_pending'[s] = FALSE
          /\ \A t \in AllStreams \ {s} : /\ m_operations'[t] = m_operations[t]
                                         /\ m_pending'[t] = m_pending[t]
      BY <2>1, PopStep, Zenon
    <2>3. TypeOK' BY <1>0, <1>4, <2>1, <2>2, Zenon DEF TypeOK
    <2>4. ListedInv' /\ UniqueInv' BY <1>1, <2>1, PopHostInv, Zenon
    <2>5. ServiceInv' BY <1>1, <1>2, <1>3, <2>1, <2>2, Zenon DEF ServiceInv, AllStreams
    <2>6. PendingInv' BY <2>2, Zenon DEF StreamInv, PendingInv
    <2>7. RegisterInv'
      <3>1. Finished' = Finished /\ Finished \subseteq Uids
        BY <1>0, <1>1 DEF Finished, TypeOK
      <3>2. ASSUME NEW k \in m_running_kernels \cup Finished
            PROVE  Retirable(k)'
        <4>1. k \in Uids /\ Retirable(k)
          BY <1>0, <3>1, Zenon DEF StreamInv, RegisterInv, KernelRegistered, TypeOK
        <4>2. m_grid_id_to_stream[k] # s
          BY <2>1, <4>1, Zenon DEF Retirable
        <4>3. QED BY <2>1, <4>1, <4>2, PopRetirable, Zenon
      <3>3. QED
        BY <1>1, <2>1, <3>1, <3>2, Zenon DEF StreamInv, RegisterInv, KernelRegistered
    <2>8. QED BY <2>3, <2>4, <2>5, <2>6, <2>7, Zenon DEF StreamInv
  <1>7. ASSUME NEW s \in AllStreams, Chosen(z, s), TakeKernel(s, Head(m_operations[s]).uid)
        PROVE  StreamInv'
    <2> DEFINE k == Head(m_operations[s]).uid
    <2>1. /\ m_operations[s] # <<>> /\ ~m_pending[s]
          /\ z => s = Zero
          /\ ~z => s \in Streams
          /\ k \in Uids /\ k \notin m_running_kernels \cup Finished
      BY <1>1, <1>7, ChosenFacts, Zenon
    <2>2. /\ m_pending' = [m_pending EXCEPT ![s] = TRUE]
          /\ m_grid_id_to_stream' = [m_grid_id_to_stream EXCEPT ![k] = s]
          /\ m_running_kernels' \in {m_running_kernels, m_running_kernels \cup {k}}
          /\ UNCHANGED m_operations
      BY <1>7, Zenon DEF TakeKernel
    <2>3. RegisterInv'
      BY <1>1, <2>1, <2>2, LaunchRegisterInv, Zenon
    <2> HIDE DEF k
    <2>4. m_running_kernels' \in SUBSET Uids
      BY <1>0, <2>1, <2>2, Zenon DEF TypeOK
    <2>5. TypeOK' BY <1>0, <1>4, <2>2, <2>4, Zenon DEF TypeOK
    <2>6. ListedInv' /\ UniqueInv' BY <1>1, <2>2, HostFrame, Zenon DEF hostVars
    <2>7. /\ m_pending'[s] = TRUE
          /\ \A t \in AllStreams \ {s} : m_pending'[t] = m_pending[t]
      BY <1>0, <2>2, Zenon DEF TypeOK
    <2>8. ServiceInv'
      <3>1. CASE z
        <4>1. s = Zero /\ m_service_stream_zero'
          BY <1>1, <2>1, <3>1, Zenon
        <4>2. \A t \in Streams : ~m_pending'[t]
          BY <1>2, <2>7, <3>1, <4>1, StreamAssumption, Zenon DEF AllStreams
        <4>3. QED BY <4>1, <4>2, Zenon DEF ServiceInv
      <3>2. CASE ~z
        <4>1. s \in Streams /\ ~m_service_stream_zero' /\ ~m_pending[Zero]
          BY <1>1, <1>3, <2>1, <3>2, Zenon
        <4>2. ~m_pending'[Zero]
          BY <2>7, <4>1, StreamAssumption, Zenon DEF AllStreams
        <4>3. QED BY <4>1, <4>2, Zenon DEF ServiceInv
      <3>3. QED BY <3>1, <3>2, Zenon
    <2>9. PendingInv' BY <2>1, <2>2, <2>7, Zenon DEF StreamInv, PendingInv
    <2>10. QED BY <2>3, <2>5, <2>6, <2>8, <2>9, Zenon DEF StreamInv
  <1>8. QED BY <1>5, <1>6, <1>7, FrontOutcomes, Zenon DEF z

\* A kernel finishes inside cycle(): from the slots to the finished list.
LEMMA SetKernelDoneStep ==
  ASSUME StreamInv, NEW k \in Uids, SetKernelDone(k)
  PROVE  StreamInv'
  <1>0. TypeOK BY Zenon DEF StreamInv
  <1>1. ListedInv' /\ UniqueInv'
    BY HostFrame, Zenon DEF SetKernelDone, mgrVars, hostVars
  <1>2. ServiceInv' /\ PendingInv'
    BY Zenon DEF StreamInv, ServiceInv, PendingInv, SetKernelDone, mgrVars
  <1>3. /\ m_finished_kernel' = Append(m_finished_kernel, k)
        /\ m_running_kernels' = m_running_kernels \ {k} /\ k \in m_running_kernels
        /\ gpu_busy' \in BOOLEAN
        /\ UNCHANGED <<mgrVars, m_lock, gpu_limit, g_sim_lock, simVars, hostVars>>
    BY Zenon DEF SetKernelDone
  <1>4. /\ Append(m_finished_kernel, k) \in Seq(Uids)
        /\ Len(Append(m_finished_kernel, k)) = Len(m_finished_kernel) + 1
        /\ Len(m_finished_kernel) \in Nat
        /\ \A i \in 1..Len(m_finished_kernel) :
             Append(m_finished_kernel, k)[i] = m_finished_kernel[i]
        /\ Append(m_finished_kernel, k)[Len(m_finished_kernel) + 1] = k
    BY <1>0, AppendFacts DEF TypeOK
  <1>5. TypeOK'
    BY <1>0, <1>3, <1>4, Zenon DEF TypeOK, mgrVars, simVars, hostVars, walkVars
  <1>6. Finished' = Finished \cup {k}
    BY <1>3, <1>4 DEF Finished
  <1>7. RegisterInv'
    <2>1. k \notin Finished
      BY <1>3, Zenon DEF StreamInv, RegisterInv
    <2>2. \A i, j \in 1..Len(m_finished_kernel') :
            m_finished_kernel'[i] = m_finished_kernel'[j] => i = j
      BY <1>3, <1>4, <2>1 DEF StreamInv, RegisterInv, Finished
    <2>3. m_running_kernels' \cap Finished' = {}
      BY <1>3, <1>6, Zenon DEF StreamInv, RegisterInv
    <2>4. \A j \in m_running_kernels \cup Finished : Retirable(j)'
      BY <1>3, Zenon DEF StreamInv, RegisterInv, KernelRegistered, Retirable, Empty, mgrVars
    <2>5. QED BY <1>3, <1>6, <2>2, <2>3, <2>4 DEF RegisterInv, KernelRegistered
  <1>8. QED BY <1>1, <1>2, <1>5, <1>7, Zenon DEF StreamInv

-----------------------------------------------------------------------------
(* The inductive invariant and the theorems. *)

\* The initial state satisfies the invariant.
LEMMA StreamInit == Init => StreamInv
  <1> SUFFICES ASSUME Init PROVE StreamInv BY Zenon
  <1> USE StreamAssumption
  <1>1. TypeOK
    <2>1. /\ m_operations \in [AllStreams -> Seq(Operations)]
          /\ m_streams \in Seq(Streams) /\ m_finished_kernel \in Seq(Uids)
      BY DEF Init
    <2>2. next_uid \in 1..(MaxOps + 1) /\ g_sim_signal_exit \in Nat
      BY DEF Init
    <2>3. QED
      BY <2>1, <2>2, Zenon DEF Init, TypeOK, HostPcs, SimPcs
  <1>2. ServiceInv /\ PendingInv /\ ListedInv
    BY Zenon DEF Init, ServiceInv, PendingInv, ListedInv, AllStreams
  <1>3. UniqueInv
    <2>1. \A s \in AllStreams : 1..Len(m_operations[s]) = {}
      BY DEF Init
    <2>2. \A h \in Hosts : ~Pushing(h)
      BY Zenon DEF Init, Pushing
    <2>3. QED BY <2>1, <2>2, Zenon DEF UniqueInv, QueueUnique, QueueOld, ArgsFresh, ArgsUnique
  <1>4. Finished = {} BY DEF Init, Finished
  <1>5. RegisterInv
    BY <1>4 DEF Init, RegisterInv, KernelRegistered
  <1>6. QED BY <1>1, <1>2, <1>3, <1>5, Zenon DEF StreamInv

\* Every step preserves the invariant.
LEMMA StreamStep == StreamInv /\ [Next]_vars => StreamInv'
  <1> SUFFICES ASSUME StreamInv, [Next]_vars PROVE StreamInv' BY Zenon
  <1>1. ASSUME NEW h \in Hosts, HostCall(h) PROVE StreamInv'
    BY <1>1, AddStreamStep, DestroyStreamStep, StreamSynchronizeBeginStep, PushBeginStep,
       HostControlStep, Zenon DEF HostCall
  <1>2. ASSUME NEW h \in Hosts, HostReturn(h) PROVE StreamInv'
    BY <1>2, DestroyStreamDoneStep, PushStep, HostControlStep, Zenon DEF HostReturn
  <1>3. CASE SimStep
    BY <1>3, SimControlStep, CheckFinishedKernelStep, FrontAndDoOperationStep, Zenon DEF SimStep
  <1>4. CASE GpuStep
    BY <1>4, SimControlStep, SetKernelDoneStep, Zenon DEF GpuStep
  <1>5. CASE Rest \/ UNCHANGED vars
    <2>1. UNCHANGED vars BY <1>5, Zenon DEF Rest
    <2>2. ServiceInv' /\ PendingInv' /\ RegisterInv'
      BY <2>1, ManagerFrame, Zenon DEF vars, mgrVars, gpuVars
    <2>3. ListedInv' /\ UniqueInv'
      BY <2>1, HostFrame, Zenon DEF vars, mgrVars, hostVars
    <2>4. TypeOK'
      BY <2>1, Zenon DEF StreamInv, TypeOK, vars, mgrVars, gpuVars, simVars, hostVars, walkVars
    <2>5. QED BY <2>2, <2>3, <2>4, Zenon DEF StreamInv
  <1>6. QED BY <1>1, <1>2, <1>3, <1>4, <1>5, Zenon DEF Next

\* StreamInv holds in every reachable state, for any numbers of hosts, streams,
\* operations and kernel slots, with launch blocking or without it.
THEOREM StreamInvariant == Spec => []StreamInv
  <1>1. QED BY StreamInit, StreamStep, PTL DEF Spec

\* Type correctness of the stream manager.
THEOREM TypeCorrect == Spec => []TypeOK
  <1>1. StreamInv => TypeOK BY Zenon DEF StreamInv
  <1>2. QED BY <1>1, StreamInvariant, PTL

\* Stream zero is never in flight together with a concurrent stream.
THEOREM ZeroIsExclusive == Spec => []ZeroExclusive
  <1>1. StreamInv => ZeroExclusive BY Zenon DEF StreamInv, ServiceInv, ZeroExclusive
  <1>2. QED BY <1>1, StreamInvariant, PTL

\* The assertions of register_finished_kernel and record_next_done never fail.
THEOREM KernelsAreRegistered == Spec => []KernelRegistered
  <1>1. StreamInv => KernelRegistered BY Zenon DEF StreamInv, RegisterInv
  <1>2. QED BY <1>1, StreamInvariant, PTL

-----------------------------------------------------------------------------
(* The stream manager implements StreamOrder. *)

\* Taking an operation with front() is a Start or a Perform of StreamOrder.
LEMMA FrontRefines ==
  ASSUME StreamInv, FrontAndDoOperation
  PROVE  [Order!Next]_<<m_operations, m_pending>>
  <1>0. TypeOK BY Zenon DEF StreamInv
  <1> DEFINE z == concurrent_streams_empty \/ m_service_stream_zero
  <1>1. ASSUME NEW s \in AllStreams, Chosen(z, s) PROVE Order!MayStart(s)
    <2>1. z \in BOOLEAN BY <1>0, Zenon DEF TypeOK, concurrent_streams_empty
    <2>2. /\ m_operations[s] # <<>> /\ ~m_pending[s]
          /\ z => s = Zero
          /\ ~z => s \in Streams
      BY <1>1, <2>1, ChosenFacts, Zenon
    <2>3. z => \A t \in Streams : ~m_pending[t]
      BY ServiceZeroFacts, Zenon
    <2>4. ~z => ~m_pending[Zero]
      BY Zenon DEF StreamInv, ServiceInv
    <2> HIDE DEF z
    <2>5. CASE z
      BY <2>2, <2>3, <2>5, Zenon DEF Order!MayStart, Order!Excluded, Order!Every
    <2>6. CASE ~z
      BY <2>2, <2>4, <2>6, StreamAssumption, Zenon DEF Order!MayStart, Order!Excluded
    <2>7. QED BY <2>5, <2>6, Zenon
  <1>2. ASSUME NEW s \in AllStreams, Chosen(z, s), TakeAndComplete(s)
        PROVE  Order!Perform(s)
    <2>1. Order!MayStart(s) BY <1>1, <1>2, Zenon
    <2>2. m_pending[s] = FALSE
      BY <1>0, <2>1, Zenon DEF Order!MayStart, Order!Excluded, Order!Every, AllStreams, TypeOK
    <2>3. m_pending' = m_pending
      BY <1>0, <1>2, <2>2, Zenon DEF TakeAndComplete, record_next_done, TypeOK
    <2>4. QED BY <1>2, <2>1, <2>3, Zenon DEF Order!Perform, TakeAndComplete, record_next_done
  <1>3. ASSUME NEW s \in AllStreams, Chosen(z, s), TakeKernel(s, Head(m_operations[s]).uid)
        PROVE  Order!Start(s)
    BY <1>1, <1>3, Zenon DEF Order!Start, TakeKernel
  <1>4. ASSUME TakeNothing PROVE UNCHANGED <<m_operations, m_pending>>
    BY <1>4, Zenon DEF TakeNothing
  <1> HIDE DEF z
  <1>5. AllStreams = Order!Every BY Zenon DEF AllStreams, Order!Every
  <1>6. QED BY <1>2, <1>3, <1>4, <1>5, FrontOutcomes, Zenon DEF z, Order!Next

\* Every step of the stream manager is a step of StreamOrder or a stutter.
LEMMA StepRefines ==
  StreamInv /\ [Next]_vars => [Order!Next]_<<m_operations, m_pending>>
  <1> SUFFICES ASSUME StreamInv, [Next]_vars
               PROVE  [Order!Next]_<<m_operations, m_pending>>
    BY Zenon
  <1>0. TypeOK /\ AllStreams = Order!Every BY Zenon DEF StreamInv, AllStreams, Order!Every
  <1>1. ASSUME NEW h \in Hosts, HostCall(h) PROVE UNCHANGED <<m_operations, m_pending>>
    BY <1>1, Zenon DEF HostCall, AddStream, DestroyStream, StreamSynchronizeBegin, PushBegin,
       SynchronizeBegin, ExitBegin, mgrVars
  <1>2. ASSUME NEW h \in Hosts, HostReturn(h)
        PROVE  [Order!Next]_<<m_operations, m_pending>>
    <2>1. CASE Push(h)
      <3> DEFINE target == IF Blocking(host_stream[h]) THEN Zero ELSE host_stream[h]
      <3>1. /\ m_operations' = [m_operations EXCEPT ![target] = Append(@, host_op[h])]
            /\ UNCHANGED m_pending
            /\ Pushing(h)
        BY <2>1, Zenon DEF Push, Pushing
      <3>2. target \in Order!Every
        BY <1>0, Zenon DEF TypeOK, Blocking, Order!Every
      <3>3. host_op[h] \in Operations
        BY <3>1, Zenon DEF StreamInv, UniqueInv, ArgsFresh, ArgFresh
      <3> HIDE DEF target
      <3>4. Order!Enqueue(target, host_op[h]) BY <3>1, Zenon DEF Order!Enqueue
      <3>5. QED BY <3>2, <3>3, <3>4, Zenon DEF Order!Next
    <2>2. CASE ~Push(h)
      BY <1>2, <2>2, Zenon DEF HostReturn, DestroyStreamDone, PushUnblock, Walk, WaitZero,
         SynchronizeLock, SynchronizeTest, StreamSynchronizeDone, ExitDone, mgrVars
    <2>3. QED BY <2>1, <2>2, Zenon
  <1>3. CASE CheckFinishedKernel
    <2>1. CASE m_finished_kernel = <<>>
      BY <1>3, <2>1, Zenon DEF CheckFinishedKernel
    <2>2. CASE m_finished_kernel # <<>>
      <3> DEFINE uid == Head(m_finished_kernel)
                 s == m_grid_id_to_stream[uid]
      <3>1. record_next_done(s) BY <1>3, <2>2, Zenon DEF CheckFinishedKernel
      <3>2. uid \in Finished /\ uid \in Uids
        BY <1>0, <2>2, TailFacts DEF TypeOK, Finished
      <3>3. Retirable(uid) BY <3>2, Zenon DEF StreamInv, RegisterInv, KernelRegistered
      <3>4. s \in Order!Every /\ m_pending[s] /\ m_operations[s] # <<>>
        BY <1>0, <3>2, <3>3, Zenon DEF Retirable, Empty, TypeOK
      <3> HIDE DEF s
      <3>5. Order!Complete(s) BY <3>1, <3>4, Zenon DEF Order!Complete, record_next_done
      <3>6. QED BY <3>4, <3>5, Zenon DEF Order!Next
    <2>3. QED BY <2>1, <2>2, Zenon
  <1>4. CASE FrontAndDoOperation BY <1>4, FrontRefines, Zenon
  <1>5. ASSUME \/ SimDetect \/ SimStart \/ CycleEnd \/ SimCheck \/ SimStop \/ SimAgain
               \/ GpuStep \/ Rest \/ UNCHANGED vars
        PROVE  UNCHANGED <<m_operations, m_pending>>
    BY <1>5, Zenon DEF SimDetect, SimStart, CycleEnd, SimCheck, SimStop, SimAgain, GpuStep,
       GpuDrained, SetKernelDone, Rest, vars, mgrVars
  <1>6. QED BY <1>1, <1>2, <1>3, <1>4, <1>5, Zenon DEF Next, SimStep

\* The stream manager implements StreamOrder: operations of a stream complete
\* one at a time in the order they were pushed, stream zero alone.
THEOREM Refinement == Spec => ImplementsStreamOrder
  <1>1. Init => Order!Init
    BY Zenon DEF Init, Order!Init, AllStreams, Order!Every
  <1>2. QED
    BY <1>1, StreamInvariant, StepRefines, PTL DEF Spec, ImplementsStreamOrder, Order!Spec

-----------------------------------------------------------------------------
(* What a step does to the queues and to the hosts' operations. *)

\* Every operation that is in a queue after the step was in that queue before.
QueuesShrink ==
  \A s \in AllStreams : \A i \in 1..Len(m_operations'[s]) :
    \E j \in 1..Len(m_operations[s]) : m_operations'[s][i] = m_operations[s][j]

\* No host comes to hold an operation, or starts to wait for one.
NoNewOperation ==
  /\ next_uid' = next_uid
  /\ \A h \in Hosts :
       /\ host_pc'[h] = "wait" => host_pc[h] = "wait" /\ host_op'[h] = host_op[h]
       /\ host_pc'[h] \in {"block", "push"} =>
            host_pc[h] \in {"block", "push"} /\ host_op'[h] = host_op[h]

\* Steps that leave the queues alone.
LEMMA QueuesSame ==
  ASSUME UNCHANGED m_operations
  PROVE  QueuesShrink
  BY Zenon DEF QueuesShrink

\* Completing an operation takes it from its queue.
LEMMA PopShrinks ==
  ASSUME StreamInv, NEW s \in AllStreams, m_operations[s] # <<>>, record_next_done(s)
  PROVE  QueuesShrink
  <1>1. \A t \in AllStreams : \A i \in 1..Len(m_operations'[t]) :
          LET d == IF t = s THEN 1 ELSE 0 IN
          i + d \in 1..Len(m_operations[t]) /\ m_operations'[t][i] = m_operations[t][i + d]
    BY PopStep, Zenon
  <1>2. QED BY <1>1, Zenon DEF QueuesShrink

\* The first half of operation() adds nothing to a queue.
LEMMA CheckFinishedShrinks ==
  ASSUME StreamInv, CheckFinishedKernel
  PROVE  QueuesShrink
  <1>0. TypeOK BY Zenon DEF StreamInv
  <1>1. CASE m_finished_kernel = <<>>
    BY <1>1, QueuesSame, Zenon DEF CheckFinishedKernel
  <1>2. CASE m_finished_kernel # <<>>
    <2> DEFINE uid == Head(m_finished_kernel)
               s == m_grid_id_to_stream[uid]
    <2>1. record_next_done(s) BY <1>2, Zenon DEF CheckFinishedKernel
    <2>2. uid \in Finished /\ uid \in Uids
      BY <1>0, <1>2, TailFacts DEF TypeOK, Finished
    <2>3. Retirable(uid) BY <2>2, Zenon DEF StreamInv, RegisterInv, KernelRegistered
    <2>4. s \in AllStreams /\ m_operations[s] # <<>>
      BY <1>0, <2>2, <2>3, Zenon DEF Retirable, Empty, TypeOK
    <2> HIDE DEF s
    <2>5. QED BY <2>1, <2>4, PopShrinks, Zenon
  <1>3. QED BY <1>1, <1>2, Zenon

\* The second half of operation() adds nothing to a queue.
LEMMA FrontShrinks ==
  ASSUME StreamInv, FrontAndDoOperation
  PROVE  QueuesShrink
  <1> DEFINE z == concurrent_streams_empty \/ m_service_stream_zero
  <1>1. z \in BOOLEAN BY Zenon DEF StreamInv, TypeOK, concurrent_streams_empty
  <1>2. ASSUME TakeNothing PROVE QueuesShrink
    BY <1>2, QueuesSame, Zenon DEF TakeNothing
  <1>3. ASSUME NEW s \in AllStreams, Chosen(z, s), TakeAndComplete(s)
        PROVE  QueuesShrink
    <2>1. m_operations[s] # <<>> BY <1>1, <1>3, ChosenFacts, Zenon
    <2>2. record_next_done(s) BY <1>3, Zenon DEF TakeAndComplete
    <2>3. QED BY <2>1, <2>2, PopShrinks, Zenon
  <1>4. ASSUME NEW s \in AllStreams, TakeKernel(s, Head(m_operations[s]).uid)
        PROVE  QueuesShrink
    BY <1>4, QueuesSame, Zenon DEF TakeKernel
  <1> HIDE DEF z
  <1>5. QED BY <1>2, <1>3, <1>4, FrontOutcomes, Zenon DEF z

\* The steps of the simulation thread and of the GPU, and stuttering steps.
LEMMA SimAddsNothing ==
  ASSUME StreamInv, SimStep \/ GpuStep \/ Rest \/ UNCHANGED vars
  PROVE  QueuesShrink /\ UNCHANGED hostVars
  <1>1. UNCHANGED hostVars
    BY Zenon DEF SimStep, GpuStep, Rest, SimDetect, SimStart, CheckFinishedKernel,
       FrontAndDoOperation, CycleEnd, SimCheck, SimStop, SimAgain, GpuDrained, SetKernelDone, vars
  <1>2. CASE CheckFinishedKernel \/ FrontAndDoOperation
    BY <1>1, <1>2, CheckFinishedShrinks, FrontShrinks, Zenon
  <1>3. CASE ~(CheckFinishedKernel \/ FrontAndDoOperation)
    <2>1. UNCHANGED m_operations
      BY <1>3, Zenon DEF SimStep, GpuStep, Rest, SimDetect, SimStart, CycleEnd, SimCheck, SimStop,
         SimAgain, GpuDrained, SetKernelDone, vars, mgrVars
    <2>2. QED BY <1>1, <2>1, QueuesSame, Zenon
  <1>4. QED BY <1>2, <1>3, Zenon

\* The steps of the hosts other than the two halves of push().
LEMMA HostAddsNothing ==
  ASSUME StreamInv, NEW h \in Hosts, HostCall(h) \/ HostReturn(h),
         ~Push(h), \A s \in Streams \cup {None}, type \in OpTypes : ~PushBegin(h, s, type)
  PROVE  UNCHANGED m_operations /\ NoNewOperation
  <1>0. TypeOK BY Zenon DEF StreamInv
  <1>1. \/ \E s \in Streams : AddStream(h, s) \/ DestroyStream(h, s) \/ StreamSynchronizeBegin(h, s)
        \/ DestroyStreamDone(h) \/ PushUnblock(h) \/ Walk(h) \/ WaitZero(h)
        \/ SynchronizeBegin(h) \/ SynchronizeLock(h) \/ SynchronizeTest(h)
        \/ StreamSynchronizeDone(h) \/ ExitBegin(h) \/ ExitDone(h)
    BY Zenon DEF HostCall, HostReturn
  <1>2. UNCHANGED <<m_operations, next_uid>>
    BY <1>1, Zenon DEF AddStream, DestroyStream, StreamSynchronizeBegin, DestroyStreamDone,
       PushUnblock,
       Walk, WaitZero, SynchronizeBegin, SynchronizeLock, SynchronizeTest, StreamSynchronizeDone,
       ExitBegin, ExitDone, mgrVars, hostVars
  <1>3. ASSUME NEW g \in Hosts \ {h} PROVE host_pc'[g] = host_pc[g] /\ host_op'[g] = host_op[g]
    BY <1>0, <1>1, Zenon DEF TypeOK, AddStream, DestroyStream, StreamSynchronizeBegin,
       DestroyStreamDone,
       PushUnblock, Walk, WaitZero, SynchronizeBegin, SynchronizeLock, SynchronizeTest,
       StreamSynchronizeDone, ExitBegin, ExitDone, Goto, hostVars
  <1>4. /\ host_pc'[h] = "wait" => host_pc[h] = "wait" /\ host_op'[h] = host_op[h]
        /\ host_pc'[h] \in {"block", "push"} =>
             host_pc[h] \in {"block", "push"} /\ host_op'[h] = host_op[h]
    BY <1>0, <1>1 DEF TypeOK, AddStream, DestroyStream, StreamSynchronizeBegin, DestroyStreamDone,
       PushUnblock, Walk, WaitZero, SynchronizeBegin, SynchronizeLock, SynchronizeTest,
       StreamSynchronizeDone, ExitBegin, ExitDone, Goto, hostVars, StartWalk, EndWalk
  <1>5. QED BY <1>2, <1>3, <1>4, Zenon DEF NoNewOperation

-----------------------------------------------------------------------------
(* push() returns when the operation it pushed is complete. *)

\* The operation that host h waits for can only be in the queue of stream
\* zero, and no other host is about to push an operation with its uid.
Awaited(h) ==
  /\ host_op[h] \in Operations
  /\ host_op[h].uid < next_uid
  /\ \A s \in Streams : \A i \in 1..Len(m_operations[s]) :
       m_operations[s][i].uid # host_op[h].uid
  /\ \A g \in Hosts : Pushing(g) => host_op[g].uid # host_op[h].uid

WaitInv == \A h \in Hosts : host_pc[h] = "wait" => Awaited(h)

\* Steps that bring no new operation.
LEMMA WaitFrame ==
  ASSUME WaitInv, QueuesShrink, NoNewOperation
  PROVE  WaitInv'
  <1> SUFFICES ASSUME NEW h \in Hosts, host_pc'[h] = "wait" PROVE Awaited(h)'
    BY Zenon DEF WaitInv
  <1>1. host_pc[h] = "wait" /\ host_op'[h] = host_op[h] /\ next_uid' = next_uid
    BY Zenon DEF NoNewOperation
  <1>2. Awaited(h) BY <1>1, Zenon DEF WaitInv
  <1>3. \A g \in Hosts : Pushing(g)' => Pushing(g) /\ host_op'[g] = host_op[g]
    BY Zenon DEF NoNewOperation, Pushing
  <1>4. \A s \in Streams : \A i \in 1..Len(m_operations'[s]) :
          m_operations'[s][i].uid # host_op[h].uid
    BY <1>2 DEF QueuesShrink, Awaited, AllStreams
  <1>5. QED BY <1>1, <1>2, <1>3, <1>4, Zenon DEF Awaited

\* Push() appends its operation to one stream: stream zero when it blocks, the
\* stream it was given otherwise.
LEMMA PushAppends ==
  ASSUME StreamInv, NEW h \in Hosts, Push(h)
  PROVE  /\ host_op[h] \in Operations
         /\ \A s \in AllStreams : \A i \in 1..Len(m_operations'[s]) :
              \/ \E j \in 1..Len(m_operations[s]) : m_operations'[s][i] = m_operations[s][j]
              \/ /\ m_operations'[s][i] = host_op[h]
                 /\ s = IF Blocking(host_stream[h]) THEN Zero ELSE host_stream[h]
  <1>0. TypeOK BY Zenon DEF StreamInv
  <1> DEFINE target == IF Blocking(host_stream[h]) THEN Zero ELSE host_stream[h]
  <1>1. Pushing(h) /\ m_operations' = [m_operations EXCEPT ![target] = Append(@, host_op[h])]
    BY Zenon DEF Push, Pushing
  <1>2. host_op[h] \in Operations
    BY <1>1, Zenon DEF StreamInv, UniqueInv, ArgsFresh, ArgFresh
  <1>3. target \in AllStreams
    BY <1>0, Zenon DEF TypeOK, Blocking, AllStreams
  <1> HIDE DEF target
  <1>4. ASSUME NEW s \in AllStreams, NEW i \in 1..Len(m_operations'[s])
        PROVE  \/ \E j \in 1..Len(m_operations[s]) : m_operations'[s][i] = m_operations[s][j]
               \/ m_operations'[s][i] = host_op[h] /\ s = target
    <2>1. CASE s = target
      <3>1. m_operations[s] \in Seq(Operations) BY <1>0, Zenon DEF TypeOK
      <3>2. m_operations'[s] = Append(m_operations[s], host_op[h])
        BY <1>0, <1>1, <1>3, <2>1, Zenon DEF TypeOK
      <3>3. QED BY <1>2, <2>1, <3>1, <3>2, AppendFacts
    <2>2. CASE s # target
      BY <1>0, <1>1, <2>2, Zenon DEF TypeOK
    <2>3. QED BY <2>1, <2>2, Zenon
  <1>5. QED BY <1>2, <1>4, Zenon DEF target

\* The second half of push(): the operation enters its queue, and a blocking
\* call starts to wait for it.
LEMMA PushWait ==
  ASSUME StreamInv, WaitInv, NEW h \in Hosts, Push(h)
  PROVE  WaitInv'
  <1>0. TypeOK /\ Pushing(h) /\ ArgFresh(h) /\ next_uid' = next_uid
    BY Zenon DEF StreamInv, UniqueInv, ArgsFresh, Pushing, Push
  <1>1. /\ \A g \in Hosts \ {h} : host_pc'[g] = host_pc[g] /\ host_op'[g] = host_op[g]
        /\ host_pc'[h] = IF Blocking(host_stream[h]) THEN "wait" ELSE "idle"
        /\ Blocking(host_stream[h]) => host_op'[h] = host_op[h]
    BY <1>0, Zenon DEF TypeOK, Push, Goto
  <1>2. \A g \in Hosts : Pushing(g)' => g # h /\ Pushing(g) /\ host_op'[g] = host_op[g]
    BY <1>1, Zenon DEF Pushing
  <1>3. \A s \in Streams : \A i \in 1..Len(m_operations'[s]) :
          \/ \E j \in 1..Len(m_operations[s]) : m_operations'[s][i] = m_operations[s][j]
          \/ m_operations'[s][i] = host_op[h] /\ ~Blocking(host_stream[h])
    BY PushAppends, StreamAssumption DEF AllStreams
  <1> SUFFICES ASSUME NEW g \in Hosts, host_pc'[g] = "wait" PROVE Awaited(g)'
    BY Zenon DEF WaitInv
  <1>4. CASE g = h
    <2>1. Blocking(host_stream[h]) /\ host_op'[h] = host_op[h] BY <1>1, <1>4, Zenon
    <2>2. host_op[h] \in Operations /\ host_op[h].uid < next_uid BY <1>0, Zenon DEF ArgFresh
    <2>3. \A s \in Streams : \A i \in 1..Len(m_operations'[s]) :
            m_operations'[s][i].uid # host_op[h].uid
      BY <1>0, <1>3, <2>1 DEF ArgFresh, AllStreams
    <2>4. \A f \in Hosts : Pushing(f)' => host_op'[f].uid # host_op[h].uid
      BY <1>0, <1>2, Zenon DEF StreamInv, UniqueInv, ArgsUnique
    <2>5. QED BY <1>0, <1>4, <2>1, <2>2, <2>3, <2>4, Zenon DEF Awaited
  <1>5. CASE g # h
    <2>1. Awaited(g) /\ host_op'[g] = host_op[g] BY <1>1, <1>5, Zenon DEF WaitInv
    <2>2. host_op[h].uid # host_op[g].uid BY <1>0, <2>1, Zenon DEF Awaited
    <2>3. \A s \in Streams : \A i \in 1..Len(m_operations'[s]) :
            m_operations'[s][i].uid # host_op[g].uid
      BY <1>3, <2>1, <2>2, Zenon DEF Awaited
    <2>4. QED BY <1>0, <1>2, <2>1, <2>3, Zenon DEF Awaited
  <1>6. QED BY <1>4, <1>5, Zenon

\* The first half of push(): the new operation has a uid of its own.
LEMMA PushBeginWait ==
  ASSUME StreamInv, WaitInv, NEW h \in Hosts, NEW s \in Streams \cup {None}, NEW type \in OpTypes,
         PushBegin(h, s, type)
  PROVE  WaitInv'
  <1>0. TypeOK BY Zenon DEF StreamInv
  <1>1. /\ \A g \in Hosts \ {h} : host_pc'[g] = host_pc[g] /\ host_op'[g] = host_op[g]
        /\ host_pc'[h] # "wait" /\ host_op'[h].uid = next_uid
        /\ next_uid' = next_uid + 1 /\ next_uid \in Nat
        /\ UNCHANGED m_operations
    <2>1. /\ host_pc \in [Hosts -> HostPcs] /\ host_op \in [Hosts -> Operations \cup {None}]
      BY <1>0, Zenon DEF TypeOK
    <2>2. PICK l \in {"block", "push"} : host_pc' = [host_pc EXCEPT ![h] = l]
      BY Zenon DEF PushBegin, Goto
    <2>3. PICK o : o = [type |-> type, uid |-> next_uid, host |-> h]
                   /\ host_op' = [host_op EXCEPT ![h] = o]
      BY Zenon DEF PushBegin
    <2>4. o.uid = next_uid BY <2>3, Zenon
    <2>5. next_uid \in Nat BY <1>0, StreamAssumption DEF TypeOK
    <2>6. l # "wait" BY <2>2, Zenon
    <2>7. /\ \A g \in Hosts \ {h} : host_pc'[g] = host_pc[g] /\ host_op'[g] = host_op[g]
          /\ host_pc'[h] = l /\ host_op'[h] = o
      BY <2>1, <2>2, <2>3, Zenon
    <2>8. QED BY <2>4, <2>5, <2>6, <2>7, Zenon DEF PushBegin, mgrVars
  <1> SUFFICES ASSUME NEW g \in Hosts, host_pc'[g] = "wait" PROVE Awaited(g)'
    BY Zenon DEF WaitInv
  <1>2. g # h /\ Awaited(g) /\ host_op'[g] = host_op[g] BY <1>1, Zenon DEF WaitInv
  <1>3. host_op[g].uid \in Nat /\ host_op[g].uid < next_uid
    BY <1>2, StreamAssumption DEF Awaited, Operations, Uids
  <1>4. host_op[g].uid < next_uid' /\ host_op[g].uid # next_uid BY <1>1, <1>3
  <1>5. \A f \in Hosts : Pushing(f)' => host_op'[f].uid # host_op[g].uid
    BY <1>1, <1>2, <1>4, Zenon DEF Awaited, Pushing
  <1>6. QED BY <1>1, <1>2, <1>4, <1>5, Zenon DEF Awaited

\* Every step preserves WaitInv.
LEMMA WaitStep == StreamInv /\ WaitInv /\ [Next]_vars => WaitInv'
  <1> SUFFICES ASSUME StreamInv, WaitInv, [Next]_vars PROVE WaitInv' BY Zenon
  <1>1. ASSUME NEW h \in Hosts, HostCall(h) \/ HostReturn(h) PROVE WaitInv'
    BY <1>1, PushWait, PushBeginWait, HostAddsNothing, QueuesSame, WaitFrame, Zenon
  <1>2. CASE SimStep \/ GpuStep \/ Rest \/ UNCHANGED vars
    <2>1. QueuesShrink /\ UNCHANGED hostVars BY <1>2, SimAddsNothing, Zenon
    <2>2. NoNewOperation BY <2>1, Zenon DEF NoNewOperation, hostVars
    <2>3. QED BY <2>1, <2>2, WaitFrame, Zenon
  <1>3. QED BY <1>1, <1>2, Zenon DEF Next

\* Only the last read of empty() in push() lets the call return, and it reads
\* stream zero, the only queue that could still hold the operation.
LEMMA PushReturn ==
  ASSUME StreamInv, WaitInv, [Next]_vars
  PROVE  \A h \in Hosts : host_pc[h] = "wait" /\ host_pc'[h] = "idle"
                            => ~Queued(host_op[h].uid)
  <1> SUFFICES ASSUME NEW h \in Hosts, host_pc[h] = "wait", host_pc'[h] = "idle"
               PROVE  ~Queued(host_op[h].uid)
    BY Zenon
  <1>0. TypeOK /\ Awaited(h) BY Zenon DEF StreamInv, WaitInv
  <1>1. ~(SimStep \/ GpuStep \/ Rest \/ UNCHANGED vars)
    BY SimAddsNothing, Zenon DEF hostVars
  <1>2. PICK g \in Hosts : HostCall(g) \/ HostReturn(g) BY <1>1, Zenon DEF Next
  <1>3. g = h
    <2>1. ASSUME g # h PROVE host_pc'[h] = host_pc[h]
      BY <1>0, <1>2, <2>1, Zenon DEF TypeOK, HostCall, HostReturn, AddStream, DestroyStream,
         StreamSynchronizeBegin, PushBegin, SynchronizeBegin, ExitBegin, DestroyStreamDone,
         PushUnblock, Push, Walk, WaitZero, SynchronizeLock, SynchronizeTest,
         StreamSynchronizeDone, ExitDone, Goto, hostVars
    <2>2. QED BY <2>1, Zenon
  <1>4. WaitZero(h)
    BY <1>0, <1>2, <1>3, Zenon DEF TypeOK, HostCall, HostReturn, AddStream, DestroyStream,
       StreamSynchronizeBegin, PushBegin, SynchronizeBegin, ExitBegin, DestroyStreamDone,
       PushUnblock, Push, Walk, SynchronizeLock, SynchronizeTest, StreamSynchronizeDone,
       ExitDone, Call
  <1>5. m_operations[Zero] = <<>> BY <1>4, Zenon DEF WaitZero, Empty
  <1>6. 1..Len(m_operations[Zero]) = {} BY <1>5
  <1>7. QED BY <1>0, <1>6, Zenon DEF Queued, Awaited, AllStreams

\* push() to stream zero, or under launch blocking, returns only when the
\* operation it pushed is complete, for any number of threads and streams and
\* whatever streams other threads create or destroy while it reads the queues
\* without m_lock.
THEOREM PushIsSynchronous == Spec => PushReturnsComplete
  <1>1. Init => WaitInv BY Zenon DEF Init, WaitInv
  <1>2. StreamInv /\ WaitInv /\ [Next]_vars
          => [\A h \in Hosts : host_pc[h] = "wait" /\ host_pc'[h] = "idle"
                                 => ~Queued(host_op[h].uid)]_vars
    BY PushReturn, Zenon
  <1>3. QED BY <1>1, <1>2, StreamInvariant, WaitStep, PTL DEF Spec, PushReturnsComplete

-----------------------------------------------------------------------------
(* While g_sim_active is FALSE the GPU is quiescent. *)

\* No kernel is in the GPU and, unless a limit may stop the simulation in the
\* middle of a cycle, no memory traffic.
Quiet == m_running_kernels = {} /\ m_finished_kernel = <<>> /\ (gpu_busy => Limited)

\* The simulation thread leaves its inner loop only when the GPU is quiescent,
\* and g_sim_active is TRUE while it is in the inner loop.
ActiveInv ==
  /\ gpu_limit => Limited
  /\ ~g_sim_active => sim_pc \in {"spin", "start", "again", "exited"}
  /\ sim_pc \in {"spin", "start", "stop", "again", "exited"} => Quiet

\* With every queue empty the GPU has no kernel: a kernel that runs or waits to
\* be retired is at the front of a stream.
LEMMA EmptyIdle ==
  ASSUME StreamInv, AllEmpty
  PROVE  m_running_kernels = {} /\ m_finished_kernel = <<>>
  <1>0. TypeOK BY Zenon DEF StreamInv
  <1>1. \A t \in AllStreams : m_operations[t] = <<>>
    BY Zenon DEF AllEmpty, concurrent_streams_empty, Empty, StreamInv, ListedInv, AllStreams
  <1>2. ASSUME NEW k \in m_running_kernels \cup Finished PROVE FALSE
    <2>1. k \in Uids BY <1>0 DEF TypeOK, Finished
    <2>2. Retirable(k) BY Zenon DEF StreamInv, RegisterInv, KernelRegistered
    <2>3. m_grid_id_to_stream[k] \in AllStreams
      BY <1>0, <2>1, <2>2, Zenon DEF Retirable, TypeOK
    <2>4. QED BY <1>1, <2>2, <2>3, Zenon DEF Retirable, Empty
  <1>3. m_finished_kernel # <<>> => Head(m_finished_kernel) \in Finished
    BY <1>0, TailFacts DEF TypeOK, Finished
  <1>4. QED BY <1>2, <1>3, Zenon

\* Every step preserves ActiveInv.
LEMMA ActiveStep ==
  ASSUME StreamInv, ActiveInv, [Next]_vars
  PROVE  ActiveInv'
  <1> USE DEF ActiveInv, Quiet
  <1>1. ASSUME NEW h \in Hosts, HostCall(h) \/ HostReturn(h) PROVE ActiveInv'
    <2>1. UNCHANGED <<gpuVars, g_sim_active, sim_pc>>
      BY <1>1, Zenon DEF HostCall, HostReturn, AddStream, DestroyStream,
         StreamSynchronizeBegin, PushBegin, SynchronizeBegin, ExitBegin, DestroyStreamDone,
         PushUnblock, Push, Walk, WaitZero, SynchronizeLock, SynchronizeTest,
         StreamSynchronizeDone, ExitDone, simVars
    <2>2. QED BY <2>1, Zenon DEF gpuVars
  <1>2. CASE SimDetect BY <1>2, Zenon DEF SimDetect, SimGoto, gpuVars
  <1>3. CASE SimStart BY <1>3, Zenon DEF SimStart, SimGoto, gpuVars
  <1>4. CASE CheckFinishedKernel BY <1>4, Zenon DEF CheckFinishedKernel, SimGoto
  <1>5. CASE FrontAndDoOperation BY <1>5, Zenon DEF FrontAndDoOperation, SimGoto
  <1>6. CASE CycleEnd BY <1>6, Zenon DEF CycleEnd, SimGoto
  <1>7. CASE SimCheck
    <2>1. UNCHANGED <<gpuVars, g_sim_active>> /\ sim_pc = "check"
      BY <1>7, Zenon DEF SimCheck, SimGoto
    <2>2. CASE active \/ ~AllEmpty
      <3>1. sim_pc' = "operation" BY <1>7, <2>2, Zenon DEF SimCheck, SimGoto
      <3>2. QED BY <2>1, <3>1, Zenon DEF gpuVars
    <2>3. CASE ~active /\ AllEmpty
      <3>1. Quiet BY <2>3, EmptyIdle, Zenon DEF active
      <3>2. sim_pc' = "stop" BY <1>7, <2>3, Zenon DEF SimCheck, SimGoto
      <3>3. QED BY <2>1, <3>1, <3>2, Zenon DEF gpuVars
    <2>4. QED BY <2>2, <2>3, Zenon
  <1>8. CASE SimStop BY <1>8, Zenon DEF SimStop, SimGoto, gpuVars
  <1>9. CASE SimAgain
    <2>1. sim_pc = "again" /\ sim_pc' \in {"exited", "spin"} /\ UNCHANGED <<gpuVars, g_sim_active>>
      BY <1>9, Zenon DEF SimAgain, SimGoto
    <2>2. QED BY <2>1, Zenon DEF gpuVars
  <1>10. CASE GpuStep BY <1>10 DEF GpuStep, GpuDrained, SetKernelDone, simVars
  <1>11. CASE Rest \/ UNCHANGED vars
    BY <1>11 DEF Rest, vars, gpuVars, simVars
  <1>12. QED
    BY <1>1, <1>2, <1>3, <1>4, <1>5, <1>6, <1>7, <1>8, <1>9, <1>10, <1>11, Zenon DEF Next, SimStep

\* ActiveInv holds in every reachable state.
LEMMA ActiveInvariant == Spec => []ActiveInv
  <1>1. Init => ActiveInv BY Zenon DEF Init, ActiveInv, Quiet
  <1>2. StreamInv /\ ActiveInv /\ [Next]_vars => ActiveInv' BY ActiveStep, Zenon
  <1>3. QED BY <1>1, <1>2, StreamInvariant, PTL DEF Spec

\* A thread that reads g_sim_active = FALSE finds the GPU without kernels and
\* without unretired kernels, even when a limit has stopped the simulation.
THEOREM InactiveHasNoKernel ==
  Spec => [](~g_sim_active => m_running_kernels = {} /\ m_finished_kernel = <<>>)
  <1>1. ActiveInv => (~g_sim_active => m_running_kernels = {} /\ m_finished_kernel = <<>>)
    BY Zenon DEF ActiveInv, Quiet
  <1>2. QED BY <1>1, ActiveInvariant, PTL

\* Without a limit on cycles, instructions or blocks it also finds the memory
\* system drained.  (A limit makes active() false while writes are in flight.)
THEOREM InactiveIsQuiescent == ~Limited => (Spec => []InactiveQuiescent)
  <1> SUFFICES ASSUME ~Limited PROVE Spec => []InactiveQuiescent BY Zenon
  <1>1. ActiveInv => InactiveQuiescent BY Zenon DEF ActiveInv, Quiet, InactiveQuiescent
  <1>2. QED BY <1>1, ActiveInvariant, PTL

-----------------------------------------------------------------------------
(* synchronize() returns when its caller's operations are complete. *)

\* No stream is destroyed while another thread may be walking the list of
\* streams: destroy_stream() is not called, or there is a single thread.
NoDestroyDuringWalk == "destroy" \notin Calls \/ \A g, h \in Hosts : g = h

\* Stream s holds an operation that host h pushed.
Owns(h, s) == \E i \in 1..Len(m_operations[s]) : m_operations[s][i].host = h

\* A walk whose iterator is c has passed the i-th stream.
Passed(c, i) == c = Zero \/ \A j \in 1..i : m_streams[j] # c

\* While host h walks and has seen only empty queues, the streams it has passed
\* hold none of its operations: other hosts may have pushed to them, h has not.
WalkOf(h) ==
  host_pc[h] = "sync" /\ host_cursor[h] # None =>
    /\ host_cursor[h] \in Listed \cup {Zero}
    /\ host_empty[h] => \A i \in 1..Len(m_streams) :
                          Passed(host_cursor[h], i) => ~Owns(h, m_streams[i])

DistinctStreams ==
  \A i, j \in 1..Len(m_streams) : m_streams[i] = m_streams[j] => i = j

\* What a host's control state says about its call.
CallInv ==
  \A h \in Hosts :
    /\ host_pc[h] = "destroy" => "destroy" \in Calls
    /\ host_cursor[h] # None => host_pc[h] \in {"wait", "sync"}
    /\ Pushing(h) => host_op[h].host = h

WalkInv == DistinctStreams /\ CallInv /\ \A h \in Hosts : WalkOf(h)

\* A host that does not start, advance or end a walk.
WalkKept(h) ==
  /\ host_pc'[h] = "destroy" => "destroy" \in Calls
  /\ host_cursor'[h] # None => host_pc'[h] \in {"wait", "sync"}
  /\ host_pc'[h] = "sync" /\ host_cursor'[h] # None =>
       /\ host_pc[h] = "sync"
       /\ host_cursor'[h] = host_cursor[h]
       /\ host_empty'[h] = host_empty[h]

\* Steps that leave the list of streams alone and bring no new operation.
LEMMA WalkFrame ==
  ASSUME StreamInv, WalkInv, UNCHANGED m_streams, QueuesShrink, NoNewOperation,
         \A h \in Hosts : WalkKept(h)
  PROVE  WalkInv'
  <1>0. TypeOK BY Zenon DEF StreamInv
  <1>1. DistinctStreams' BY Zenon DEF WalkInv, DistinctStreams
  <1>2. CallInv' BY Zenon DEF WalkInv, CallInv, WalkKept, NoNewOperation, Pushing
  <1>3. ASSUME NEW h \in Hosts PROVE WalkOf(h)'
    <2> SUFFICES ASSUME host_pc'[h] = "sync", host_cursor'[h] # None
                 PROVE  /\ host_cursor'[h] \in Listed' \cup {Zero}
                        /\ host_empty'[h] =>
                             \A i \in 1..Len(m_streams) :
                               Passed(host_cursor[h], i) => ~Owns(h, m_streams[i])'
      BY Zenon DEF WalkOf, WalkKept, Passed
    <2>1. /\ host_pc[h] = "sync" /\ host_cursor'[h] = host_cursor[h]
          /\ host_empty'[h] = host_empty[h] /\ host_cursor[h] # None
      BY Zenon DEF WalkKept
    <2>2. /\ host_cursor[h] \in Listed \cup {Zero}
          /\ host_empty[h] => \A i \in 1..Len(m_streams) :
                                Passed(host_cursor[h], i) => ~Owns(h, m_streams[i])
      BY <2>1, Zenon DEF WalkInv, WalkOf
    <2>3. \A i \in 1..Len(m_streams) : m_streams[i] \in AllStreams
      BY <1>0 DEF TypeOK, AllStreams
    <2>4. \A s \in AllStreams : ~Owns(h, s) => ~Owns(h, s)'
      BY DEF Owns, QueuesShrink
    <2>5. QED BY <2>1, <2>2, <2>3, <2>4, Zenon DEF Listed
  <1>4. QED BY <1>1, <1>2, <1>3, Zenon DEF WalkInv

\* A new stream is the last of the list, and empty.
LEMMA AddStreamWalk ==
  ASSUME StreamInv, WalkInv, NEW g \in Hosts, NEW s \in Streams, AddStream(g, s)
  PROVE  WalkInv'
  <1>0. TypeOK BY Zenon DEF StreamInv
  <1>1. /\ m_streams' = Append(m_streams, s) /\ s \notin Listed
        /\ UNCHANGED <<m_operations, hostVars>>
    BY Zenon DEF AddStream
  <1>2. /\ m_streams' \in Seq(Streams) /\ Len(m_streams') = Len(m_streams) + 1
        /\ Len(m_streams) \in Nat
        /\ \A i \in 1..Len(m_streams) : m_streams'[i] = m_streams[i]
        /\ m_streams'[Len(m_streams) + 1] = s
    BY <1>0, <1>1, AppendFacts DEF TypeOK
  <1>3. m_operations[s] = <<>> BY <1>1, Zenon DEF StreamInv, ListedInv
  <1>4. DistinctStreams'
    BY <1>1, <1>2 DEF WalkInv, DistinctStreams, Listed
  <1>5. CallInv' BY <1>1, Zenon DEF WalkInv, CallInv, Pushing, hostVars, walkVars
  <1>6. ASSUME NEW h \in Hosts, NEW c, NEW i \in 1..Len(m_streams'), Passed(c, i)',
               \A k \in 1..Len(m_streams) : Passed(c, k) => ~Owns(h, m_streams[k])
        PROVE  ~Owns(h, m_streams[i])'
    <2>1. CASE i \in 1..Len(m_streams)
      <3>1. 1..i \subseteq 1..Len(m_streams) BY <1>2, <2>1
      <3>2. Passed(c, i) BY <1>2, <1>6, <3>1, Zenon DEF Passed
      <3>3. ~Owns(h, m_streams[i]) BY <1>6, <2>1, <3>2, Zenon
      <3>4. QED BY <1>1, <1>2, <2>1, <3>3, Zenon DEF Owns
    <2>2. CASE i = Len(m_streams) + 1
      BY <1>1, <1>2, <1>3, <2>2 DEF Owns
    <2>3. QED BY <1>2, <2>1, <2>2
  <1>7. ASSUME NEW h \in Hosts PROVE WalkOf(h)'
    <2>1. WalkOf(h) BY Zenon DEF WalkInv
    <2>2. Listed \subseteq Listed' BY <1>2 DEF Listed
    <2>3. QED BY <1>1, <1>6, <2>1, <2>2, Zenon DEF WalkOf, hostVars, walkVars
  <1>8. QED BY <1>4, <1>5, <1>7, Zenon DEF WalkInv

\* A stream leaves the list while no host walks.
LEMMA DestroyDoneWalk ==
  ASSUME NoDestroyDuringWalk, StreamInv, WalkInv, NEW g \in Hosts, DestroyStreamDone(g)
  PROVE  WalkInv'
  <1>0. TypeOK BY Zenon DEF StreamInv
  <1>1. host_pc[g] = "destroy" /\ UNCHANGED <<m_operations, host_op, walkVars>>
    BY Zenon DEF DestroyStreamDone
  <1>2. "destroy" \in Calls BY <1>1, Zenon DEF WalkInv, CallInv
  <1>3. \A h \in Hosts : h = g BY <1>2, Zenon DEF NoDestroyDuringWalk
  <1>4. host_pc'[g] = "idle" BY <1>0, Zenon DEF TypeOK, DestroyStreamDone, Goto
  <1>5. host_cursor[g] = None BY <1>1, Zenon DEF WalkInv, CallInv
  <1>6. CallInv' BY <1>1, <1>3, <1>4, <1>5, Zenon DEF CallInv, Pushing, walkVars
  <1>7. \A h \in Hosts : WalkOf(h)' BY <1>3, <1>4, Zenon DEF WalkOf
  <1>8. DistinctStreams'
    <2>1. PICK i \in 1..Len(m_streams) : m_streams' = Without(i)
      BY Zenon DEF DestroyStreamDone
    <2>2. Len(m_streams) \in Nat /\ i \in Nat BY <1>0 DEF TypeOK
    <2> DEFINE n == Len(m_streams)
               old(j) == IF j < i THEN j ELSE j + 1
    <2>3. m_streams' = [j \in 1..(n - 1) |-> m_streams[old(j)]]
      BY <2>1, Zenon DEF Without
    <2>4. n - 1 \in Nat BY <2>2
    <2>5. Len(m_streams') = n - 1
      BY <2>3, <2>4
    <2>6. \A j \in 1..(n - 1) : old(j) \in 1..n /\ m_streams'[j] = m_streams[old(j)]
      BY <2>2, <2>3
    <2>7. \A j, k \in 1..(n - 1) : old(j) = old(k) => j = k
      BY <2>2
    <2> HIDE DEF n, old
    <2>8. \A j, k \in 1..n : m_streams[j] = m_streams[k] => j = k
      BY Zenon DEF WalkInv, DistinctStreams, n
    <2>9. QED BY <2>5, <2>6, <2>7, <2>8 DEF DistinctStreams
  <1>9. QED BY <1>6, <1>7, <1>8, Zenon DEF WalkInv

\* The first half of push(): the operation carries its host.
LEMMA PushBeginWalk ==
  ASSUME StreamInv, WalkInv, NEW g \in Hosts, NEW s \in Streams \cup {None}, NEW type \in OpTypes,
         PushBegin(g, s, type)
  PROVE  WalkInv'
  <1>0. TypeOK BY Zenon DEF StreamInv
  <1>1. /\ \A h \in Hosts \ {g} : host_pc'[h] = host_pc[h] /\ host_op'[h] = host_op[h]
        /\ host_pc[g] = "idle" /\ host_pc'[g] \in {"block", "push"} /\ host_op'[g].host = g
        /\ UNCHANGED <<m_operations, m_streams, walkVars>>
    BY <1>0, Zenon DEF TypeOK, PushBegin, Goto, mgrVars, Call
  <1>2. DistinctStreams' BY <1>1, Zenon DEF WalkInv, DistinctStreams
  <1>3. CallInv' BY <1>1, Zenon DEF WalkInv, CallInv, Pushing, walkVars
  <1>4. ASSUME NEW h \in Hosts PROVE WalkOf(h)'
    <2>1. WalkOf(h) BY Zenon DEF WalkInv
    <2>2. host_pc'[h] = "sync" => host_pc[h] = "sync" BY <1>1, Zenon
    <2>3. QED BY <1>1, <2>1, <2>2, Zenon DEF WalkOf, Passed, Owns, Listed, walkVars
  <1>5. QED BY <1>2, <1>3, <1>4, Zenon DEF WalkInv

\* The second half of push(): the operation belongs to the pushing host, which
\* is not walking for synchronize().
LEMMA PushWalk ==
  ASSUME StreamInv, WalkInv, NEW g \in Hosts, Push(g)
  PROVE  WalkInv'
  <1>0. TypeOK /\ Pushing(g) BY Zenon DEF StreamInv, Push, Pushing
  <1>1. /\ \A h \in Hosts \ {g} : /\ host_pc'[h] = host_pc[h] /\ host_op'[h] = host_op[h]
                                  /\ host_cursor'[h] = host_cursor[h]
                                  /\ host_empty'[h] = host_empty[h]
        /\ host_pc'[g] \in {"wait", "idle"}
        /\ host_pc'[g] = "idle" => host_cursor'[g] = host_cursor[g]
        /\ UNCHANGED m_streams
    BY <1>0 DEF TypeOK, Push, Goto, StartWalk, walkVars
  <1>2. DistinctStreams' BY <1>1, Zenon DEF WalkInv, DistinctStreams
  <1>3. host_cursor[g] = None /\ host_op[g].host = g BY <1>0, Zenon DEF WalkInv, CallInv, Pushing
  <1>4. CallInv' BY <1>1, <1>3, Zenon DEF WalkInv, CallInv, Pushing
  <1>5. ASSUME NEW h \in Hosts, NEW s \in AllStreams, h # g, ~Owns(h, s) PROVE ~Owns(h, s)'
    <2>1. \A i \in 1..Len(m_operations'[s]) :
            \/ \E j \in 1..Len(m_operations[s]) : m_operations'[s][i] = m_operations[s][j]
            \/ m_operations'[s][i] = host_op[g]
      BY PushAppends, Zenon
    <2>2. QED BY <1>3, <1>5, <2>1, Zenon DEF Owns
  <1>6. ASSUME NEW h \in Hosts, host_pc'[h] = "sync" PROVE WalkOf(h)'
    <2>1. WalkOf(h) BY Zenon DEF WalkInv
    <2>2. /\ h # g /\ host_pc[h] = "sync" /\ host_cursor'[h] = host_cursor[h]
          /\ host_empty'[h] = host_empty[h]
      BY <1>1, <1>6, Zenon
    <2>3. \A i \in 1..Len(m_streams) : ~Owns(h, m_streams[i]) => ~Owns(h, m_streams[i])'
      <3>1. \A s \in AllStreams : ~Owns(h, s) => ~Owns(h, s)' BY <1>5, <2>2, Zenon
      <3>2. m_streams \in Seq(Streams) BY <1>0, Zenon DEF TypeOK
      <3>3. \A i \in 1..Len(m_streams) : m_streams[i] \in Streams BY <3>2
      <3>4. \A i \in 1..Len(m_streams) : m_streams[i] \in AllStreams
        BY <3>3, Zenon DEF AllStreams
      <3>5. QED BY <1>1, <3>1, <3>4, Zenon DEF Owns
    <2>4. Listed' = Listed BY <1>1, Zenon DEF Listed
    <2>5. \A i : Passed(host_cursor[h], i)' => Passed(host_cursor[h], i)
      BY <1>1, <2>2, Zenon DEF Passed
    <2>6. QED BY <1>1, <2>1, <2>2, <2>3, <2>4, <2>5, Zenon DEF WalkOf
  <1>7. \A h \in Hosts : WalkOf(h)' BY <1>6, Zenon DEF WalkOf
  <1>8. QED BY <1>2, <1>4, <1>7, Zenon DEF WalkInv

\* One step of an unlocked walk: the queue it reads is empty, or the walk has
\* seen a non-empty queue.
LEMMA WalkWalk ==
  ASSUME StreamInv, WalkInv, NEW g \in Hosts, Walk(g)
  PROVE  WalkInv'
  <1>0. TypeOK BY Zenon DEF StreamInv
  <1> DEFINE s == host_cursor[g]
  <1>1. /\ \A h \in Hosts \ {g} : /\ host_cursor'[h] = host_cursor[h]
                                  /\ host_empty'[h] = host_empty[h]
        /\ host_pc[g] \in {"wait", "sync"} /\ s # None /\ s # Zero
        /\ host_cursor'[g] = NextCursor(s)
        /\ host_empty'[g] => host_empty[g] /\ (s \in Listed => Empty(s))
        /\ UNCHANGED <<m_operations, m_streams, host_pc, host_op>>
    BY <1>0, Zenon DEF TypeOK, Walk, mgrVars
  <1>2. DistinctStreams' BY <1>1, Zenon DEF WalkInv, DistinctStreams
  <1>3. CallInv' BY <1>1, Zenon DEF WalkInv, CallInv, Pushing
  <1>4. ASSUME NEW h \in Hosts, h # g PROVE WalkOf(h)'
    <2>1. WalkOf(h) BY Zenon DEF WalkInv
    <2>2. host_cursor'[h] = host_cursor[h] /\ host_empty'[h] = host_empty[h] BY <1>1, <1>4, Zenon
    <2>3. /\ Listed' = Listed
          /\ \A i : Passed(host_cursor[h], i)' => Passed(host_cursor[h], i)
      BY <1>1, <2>2, Zenon DEF Listed, Passed
    <2>4. \A i : Owns(h, m_streams[i])' => Owns(h, m_streams[i]) BY <1>1, Zenon DEF Owns
    <2>5. QED BY <1>1, <2>1, <2>2, <2>3, <2>4, Zenon DEF WalkOf
  <1>5. ASSUME host_pc[g] = "sync" PROVE WalkOf(g)'
    <2>1. /\ s \in Listed
          /\ host_empty[g] => \A i \in 1..Len(m_streams) : Passed(s, i) => ~Owns(g, m_streams[i])
      BY <1>1, <1>5, Zenon DEF WalkInv, WalkOf
    <2> DEFINE n == CHOOSE i \in 1..Len(m_streams) : m_streams[i] = s
    <2>2. n \in 1..Len(m_streams) /\ m_streams[n] = s BY <2>1, Zenon DEF Listed
    <2>3. Len(m_streams) \in Nat /\ \A i \in 1..Len(m_streams) : m_streams[i] \in Streams
      BY <1>0 DEF TypeOK
    <2>4. NextCursor(s) = IF n = Len(m_streams) THEN Zero ELSE m_streams[n + 1]
      BY <2>1, Zenon DEF NextCursor
    <2> HIDE DEF n, s
    <2>5. NextCursor(s) \in Listed \cup {Zero}
      BY <2>2, <2>3, <2>4 DEF Listed
    <2>6. ASSUME NEW i \in 1..Len(m_streams), Passed(NextCursor(s), i) PROVE i <= n
      <3>1. CASE n = Len(m_streams) BY <2>3, <3>1
      <3>2. CASE n # Len(m_streams)
        <4>1. n + 1 \in 1..Len(m_streams) BY <2>2, <2>3, <3>2
        <4>2. NextCursor(s) = m_streams[n + 1] /\ m_streams[n + 1] # Zero
          BY <2>3, <2>4, <3>2, <4>1, StreamAssumption, Zenon
        <4>3. n + 1 \notin 1..i BY <2>6, <4>2, Zenon DEF Passed
        <4>4. QED BY <2>2, <2>3, <4>1, <4>3
      <3>3. QED BY <3>1, <3>2, Zenon
    <2>7. ASSUME host_empty'[g], NEW i \in 1..Len(m_streams), Passed(NextCursor(s), i)
          PROVE  ~Owns(g, m_streams[i])
      <3>1. i <= n BY <2>6, <2>7, Zenon
      <3>2. CASE i = n
        <4>1. m_operations[m_streams[i]] = <<>> BY <1>1, <2>1, <2>2, <2>7, <3>2, Zenon DEF Empty, s
        <4>2. QED BY <4>1 DEF Owns
      <3>3. CASE i # n
        <4>1. \A j \in 1..i : j \in 1..Len(m_streams) /\ j # n BY <2>2, <2>3, <3>1, <3>3
        <4>2. \A j \in 1..i : m_streams[j] # s BY <2>2, <4>1, Zenon DEF WalkInv, DistinctStreams
        <4>3. QED BY <1>1, <2>1, <2>7, <4>2, Zenon DEF Passed
      <3>4. QED BY <3>2, <3>3, Zenon
    <2>8. \A i \in 1..Len(m_streams) : Owns(g, m_streams[i])' = Owns(g, m_streams[i])
      BY <1>1, Zenon DEF Owns
    <2>9. \A i \in 1..Len(m_streams) : \A c : Passed(c, i)' = Passed(c, i)
      BY <1>1, Zenon DEF Passed
    <2>10. host_cursor'[g] = NextCursor(s) /\ m_streams' = m_streams BY <1>1, Zenon DEF s
    <2>11. QED BY <2>5, <2>7, <2>8, <2>9, <2>10, Zenon DEF WalkOf, Listed
  <1>6. \A h \in Hosts : WalkOf(h)'
    BY <1>1, <1>4, <1>5, Zenon DEF WalkOf
  <1>7. QED BY <1>2, <1>3, <1>6, Zenon DEF WalkInv

\* A walk starts: it has passed no stream.
LEMMA LockWalk ==
  ASSUME StreamInv, WalkInv, NEW g \in Hosts, SynchronizeLock(g)
  PROVE  WalkInv'
  <1>0. TypeOK BY Zenon DEF StreamInv
  <1>1. /\ \A h \in Hosts \ {g} : /\ host_cursor'[h] = host_cursor[h]
                                  /\ host_empty'[h] = host_empty[h]
        /\ host_pc[g] = "sync" /\ host_cursor'[g] = FirstCursor
        /\ UNCHANGED <<m_operations, m_streams, host_pc, host_op>>
    BY <1>0, Zenon DEF TypeOK, SynchronizeLock, StartWalk, mgrVars
  <1>2. DistinctStreams' BY <1>1, Zenon DEF WalkInv, DistinctStreams
  <1>3. CallInv' BY <1>1, Zenon DEF WalkInv, CallInv, Pushing
  <1>4. ASSUME NEW h \in Hosts, h # g PROVE WalkOf(h)'
    <2>1. WalkOf(h) BY Zenon DEF WalkInv
    <2>2. host_cursor'[h] = host_cursor[h] /\ host_empty'[h] = host_empty[h] BY <1>1, <1>4, Zenon
    <2>3. QED BY <1>1, <2>1, <2>2 DEF WalkOf, Passed, Owns, Listed
  <1>5. WalkOf(g)'
    <2>1. CASE m_streams = <<>>
      BY <1>1, <2>1 DEF WalkOf, FirstCursor
    <2>2. CASE m_streams # <<>>
      <3>1. FirstCursor = m_streams[1] BY <2>2, Zenon DEF FirstCursor
      <3>2. 1 \in 1..Len(m_streams) /\ m_streams[1] \in Streams BY <1>0, <2>2 DEF TypeOK
      <3>3. m_streams[1] \in Listed /\ m_streams[1] # Zero
        BY <3>2, StreamAssumption, Zenon DEF Listed
      <3>4. \A i \in 1..Len(m_streams) : 1 \in 1..i BY <1>0 DEF TypeOK
      <3>5. \A i \in 1..Len(m_streams) : ~Passed(m_streams[1], i) BY <3>3, <3>4, Zenon DEF Passed
      <3>6. QED BY <1>1, <3>1, <3>3, <3>5 DEF WalkOf, Listed, Passed
    <2>3. QED BY <2>1, <2>2, Zenon
  <1>6. QED BY <1>2, <1>3, <1>4, <1>5, Zenon DEF WalkInv

\* The other steps of the hosts neither start nor advance a walk of
\* synchronize().
LEMMA OthersWalk ==
  ASSUME StreamInv, WalkInv, NEW g \in Hosts,
         \/ \E s \in Streams : DestroyStream(g, s) \/ StreamSynchronizeBegin(g, s)
         \/ PushUnblock(g) \/ WaitZero(g) \/ SynchronizeBegin(g) \/ SynchronizeTest(g)
         \/ StreamSynchronizeDone(g) \/ ExitBegin(g) \/ ExitDone(g)
  PROVE  UNCHANGED m_streams /\ \A h \in Hosts : WalkKept(h)
  <1>0. TypeOK BY Zenon DEF StreamInv
  <1>1. UNCHANGED m_streams
    BY Zenon DEF DestroyStream, StreamSynchronizeBegin, PushUnblock, WaitZero, SynchronizeBegin,
       SynchronizeTest, StreamSynchronizeDone, ExitBegin, ExitDone, mgrVars
  <1>2. ASSUME NEW h \in Hosts, h # g PROVE WalkKept(h)
    <2>1. /\ host_pc'[h] = host_pc[h] /\ host_cursor'[h] = host_cursor[h]
          /\ host_empty'[h] = host_empty[h]
      BY <1>0, <1>2, Zenon DEF TypeOK, DestroyStream, StreamSynchronizeBegin, PushUnblock, WaitZero,
         SynchronizeBegin, SynchronizeTest, StreamSynchronizeDone, ExitBegin, ExitDone, Goto,
         StartWalk, EndWalk, walkVars
    <2>2. QED BY <2>1, Zenon DEF WalkInv, CallInv, WalkKept
  <1>3. WalkKept(g)
    <2>1. CASE WaitZero(g)
      <3>1. \/ host_pc'[g] = "wait"
            \/ host_pc'[g] = "idle" /\ host_cursor'[g] = None
        BY <1>0, <2>1, Zenon DEF TypeOK, WaitZero, Goto, EndWalk
      <3>2. QED BY <3>1, Zenon DEF WalkKept
    <2>2. CASE SynchronizeTest(g)
      <3>1. host_pc'[g] # "destroy" /\ host_cursor'[g] = None
        BY <1>0, <2>2, Zenon DEF TypeOK, SynchronizeTest, Goto, EndWalk
      <3>2. QED BY <3>1, Zenon DEF WalkKept
    <2>3. CASE ~WaitZero(g) /\ ~SynchronizeTest(g)
      <3>1. /\ host_pc[g] \notin {"wait", "sync"} /\ host_cursor'[g] = host_cursor[g]
            /\ host_pc'[g] = "destroy" => "destroy" \in Calls
        BY <1>0, <2>3, Zenon DEF TypeOK, DestroyStream, StreamSynchronizeBegin, PushUnblock,
           SynchronizeBegin, StreamSynchronizeDone, ExitBegin, ExitDone, Goto, walkVars, Call
      <3>2. host_cursor[g] = None BY <3>1, Zenon DEF WalkInv, CallInv
      <3>3. QED BY <3>1, <3>2, Zenon DEF WalkKept
    <2>4. QED BY <2>1, <2>2, <2>3, Zenon
  <1>4. QED BY <1>1, <1>2, <1>3, Zenon

\* Every step preserves WalkInv while no stream is destroyed under a walk.
LEMMA WalkInvStep ==
  ASSUME NoDestroyDuringWalk, StreamInv, WalkInv, [Next]_vars
  PROVE  WalkInv'
  <1>1. ASSUME NEW h \in Hosts, HostCall(h) \/ HostReturn(h) PROVE WalkInv'
    <2>1. CASE \/ \E s \in Streams : AddStream(h, s)
               \/ \E s \in Streams \cup {None}, type \in OpTypes : PushBegin(h, s, type)
               \/ DestroyStreamDone(h) \/ Push(h) \/ Walk(h) \/ SynchronizeLock(h)
      BY <2>1, AddStreamWalk, PushBeginWalk, DestroyDoneWalk, PushWalk, WalkWalk, LockWalk, Zenon
    <2>2. CASE ~( \/ \E s \in Streams : AddStream(h, s)
                  \/ \E s \in Streams \cup {None}, type \in OpTypes : PushBegin(h, s, type)
                  \/ DestroyStreamDone(h) \/ Push(h) \/ Walk(h) \/ SynchronizeLock(h) )
      <3>1. UNCHANGED m_operations /\ NoNewOperation BY <1>1, <2>2, HostAddsNothing, Zenon
      <3>2. UNCHANGED m_streams /\ \A g \in Hosts : WalkKept(g)
        BY <1>1, <2>2, OthersWalk, Zenon DEF HostCall, HostReturn
      <3>3. QED BY <3>1, <3>2, QueuesSame, WalkFrame, Zenon
    <2>3. QED BY <2>1, <2>2, Zenon
  <1>2. CASE SimStep \/ GpuStep \/ Rest \/ UNCHANGED vars
    <2>1. QueuesShrink /\ UNCHANGED hostVars BY <1>2, SimAddsNothing, Zenon
    <2>2. NoNewOperation BY <2>1, Zenon DEF NoNewOperation, hostVars
    <2>3. \A h \in Hosts : WalkKept(h)
      BY <2>1, Zenon DEF WalkInv, CallInv, WalkKept, hostVars, walkVars
    <2>4. UNCHANGED m_streams
      BY <1>2, Zenon DEF SimStep, GpuStep, Rest, SimDetect, SimStart, CheckFinishedKernel,
         FrontAndDoOperation, CycleEnd, SimCheck, SimStop, SimAgain, GpuDrained, SetKernelDone,
         vars, mgrVars
    <2>5. QED BY <2>1, <2>2, <2>3, <2>4, WalkFrame, Zenon
  <1>3. QED BY <1>1, <1>2, Zenon DEF Next

\* Only the last test of synchronize() lets it return.
LEMMA SynchronizeReturn ==
  ASSUME ~Limited, StreamInv, ActiveInv, WalkInv, [Next]_vars
  PROVE  \A h \in Hosts : host_pc[h] = "sync" /\ host_pc'[h] = "idle"
           => /\ \A s \in AllStreams : \A i \in 1..Len(m_operations[s]) :
                   m_operations[s][i].host # h
              /\ m_running_kernels = {} /\ ~gpu_busy
  <1> SUFFICES ASSUME NEW h \in Hosts, host_pc[h] = "sync", host_pc'[h] = "idle"
               PROVE  /\ \A s \in AllStreams : ~Owns(h, s)
                      /\ m_running_kernels = {} /\ ~gpu_busy
    BY Zenon DEF Owns
  <1>0. TypeOK /\ WalkOf(h) BY Zenon DEF StreamInv, WalkInv
  <1>1. ~(SimStep \/ GpuStep \/ Rest \/ UNCHANGED vars)
    BY SimAddsNothing, Zenon DEF hostVars
  <1>2. PICK g \in Hosts : HostCall(g) \/ HostReturn(g) BY <1>1, Zenon DEF Next
  <1>3. g = h
    <2>1. ASSUME g # h PROVE host_pc'[h] = host_pc[h]
      BY <1>0, <1>2, <2>1, Zenon DEF TypeOK, HostCall, HostReturn, AddStream, DestroyStream,
         StreamSynchronizeBegin, PushBegin, SynchronizeBegin, ExitBegin, DestroyStreamDone,
         PushUnblock, Push, Walk, WaitZero, SynchronizeLock, SynchronizeTest,
         StreamSynchronizeDone, ExitDone, Goto, hostVars
    <2>2. QED BY <2>1, Zenon
  <1>4. SynchronizeTest(h)
    BY <1>0, <1>2, <1>3, Zenon DEF TypeOK, HostCall, HostReturn, AddStream, DestroyStream,
       StreamSynchronizeBegin, PushBegin, SynchronizeBegin, ExitBegin, DestroyStreamDone,
       PushUnblock, Push, Walk, WaitZero, SynchronizeLock, StreamSynchronizeDone,
       ExitDone, Call
  <1>5. host_cursor[h] = Zero /\ host_empty[h] /\ m_operations[Zero] = <<>> /\ ~g_sim_active
    BY <1>0, <1>4, Zenon DEF TypeOK, SynchronizeTest, Goto, Empty
  <1>6. m_running_kernels = {} /\ ~gpu_busy BY <1>5, Zenon DEF ActiveInv, Quiet
  <1>7. \A i \in 1..Len(m_streams) : ~Owns(h, m_streams[i])
    BY <1>0, <1>5, StreamAssumption, Zenon DEF WalkOf, Passed
  <1>8. \A s \in AllStreams \ Listed : m_operations[s] = <<>>
    BY <1>5, Zenon DEF StreamInv, ListedInv, AllStreams
  <1>9. \A s \in AllStreams : m_operations[s] = <<>> => ~Owns(h, s) BY DEF Owns
  <1>10. QED BY <1>6, <1>7, <1>8, <1>9, Zenon DEF Listed

\* synchronize() returns only when everything its caller pushed is complete and
\* the GPU is quiescent, although it reads the queues one by one and without
\* m_lock: for any number of threads, as long as none destroys a stream while
\* another may walk the list, in a simulation without limits.
THEOREM SynchronizeIsComplete ==
  NoDestroyDuringWalk /\ ~Limited => (Spec => SynchronizeReturnsComplete)
  <1> SUFFICES ASSUME NoDestroyDuringWalk, ~Limited
               PROVE  Spec => SynchronizeReturnsComplete
    BY Zenon
  <1>1. Init => WalkInv
    BY DEF Init, WalkInv, DistinctStreams, CallInv, WalkOf, Pushing
  <1>2. StreamInv /\ WalkInv /\ [Next]_vars => WalkInv' BY WalkInvStep, Zenon
  <1>3. StreamInv /\ ActiveInv /\ WalkInv /\ [Next]_vars
          => [\A h \in Hosts : host_pc[h] = "sync" /\ host_pc'[h] = "idle"
               => /\ \A s \in AllStreams : \A i \in 1..Len(m_operations[s]) :
                       m_operations[s][i].host # h
                  /\ m_running_kernels = {} /\ ~gpu_busy]_vars
    BY SynchronizeReturn, Zenon
  <1>4. QED
    BY <1>1, <1>2, <1>3, StreamInvariant, ActiveInvariant, PTL DEF Spec, SynchronizeReturnsComplete

-----------------------------------------------------------------------------
(* An operation that is pending was started. *)

INSTANCE FiniteSetTheorems

\* The GPU has a kernel slot for every stream of the application.
SlotPerStream == IsFiniteSet(Streams) /\ Cardinality(Streams) <= MaxConcurrentKernel

\* A kernel in a slot is the front operation of a pending stream, a different
\* stream for every kernel.
LEMMA RunningStreams ==
  ASSUME StreamInv
  PROVE  /\ \A k \in m_running_kernels : /\ m_grid_id_to_stream[k] \in AllStreams
                                         /\ m_pending[m_grid_id_to_stream[k]]
         /\ \A j, k \in m_running_kernels :
              m_grid_id_to_stream[j] = m_grid_id_to_stream[k] => j = k
  <1>0. TypeOK BY Zenon DEF StreamInv
  <1>1. \A k \in m_running_kernels : Retirable(k) /\ k \in Uids
    BY <1>0, Zenon DEF StreamInv, RegisterInv, KernelRegistered, TypeOK
  <1>2. ASSUME NEW k \in m_running_kernels
        PROVE  /\ m_grid_id_to_stream[k] \in AllStreams /\ m_pending[m_grid_id_to_stream[k]]
               /\ k = Head(m_operations[m_grid_id_to_stream[k]]).uid
    <2>1. m_grid_id_to_stream[k] \in AllStreams \cup {None} BY <1>0, <1>1, Zenon DEF TypeOK
    <2>2. Retirable(k) BY <1>1, Zenon
    <2>3. /\ m_grid_id_to_stream[k] # None /\ m_pending[m_grid_id_to_stream[k]]
          /\ Head(m_operations[m_grid_id_to_stream[k]]).uid = k
      BY <2>2, Zenon DEF Retirable
    <2>4. QED BY <2>1, <2>3, Zenon
  <1>3. QED BY <1>2, Zenon

\* When front() has chosen a stream, a slot is free: the running kernels belong
\* to other streams.
LEMMA SlotFree ==
  ASSUME SlotPerStream, StreamInv, NEW s \in AllStreams,
         Chosen(concurrent_streams_empty \/ m_service_stream_zero, s)
  PROVE  can_start_kernel
  <1> DEFINE z == concurrent_streams_empty \/ m_service_stream_zero
  <1>0. TypeOK /\ MaxConcurrentKernel \in Nat \ {0}
    BY StreamAssumption, Zenon DEF StreamInv
  <1>1. z \in BOOLEAN BY <1>0, Zenon DEF TypeOK, concurrent_streams_empty
  <1>2. ~m_pending[s] /\ (z => s = Zero) /\ (~z => s \in Streams)
    BY <1>1, ChosenFacts, Zenon
  <1>3. CASE z
    <2>1. \A t \in AllStreams : ~m_pending[t]
      BY <1>2, <1>3, ServiceZeroFacts, Zenon DEF AllStreams
    <2>2. m_running_kernels = {} BY <2>1, RunningStreams, Zenon
    <2>3. QED BY <1>0, <2>2, FS_EmptySet DEF can_start_kernel
  <1>4. CASE ~z
    <2>1. ~m_pending[Zero] /\ s \in Streams
      BY <1>2, <1>4, Zenon DEF StreamInv, ServiceInv
    <2> DEFINE f == [k \in m_running_kernels |-> m_grid_id_to_stream[k]]
               T == Streams \ {s}
    <2>2. \A k \in m_running_kernels : m_grid_id_to_stream[k] \in T
      BY <1>2, <2>1, RunningStreams, Zenon DEF AllStreams
    <2>3. f \in Injection(m_running_kernels, T)
      BY <2>2, RunningStreams, Zenon DEF Injection, IsInjective
    <2>4. IsFiniteSet(T) /\ Cardinality(T) = Cardinality(Streams) - 1
      BY <2>1, FS_RemoveElement, Zenon DEF SlotPerStream
    <2> HIDE DEF f, T
    <2>5. IsFiniteSet(m_running_kernels) /\ Cardinality(m_running_kernels) <= Cardinality(T)
      BY <2>3, <2>4, FS_Injection, Zenon
    <2>6. Cardinality(m_running_kernels) \in Nat /\ Cardinality(Streams) \in Nat
      BY <2>5, FS_CardinalityType, Zenon DEF SlotPerStream
    <2>7. QED BY <1>0, <2>4, <2>5, <2>6 DEF SlotPerStream, can_start_kernel
  <1>5. QED BY <1>3, <1>4, Zenon

\* Steps that leave the queues, the pending flags and the GPU's kernels alone.
LEMMA StartedFrame ==
  ASSUME PendingStarted,
         UNCHANGED <<m_operations, m_pending, m_running_kernels, m_finished_kernel>>
  PROVE  PendingStarted'
  BY Zenon DEF PendingStarted, Finished, Empty

\* An operation pushed behind a pending one leaves it at the front.
LEMMA PushStarted ==
  ASSUME StreamInv, PendingStarted, NEW h \in Hosts, Push(h)
  PROVE  PendingStarted'
  <1>0. TypeOK BY Zenon DEF StreamInv
  <1> DEFINE target == IF Blocking(host_stream[h]) THEN Zero ELSE host_stream[h]
  <1>1. /\ m_operations' = [m_operations EXCEPT ![target] = Append(@, host_op[h])]
        /\ Pushing(h)
        /\ UNCHANGED <<m_pending, gpuVars>>
    BY Zenon DEF Push, Pushing
  <1>2. host_op[h] \in Operations
    BY <1>1, Zenon DEF StreamInv, UniqueInv, ArgsFresh, ArgFresh
  <1> HIDE DEF target
  <1> SUFFICES ASSUME NEW s \in AllStreams, m_pending[s]
               PROVE  /\ m_operations'[s] # <<>>
                      /\ Head(m_operations'[s]).uid \in m_running_kernels \cup Finished
    BY <1>1, Zenon DEF PendingStarted, Empty, Finished, gpuVars
  <1>3. /\ m_operations[s] \in Seq(Operations) /\ m_operations[s] # <<>>
        /\ Head(m_operations[s]).uid \in m_running_kernels \cup Finished
    BY <1>0, Zenon DEF TypeOK, PendingStarted, Empty
  <1>4. CASE s = target
    <2>1. m_operations'[s] = Append(m_operations[s], host_op[h])
      BY <1>0, <1>1, <1>4, Zenon DEF TypeOK
    <2>2. Append(m_operations[s], host_op[h]) # <<>>
          /\ Head(Append(m_operations[s], host_op[h])) = Head(m_operations[s])
      BY <1>2, <1>3
    <2>3. QED BY <1>3, <2>1, <2>2, Zenon
  <1>5. CASE s # target
    BY <1>0, <1>1, <1>3, <1>5, Zenon DEF TypeOK
  <1>6. QED BY <1>4, <1>5, Zenon

\* Retiring a kernel ends the pending operation of its own stream only.
LEMMA CheckFinishedStarted ==
  ASSUME StreamInv, PendingStarted, CheckFinishedKernel
  PROVE  PendingStarted'
  <1>0. TypeOK BY Zenon DEF StreamInv
  <1>1. CASE m_finished_kernel = <<>>
    BY <1>1, StartedFrame, Zenon DEF CheckFinishedKernel
  <1>2. CASE m_finished_kernel # <<>>
    <2> DEFINE uid == Head(m_finished_kernel)
               s == m_grid_id_to_stream[uid]
    <2>1. /\ record_next_done(s) /\ m_finished_kernel' = Tail(m_finished_kernel)
          /\ UNCHANGED m_running_kernels
      BY <1>2, Zenon DEF CheckFinishedKernel
    <2>2. uid \in Finished /\ uid \in Uids /\ uid = m_finished_kernel[1]
      BY <1>0, <1>2, TailFacts DEF TypeOK, Finished
    <2>3. Retirable(uid) BY <2>2, Zenon DEF StreamInv, RegisterInv, KernelRegistered
    <2>4. s \in AllStreams /\ m_operations[s] # <<>> /\ Head(m_operations[s]).uid = uid
      BY <1>0, <2>2, <2>3, Zenon DEF Retirable, Empty, TypeOK
    <2> HIDE DEF s
    <2>5. /\ ~m_pending'[s]
          /\ \A t \in AllStreams \ {s} : m_operations'[t] = m_operations[t] /\ m_pending'[t] = m_pending[t]
      BY <2>1, <2>4, PopStep, Zenon
    <2>6. \A k \in Finished \ {uid} : k \in Finished'
      <3> SUFFICES ASSUME NEW i \in 1..Len(m_finished_kernel), m_finished_kernel[i] # uid
                   PROVE  m_finished_kernel[i] \in Finished'
        BY Zenon DEF Finished
      <3>1. /\ Len(Tail(m_finished_kernel)) = Len(m_finished_kernel) - 1
            /\ Len(m_finished_kernel) \in Nat
            /\ \A j \in 1..Len(Tail(m_finished_kernel)) :
                 Tail(m_finished_kernel)[j] = m_finished_kernel[j + 1]
        BY <1>0, <1>2, TailFacts, Zenon DEF TypeOK
      <3>2. i # 1 BY <2>2, Zenon
      <3>3. i - 1 \in 1..Len(Tail(m_finished_kernel)) /\ (i - 1) + 1 = i BY <3>1, <3>2
      <3>4. Tail(m_finished_kernel)[i - 1] = m_finished_kernel[i] BY <3>1, <3>3, Zenon
      <3>5. QED BY <2>1, <3>3, <3>4, Zenon DEF Finished
    <2>7. ASSUME NEW t \in AllStreams, m_pending'[t]
          PROVE  /\ m_operations'[t] # <<>>
                 /\ Head(m_operations'[t]).uid \in m_running_kernels' \cup Finished'
      <3>1. t # s /\ m_pending[t] /\ m_operations'[t] = m_operations[t] BY <2>5, <2>7, Zenon
      <3>2. m_operations[t] # <<>> /\ Head(m_operations[t]).uid \in m_running_kernels \cup Finished
        BY <3>1, Zenon DEF PendingStarted, Empty
      <3>3. /\ 1 \in 1..Len(m_operations[t]) /\ Head(m_operations[t]) = m_operations[t][1]
            /\ 1 \in 1..Len(m_operations[s]) /\ Head(m_operations[s]) = m_operations[s][1]
        BY <1>0, <2>4, <3>2, TailFacts DEF TypeOK
      <3>4. Head(m_operations[t]).uid # uid
        BY <2>4, <3>1, <3>3 DEF StreamInv, UniqueInv, QueueUnique
      <3>5. QED BY <2>1, <2>6, <3>1, <3>2, <3>4, Zenon
    <2>8. QED BY <2>7, Zenon DEF PendingStarted, Empty
  <1>3. QED BY <1>1, <1>2, Zenon

\* With a free slot, front() and do_operation leave everything alone, complete
\* one operation, or start one kernel.
LEMMA FrontStarts ==
  ASSUME FrontAndDoOperation,
         \A s \in AllStreams :
           Chosen(concurrent_streams_empty \/ m_service_stream_zero, s) => can_start_kernel
  PROVE  LET z == concurrent_streams_empty \/ m_service_stream_zero IN
         \/ TakeNothing
         \/ \E s \in AllStreams : Chosen(z, s) /\ TakeAndComplete(s)
         \/ \E s \in AllStreams :
              /\ Chosen(z, s)
              /\ TakeKernel(s, Head(m_operations[s]).uid)
              /\ m_running_kernels' = m_running_kernels \cup {Head(m_operations[s]).uid}
  <1> DEFINE z == concurrent_streams_empty \/ m_service_stream_zero
  <1>1. \/ TakeNothing
        \/ \E s \in AllStreams :
             /\ Chosen(z, s)
             /\ IF Head(m_operations[s]).type = "copy" THEN DoCopy(s)
                                                       ELSE DoKernel(s, Head(m_operations[s]))
    BY Zenon DEF FrontAndDoOperation, TakeNothing
  <1>2. ASSUME NEW s \in AllStreams, DoCopy(s)
        PROVE  TakeAndComplete(s)
    BY <1>2, Zenon DEF DoCopy, TakeAndComplete
  <1>3. ASSUME NEW s \in AllStreams, can_start_kernel, DoKernel(s, Head(m_operations[s]))
        PROVE  \/ TakeAndComplete(s)
               \/ /\ TakeKernel(s, Head(m_operations[s]).uid)
                  /\ m_running_kernels' = m_running_kernels \cup {Head(m_operations[s]).uid}
    BY <1>3, Zenon DEF DoKernel, TakeAndComplete, TakeKernel
  <1>4. \A s \in AllStreams : Chosen(z, s) => can_start_kernel BY Zenon
  <1> HIDE DEF z
  <1>5. QED BY <1>1, <1>2, <1>3, <1>4, Zenon DEF z

\* front() and do_operation() mark a stream as pending only with a kernel that
\* starts.
LEMMA FrontStarted ==
  ASSUME SlotPerStream, StreamInv, PendingStarted, FrontAndDoOperation
  PROVE  PendingStarted'
  <1>0. TypeOK BY Zenon DEF StreamInv
  <1> DEFINE z == concurrent_streams_empty \/ m_service_stream_zero
  <1>1. z \in BOOLEAN /\ UNCHANGED m_finished_kernel
    BY <1>0, Zenon DEF TypeOK, concurrent_streams_empty, FrontAndDoOperation
  <1>2. ASSUME TakeNothing PROVE PendingStarted'
    BY <1>1, <1>2, StartedFrame, Zenon DEF TakeNothing
  <1>3. ASSUME NEW s \in AllStreams, Chosen(z, s), TakeAndComplete(s)
        PROVE  PendingStarted'
    <2>1. m_operations[s] # <<>> BY <1>1, <1>3, ChosenFacts, Zenon
    <2>2. record_next_done(s) /\ UNCHANGED m_running_kernels BY <1>3, Zenon DEF TakeAndComplete
    <2>3. /\ ~m_pending'[s]
          /\ \A t \in AllStreams \ {s} : m_operations'[t] = m_operations[t] /\ m_pending'[t] = m_pending[t]
      BY <2>1, <2>2, PopStep, Zenon
    <2>4. QED BY <1>1, <2>2, <2>3 DEF PendingStarted, Empty, Finished
  <1>4. ASSUME NEW s \in AllStreams, Chosen(z, s), TakeKernel(s, Head(m_operations[s]).uid),
               m_running_kernels' = m_running_kernels \cup {Head(m_operations[s]).uid}
        PROVE  PendingStarted'
    <2>1. m_operations[s] # <<>> BY <1>1, <1>4, ChosenFacts, Zenon
    <2>2. UNCHANGED m_operations /\ m_pending' = [m_pending EXCEPT ![s] = TRUE]
      BY <1>4, Zenon DEF TakeKernel
    <2>3. \A t \in AllStreams \ {s} : m_pending'[t] = m_pending[t]
      BY <1>0, <2>2, Zenon DEF TypeOK
    <2>4. QED BY <1>1, <1>4, <2>1, <2>2, <2>3, Zenon DEF PendingStarted, Empty, Finished
  <1>5. \A s \in AllStreams : Chosen(z, s) => can_start_kernel BY SlotFree, Zenon
  <1> HIDE DEF z
  <1>6. QED BY <1>2, <1>3, <1>4, <1>5, FrontStarts, Zenon DEF z

\* A kernel that finishes stays among the started ones until it is retired.
LEMMA KernelDoneStarted ==
  ASSUME StreamInv, PendingStarted, NEW k \in Uids, SetKernelDone(k)
  PROVE  PendingStarted'
  <1>1. /\ m_finished_kernel' = Append(m_finished_kernel, k)
        /\ m_running_kernels' = m_running_kernels \ {k}
        /\ UNCHANGED <<m_operations, m_pending>>
    BY Zenon DEF SetKernelDone, mgrVars
  <1>2. /\ Len(Append(m_finished_kernel, k)) = Len(m_finished_kernel) + 1
        /\ Len(m_finished_kernel) \in Nat
        /\ \A i \in 1..Len(m_finished_kernel) :
             Append(m_finished_kernel, k)[i] = m_finished_kernel[i]
        /\ Append(m_finished_kernel, k)[Len(m_finished_kernel) + 1] = k
    BY AppendFacts DEF StreamInv, TypeOK
  <1>3. Finished' = Finished \cup {k} BY <1>1, <1>2 DEF Finished
  <1>4. QED BY <1>1, <1>3, Zenon DEF PendingStarted, Empty

\* Every step preserves PendingStarted when every stream has a slot.
LEMMA StartedStep ==
  ASSUME SlotPerStream, StreamInv, PendingStarted, [Next]_vars
  PROVE  PendingStarted'
  <1>1. ASSUME NEW h \in Hosts, HostCall(h) \/ HostReturn(h) PROVE PendingStarted'
    <2>1. CASE Push(h) BY <2>1, PushStarted, Zenon
    <2>2. CASE ~Push(h)
      <3>1. UNCHANGED <<m_operations, m_pending, gpuVars>>
        BY <1>1, <2>2, Zenon DEF HostCall, HostReturn, AddStream, DestroyStream,
           StreamSynchronizeBegin, PushBegin, SynchronizeBegin, ExitBegin, DestroyStreamDone,
           PushUnblock, Walk, WaitZero, SynchronizeLock, SynchronizeTest,
           StreamSynchronizeDone, ExitDone, mgrVars
      <3>2. QED BY <3>1, StartedFrame, Zenon DEF gpuVars
    <2>3. QED BY <2>1, <2>2, Zenon
  <1>2. CASE CheckFinishedKernel BY <1>2, CheckFinishedStarted, Zenon
  <1>3. CASE FrontAndDoOperation BY <1>3, FrontStarted, Zenon
  <1>4. ASSUME NEW k \in Uids, SetKernelDone(k) PROVE PendingStarted'
    BY <1>4, KernelDoneStarted, Zenon
  <1>5. CASE \/ SimDetect \/ SimStart \/ CycleEnd \/ SimCheck \/ SimStop \/ SimAgain
             \/ GpuDrained \/ Rest \/ UNCHANGED vars
    BY <1>5, StartedFrame, Zenon DEF SimDetect, SimStart, CycleEnd, SimCheck, SimStop, SimAgain,
       GpuDrained, Rest, vars, mgrVars, gpuVars
  <1>6. QED BY <1>1, <1>2, <1>3, <1>4, <1>5, Zenon DEF Next, SimStep, GpuStep

\* When the GPU has at least as many kernel slots as the application has
\* streams, "m_pending: front operation has started but not yet completed" is
\* true of every stream: do_operation never finds the GPU full.
THEOREM PendingIsStarted == SlotPerStream => (Spec => []PendingStarted)
  <1> SUFFICES ASSUME SlotPerStream PROVE Spec => []PendingStarted BY Zenon
  <1>1. Init => PendingStarted BY Zenon DEF Init, PendingStarted
  <1>2. StreamInv /\ PendingStarted /\ [Next]_vars => PendingStarted' BY StartedStep, Zenon
  <1>3. QED BY <1>1, <1>2, StreamInvariant, PTL DEF Spec

=============================================================================
