----------------------------- MODULE CacheLease3 -----------------------------
(***************************************************************************)
(* "Cache Leasing v3", the TC-Weak protocol of Ruby                        *)
(* (gems-2.1.1/protocols/cachelease3-L1cache.sm and -L2cache.sm).  Unlike  *)
(* cachelease2, the L2 performs a write at once, while other L1s may still *)
(* read the old data; it answers with the time at which the last of those  *)
(* leases runs out, the global write completion time (GWCT).  The L1 keeps *)
(* the GWCT of each warp, and a fence of the warp waits until that time.   *)
(*                                                                         *)
(* One action is one family of transitions of one controller, including    *)
(* the setState that ends it.  A z_stall is the absence of a step.  The    *)
(* contents of a block are its version, the number of writes it contains:  *)
(* a copy has version v if it contains the first v writes of the block.    *)
(***************************************************************************)
EXTENDS Naturals, Sequences, FiniteSets

CONSTANTS
  L1s,            \* the L1 caches
  Threads,        \* ThreadIDs (warps) of each L1's core
  Addrs,          \* block addresses that map to the modelled L2 bank and sets
  NoL1,           \* no requestor recorded
  Leases,         \* lifetimes getDelta_Access may ask for
  L1Ways,         \* ways of the modelled L1 set
  L2Ways,         \* ways of the modelled L2 set
  NUMBER_OF_TBES, \* capacity of every TBE table
  Requests,       \* kinds of request the cores make
  MaxRequests,    \* bound: requests of all cores
  AtomicRequests, \* bound: the first requests, which may be atomics
  IdleTicks       \* bound: ticks after the L2's leases have all run out

ASSUME LeaseAssumption == Leases \subseteq Nat /\ Leases # {}
ASSUME SizeAssumption ==
  /\ L1Ways \in Nat \ {0}
  /\ L2Ways \in Nat \ {0}
  /\ NUMBER_OF_TBES \in Nat \ {0}
  /\ MaxRequests \in Nat
  /\ AtomicRequests \in Nat
  /\ IdleTicks \in Nat
ASSUME KindAssumption ==
  /\ NoL1 \notin L1s
  /\ Requests \subseteq {"LD", "ST", "ATOMIC", "MEM_FENCE"}

VARIABLES
  now,                  \* the event queue's m_globalTime
  issued,               \* requests the cores have made, capped by MaxRequests
  mandatoryQueue,       \* the request at the head of each L1's mandatory queue
  warps,                \* shd_warp_t: stores and atomics in flight, m_membar
  L1cache,              \* L1DcacheMemory of each L1
  L1_TBEs,              \* L1_TBEs of each L1
  globalWrites,         \* GlobalWriteVector of each L1
  FenceTriggerQueue,    \* fence completions each L1 has sent itself
  requestFromL1Cache,   \* virtual network 0, ordered: from each L1 to the L2
  L1RequestToL2Cache,   \* the L2's request port: requests in arrival order
  responseToL1Cache,    \* virtual network 1, ordered: from the L2 to each L1
  L2cache,              \* L2cacheMemory
  L2_TBEs,              \* L2_TBEs
  L2ExpireTriggerQueue, \* expiry messages the L2 has sent itself
  GpusimDramBuffer,     \* blocks whose memory fetch is outstanding
  memory,               \* the version of each block that DRAM has
  version,              \* history: writes of each block performed so far
  wrote,                \* history: the last version each warp wrote, per block
  recorded,             \* history: the write whose time globalWrites has, per warp
  fenced                \* history: that write when the warp's fence was taken

coreVars == <<issued, mandatoryQueue, warps>>
timeVars == <<globalWrites, recorded>>
fenceVars == <<FenceTriggerQueue, fenced>>
l1Vars == <<L1cache, L1_TBEs, timeVars, fenceVars>>
l2Vars == <<L2cache, L2_TBEs, L2ExpireTriggerQueue, GpusimDramBuffer, memory, version, wrote>>
netVars == <<requestFromL1Cache, L1RequestToL2Cache, responseToL1Cache>>
vars == <<now, coreVars, l1Vars, l2Vars, netVars>>

-----------------------------------------------------------------------------
(* Records.  An absent tag is an entry in state NotPresent, an absent TBE   *)
(* one in state NoTBE; numbers start at the SLICC defaults, zero.           *)

L1States == {"I", "S", "I_S", "I_I", "SM"}
L2States == {"NP", "E", "S", "SS", "IS", "IM", "IMA", "MI"}

NoRequest == [type |-> "none"]
CoreRequests ==
  [type : Requests \ {"MEM_FENCE"}, addr : Addrs, thread : Threads]
  \cup [type : {"MEM_FENCE"}, thread : Threads] \cup {NoRequest}

\* time is the lifetime asked for by a GETS and the L1's own by a DATA_UPGRADE.
RequestMsgs == [type : {"GETS", "DATA", "DATA_UPGRADE", "DATA_ATOMIC"},
                addr : Addrs, src : L1s, thread : Threads, time : Nat]
ResponseMsgs == [type : {"DATA", "DATA_GLOBAL", "DATA_ATOMIC", "ACK", "ACK_GLOBAL"},
                 addr : Addrs, thread : Threads \cup {0}, live : Nat, GWCT : Nat, ver : Nat]

L1Entries == [CacheState : L1States \cup {"NotPresent"}, liveUntilTime : Nat, ver : Nat]
L1TBEs == [TBEState : L1States \cup {"NoTBE"}, ThreadID : Threads \cup {0},
           liveUntilTime : Nat, pendingReads : Nat, pendingWrites : Nat]
L2Entries == [CacheState : L2States \cup {"NotPresent"}, liveUntilTime : Nat,
              Dirty : BOOLEAN, ver : Nat]
L2TBEs == [TBEState : L2States \cup {"NoTBE"}, L1_GetS_IDs : SUBSET L1s,
           L1_WBAck_ID : L1s \cup {NoL1}, thread : Threads \cup {0},
           deltaRequested : Nat, liveUntilTime : Nat]

NoL1Entry == [CacheState |-> "NotPresent", liveUntilTime |-> 0, ver |-> 0]
NoL1TBE == [TBEState |-> "NoTBE", ThreadID |-> 0, liveUntilTime |-> 0,
            pendingReads |-> 0, pendingWrites |-> 0]
NoL2Entry == [CacheState |-> "NotPresent", liveUntilTime |-> 0, Dirty |-> FALSE, ver |-> 0]
NoL2TBE == [TBEState |-> "NoTBE", L1_GetS_IDs |-> {}, L1_WBAck_ID |-> NoL1, thread |-> 0,
            deltaRequested |-> 0, liveUntilTime |-> 0]

NoStores == [stores |-> 0, atomics |-> 0, membar |-> FALSE]

getTimeMax(s, t) == IF s > t THEN s ELSE t

-----------------------------------------------------------------------------
(* The L1's view of a block. *)

isL1CacheTagPresent(c, a) == L1cache[c][a].CacheState # "NotPresent"
L1_TBEs_isPresent(c, a) == L1_TBEs[c][a].TBEState # "NoTBE"

\* getState and isLive: a block whose lease has run out is I whatever its
\* CacheState, and an upgrade of a block that has expired is a plain write.
L1getState(c, a) ==
  IF L1_TBEs_isPresent(c, a)
  THEN IF L1_TBEs[c][a].TBEState = "SM" /\ L1_TBEs[c][a].liveUntilTime < now
       THEN "I_I"
       ELSE L1_TBEs[c][a].TBEState
  ELSE IF isL1CacheTagPresent(c, a) /\ L1cache[c][a].liveUntilTime >= now
       THEN L1cache[c][a].CacheState
       ELSE "I"

L1Tags(c) == {a \in Addrs : isL1CacheTagPresent(c, a)}
L1TBEFree(c) == Cardinality({a \in Addrs : L1_TBEs_isPresent(c, a)}) < NUMBER_OF_TBES

\* isTagPresent or cacheAvail
L1HasRoom(c, a) == isL1CacheTagPresent(c, a) \/ Cardinality(L1Tags(c)) < L1Ways

\* doTransition's setState(a, s), after the actions have produced entry e, TBE t.
L1setState(c, a, s, e, t) ==
  /\ L1cache' = [L1cache EXCEPT ![c][a] =
       IF e.CacheState = "NotPresent" THEN e ELSE [e EXCEPT !.CacheState = s]]
  /\ L1_TBEs' = [L1_TBEs EXCEPT ![c][a] =
       IF t.TBEState = "NoTBE" THEN t ELSE [t EXCEPT !.TBEState = s]]

i_allocateTBE(thread, live) ==
  [NoL1TBE EXCEPT !.TBEState = "I", !.ThreadID = thread, !.liveUntilTime = live]

SendRequest(c, type, a, thread, time) ==
  requestFromL1Cache' = [requestFromL1Cache EXCEPT ![c] =
    Append(@, [type |-> type, addr |-> a, src |-> c, thread |-> thread, time |-> time])]

k_popMandatoryQueue(c) ==
  /\ mandatoryQueue' = [mandatoryQueue EXCEPT ![c] = NoRequest]
  /\ UNCHANGED <<issued, warps>>

-----------------------------------------------------------------------------
(* The cores.  A warp that waits for a fence or an atomic issues nothing    *)
(* (shd_warp_t::waiting), and a core keeps at most one load of a block      *)
(* outstanding: the MSHRs of ruby_wrapper merge the others.                 *)

waiting(c, t) == warps[c][t].membar \/ warps[c][t].atomics > 0

Enqueue(c, request, warp) ==
  /\ issued < MaxRequests
  /\ mandatoryQueue[c] = NoRequest
  /\ ~waiting(c, request.thread)
  /\ mandatoryQueue' = [mandatoryQueue EXCEPT ![c] = request]
  /\ warps' = [warps EXCEPT ![c][request.thread] = warp]
  /\ issued' = issued + 1
  /\ UNCHANGED <<now, l1Vars, l2Vars, netVars>>

Issue(c, t, type, a) ==
  /\ type = "LD" => L1_TBEs[c][a].pendingReads = 0
  /\ type = "ATOMIC" => issued < AtomicRequests
  /\ Enqueue(c, [type |-> type, addr |-> a, thread |-> t],
             [warps[c][t] EXCEPT !.stores = @ + (IF type = "ST" THEN 1 ELSE 0),
                                 !.atomics = @ + (IF type = "ATOMIC" THEN 1 ELSE 0)])

\* A fence is issued once the warp has no pending register write, that is, no
\* load in flight; its stores are not waited for.
IssueFence(c, t) ==
  /\ "MEM_FENCE" \in Requests
  /\ \A a \in Addrs : L1_TBEs[c][a].pendingReads = 0
  /\ Enqueue(c, [type |-> "MEM_FENCE", thread |-> t], [warps[c][t] EXCEPT !.membar = TRUE])

-----------------------------------------------------------------------------
(* The L1's mandatory queue: Load, L1_WThru, L1_Atomic, L1_Replacement and  *)
(* Fence.                                                                   *)

L1LeavesAlone ==
  UNCHANGED <<now, l2Vars, timeVars, L1RequestToL2Cache, responseToL1Cache>>

pr_incPendingRead(t) == [t EXCEPT !.pendingReads = @ + 1]

\* Mutant: a load during an upgrade goes to the L2, as in cachelease2.
LoadHits_NotSM(st) == st = "S"

\* Loads hit in S, and in SM too: the writer sees its own write early.
LoadHits(st) == st \in {"S", "SM"}

L1_Load(c) ==
  LET a == mandatoryQueue[c].addr
      st == L1getState(c, a)
      e == L1cache[c][a]
      thread == mandatoryQueue[c].thread
  IN /\ mandatoryQueue[c].type = "LD"
     /\ L1HasRoom(c, a)
     /\ \/ /\ LoadHits(st)
           /\ UNCHANGED <<L1cache, L1_TBEs, requestFromL1Cache>>
        \/ /\ st = "I"
           /\ L1TBEFree(c)
           /\ L1setState(c, a, "I_S", [e EXCEPT !.CacheState = "I"],
                         pr_incPendingRead(i_allocateTBE(thread, 0)))
           /\ \E delta \in Leases : SendRequest(c, "GETS", a, thread, delta)
        \/ /\ st \in {"I_I", "SM"} /\ ~LoadHits(st)
           /\ L1setState(c, a, st, e, pr_incPendingRead(L1_TBEs[c][a]))
           /\ \E delta \in Leases : SendRequest(c, "GETS", a, thread, delta)
     /\ k_popMandatoryQueue(c)
     /\ L1LeavesAlone
     /\ UNCHANGED fenceVars

\* Allocate the TBE if there is none, with the lifetime of a live copy.
TBEForWrite(c, a, thread) ==
  CASE L1getState(c, a) = "I" -> i_allocateTBE(thread, 0)
    [] L1getState(c, a) = "S" -> i_allocateTBE(thread, L1cache[c][a].liveUntilTime)
    [] OTHER -> L1_TBEs[c][a]

\* pw_incPendingWrite, the message to the L2, and the pop.
L1WriteThrough(c, a, s, type) ==
  LET t == TBEForWrite(c, a, mandatoryQueue[c].thread)
  IN /\ L1_TBEs_isPresent(c, a) \/ L1TBEFree(c)
     /\ L1setState(c, a, s, L1cache[c][a], [t EXCEPT !.pendingWrites = @ + 1])
     /\ SendRequest(c, type, a, mandatoryQueue[c].thread,
                    IF type = "DATA_UPGRADE" THEN t.liveUntilTime ELSE 0)
     /\ k_popMandatoryQueue(c)
     /\ L1LeavesAlone
     /\ UNCHANGED fenceVars

\* A write never allocates a block.  On a live copy it is an upgrade.
L1_WThru(c) ==
  LET a == mandatoryQueue[c].addr
  IN /\ mandatoryQueue[c].type = "ST"
     /\ IF L1getState(c, a) \in {"S", "SM"}
        THEN L1WriteThrough(c, a, "SM", "DATA_UPGRADE")
        ELSE L1WriteThrough(c, a, "I_I", "DATA")

L1_Atomic(c) ==
  LET a == mandatoryQueue[c].addr
  IN /\ mandatoryQueue[c].type = "ATOMIC"
     /\ L1HasRoom(c, a)
     /\ L1WriteThrough(c, a, "I_I", "DATA_ATOMIC")

\* Mutant: an expired block cannot be replaced.
L1Victim_LiveOnly(st) == st = "S"

L1Victim(st) == st \in {"I", "I_I", "S"}

\* No way is free: ff_deallocateL1CacheBlock on a victim in I, I_I or S; I_S and
\* SM stall the queue.  The replacement policy may pick any way.
L1_Replacement(c) ==
  LET a == mandatoryQueue[c].addr
  IN /\ mandatoryQueue[c].type \in {"LD", "ATOMIC"}
     /\ ~L1HasRoom(c, a)
     /\ \E v \in L1Tags(c) :
          /\ L1Victim(L1getState(c, v))
          /\ L1setState(c, v, L1getState(c, v), NoL1Entry, L1_TBEs[c][v])
     /\ UNCHANGED <<coreVars, fenceVars, requestFromL1Cache>>
     /\ L1LeavesAlone

\* Mutant: a fence does not wait for the warp's writes to complete.
FenceCompleteTime_Next(c, t) == now + 1

FenceCompleteTime(c, t) == getTimeMax(globalWrites[c][t], now + 1)

\* it_insertFenceTriggerQueue
L1_Fence(c) ==
  LET t == mandatoryQueue[c].thread
  IN /\ mandatoryQueue[c].type = "MEM_FENCE"
     /\ FenceTriggerQueue' = [FenceTriggerQueue EXCEPT ![c] = @ \cup
          {[thread |-> t, time |-> FenceCompleteTime(c, t)]}]
     /\ fenced' = [fenced EXCEPT ![c][t] = recorded[c][t]]
     /\ k_popMandatoryQueue(c)
     /\ L1LeavesAlone
     /\ UNCHANGED <<L1cache, L1_TBEs, requestFromL1Cache>>

\* hf_fence_hit: memfenceCallback, the warp may go on.
L1_Fence_Ack(c, q) ==
  /\ q.time <= now
  /\ FenceTriggerQueue' = [FenceTriggerQueue EXCEPT ![c] = @ \ {q}]
  /\ fenced' = [fenced EXCEPT ![c][q.thread] = {}]
  /\ warps' = [warps EXCEPT ![c][q.thread].membar = FALSE]
  /\ UNCHANGED <<issued, mandatoryQueue, L1cache, L1_TBEs, requestFromL1Cache>>
  /\ L1LeavesAlone

-----------------------------------------------------------------------------
(* The L1's response port.  Every event has a _Done form for the response   *)
(* that leaves nothing pending.                                             *)

o_popIncomingResponseQueue(c) ==
  /\ responseToL1Cache' = [responseToL1Cache EXCEPT ![c] = Tail(@)]
  /\ UNCHANGED <<now, issued, mandatoryQueue, l2Vars, fenceVars,
                 requestFromL1Cache, L1RequestToL2Cache>>

\* dd_writeDataToL1Cache and t_updateL1Lifetime
Filled(e, m) == [e EXCEPT !.liveUntilTime = m.live, !.ver = m.ver]

\* No Data event has a transition in SM: an L1 in SM has no load pending.
L1_Data(c) ==
  LET m == Head(responseToL1Cache[c])
      a == m.addr
      st == L1getState(c, a)
      e == L1cache[c][a]
      t == L1_TBEs[c][a]
  IN /\ responseToL1Cache[c] # <<>>
     /\ m.type = "DATA"
     /\ \/ /\ t.pendingWrites > 0
           /\ st = "I_I"
           /\ L1setState(c, a, st, e, [t EXCEPT !.pendingReads = @ - 1])
        \/ /\ t.pendingWrites = 0
           /\ st = "I_S"
           /\ L1setState(c, a, "S", Filled(e, m), NoL1TBE)
        \/ /\ t.pendingWrites = 0
           /\ st = "I_I"
           /\ L1setState(c, a, "I", e, NoL1TBE)
     /\ o_popIncomingResponseQueue(c)
     /\ UNCHANGED <<timeVars, warps>>

\* The copy after the response to a write.  An acknowledged upgrade keeps the
\* data it has, which is complete only if no other write came between.
Upgraded(e, m) ==
  [e EXCEPT !.liveUntilTime = m.live,
            !.ver = IF m.type = "DATA_GLOBAL" \/ m.ver = @ + 1 THEN m.ver ELSE @]

\* gt_updateGlobalCompletiontime: GlobalWriteVector::set, at the ThreadID of the TBE.
gt_updateGlobalCompletiontime(c, m) ==
  IF m.type = "ACK" THEN UNCHANGED timeVars
  ELSE LET t == L1_TBEs[c][m.addr].ThreadID
       IN /\ globalWrites' = [globalWrites EXCEPT ![c][t] = m.GWCT]
          /\ recorded' = [recorded EXCEPT ![c][t] = {[addr |-> m.addr, ver |-> m.ver]}]

\* hh_store_hit: the callback names the warp that wrote.
hh_store_hit(c, m) ==
  warps' = [warps EXCEPT ![c][m.thread] =
    IF m.type = "DATA_ATOMIC" THEN [@ EXCEPT !.atomics = @ - 1] ELSE [@ EXCEPT !.stores = @ - 1]]

\* Mutant: the read that is still pending is overlooked.
LastWrite_ReadsIgnored(t) == t.pendingWrites = 1

\* Nothing else is pending once this write is acknowledged.
LastWrite(t) == t.pendingReads = 0 /\ t.pendingWrites = 1

\* Ack, AckG, DataG and DataAtomic.
L1_Written(c) ==
  LET m == Head(responseToL1Cache[c])
      a == m.addr
      st == L1getState(c, a)
      t == L1_TBEs[c][a]
      e == IF st = "SM" THEN Upgraded(L1cache[c][a], m) ELSE L1cache[c][a]
  IN /\ responseToL1Cache[c] # <<>>
     /\ \/ m.type = "DATA_ATOMIC" /\ st = "I_I"
        \/ m.type \in {"ACK", "ACK_GLOBAL", "DATA_GLOBAL"} /\ st \in {"I_I", "SM"}
     /\ IF LastWrite(t)
        THEN L1setState(c, a, IF st = "SM" THEN "S" ELSE "I", e, NoL1TBE)
        ELSE L1setState(c, a, st, e, [t EXCEPT !.pendingWrites = @ - 1])
     /\ gt_updateGlobalCompletiontime(c, m)
     /\ hh_store_hit(c, m)
     /\ o_popIncomingResponseQueue(c)

\* The network delivers each L1's requests in order, those of different L1s in
\* any order.
Deliver(c) ==
  /\ requestFromL1Cache[c] # <<>>
  /\ L1RequestToL2Cache' = Append(L1RequestToL2Cache, Head(requestFromL1Cache[c]))
  /\ requestFromL1Cache' = [requestFromL1Cache EXCEPT ![c] = Tail(@)]
  /\ UNCHANGED <<now, coreVars, l1Vars, l2Vars, responseToL1Cache>>

-----------------------------------------------------------------------------
(* The L2's view of a block. *)

isL2CacheTagPresent(a) == L2cache[a].CacheState # "NotPresent"
L2_TBEs_isPresent(a) == L2_TBEs[a].TBEState # "NoTBE"
L2isLive(a) == L2cache[a].liveUntilTime >= now

\* getState: S and SS whose lease has run out are E.
L2getState(a) ==
  IF L2_TBEs_isPresent(a) THEN L2_TBEs[a].TBEState
  ELSE IF ~isL2CacheTagPresent(a) THEN "NP"
  ELSE IF L2cache[a].CacheState \in {"S", "SS"} /\ ~L2isLive(a) THEN "E"
  ELSE L2cache[a].CacheState

L2Tags == {a \in Addrs : isL2CacheTagPresent(a)}
L2TBEFree == Cardinality({a \in Addrs : L2_TBEs_isPresent(a)}) < NUMBER_OF_TBES
L2HasRoom(a) == isL2CacheTagPresent(a) \/ Cardinality(L2Tags) < L2Ways

L2setState(a, s, e, t) ==
  /\ L2cache' = [L2cache EXCEPT ![a] =
       IF e.CacheState = "NotPresent" THEN e ELSE [e EXCEPT !.CacheState = s]]
  /\ L2_TBEs' = [L2_TBEs EXCEPT ![a] =
       IF t.TBEState = "NoTBE" THEN t ELSE [t EXCEPT !.TBEState = s]]

\* Mutant: every upgrade of a live block counts as one of the latest data.
TimestampsMatch_LiveOnly(m) == isL2CacheTagPresent(m.addr) /\ L2isLive(m.addr)

\* The L1's lease is the L2's latest, so no write was performed after it.
TimestampsMatch(m) ==
  /\ isL2CacheTagPresent(m.addr)
  /\ L2isLive(m.addr)
  /\ L2cache[m.addr].liveUntilTime = m.time

\* L1Cache_request_type_to_event
L2Event(m) ==
  CASE m.type = "GETS" -> "L1_GETS"
    [] m.type = "DATA" -> "L1_Write"
    [] m.type = "DATA_ATOMIC" -> "L2_Atomic"
    [] m.type = "DATA_UPGRADE" /\ TimestampsMatch(m) -> "L1_Upgrade_T"
    [] OTHER -> "L1_Upgrade_NT"

globalTimeAfterRead(requested, live) == getTimeMax(now + requested, live)

\* Writes request no time.
globalTimeAfterWrite(live) == getTimeMax(now, live + 1)

Respond(cs, m) ==
  responseToL1Cache' = [c \in L1s |->
    IF c \in cs THEN Append(responseToL1Cache[c], m) ELSE responseToL1Cache[c]]

DataMsg(a, e) == [type |-> "DATA", addr |-> a, thread |-> 0, live |-> e.liveUntilTime,
                  GWCT |-> 0, ver |-> e.ver]

\* The request the port peeks at, and the event it triggers when it has a way.
in_msg == Head(L1RequestToL2Cache)

L2Triggers(event) ==
  /\ L1RequestToL2Cache # <<>>
  /\ L2HasRoom(in_msg.addr)
  /\ L2Event(in_msg) = event

jj_popL1RequestQueue ==
  /\ L1RequestToL2Cache' = Tail(L1RequestToL2Cache)
  /\ UNCHANGED <<now, coreVars, l1Vars, requestFromL1Cache, L2ExpireTriggerQueue, memory>>

-----------------------------------------------------------------------------
(* The L2's request port. *)

\* Mutant: the evicted block's lease is forgotten when it is fetched again.
SetTBE_NoLease(a) == [NoL2TBE EXCEPT !.TBEState = "NP", !.thread = in_msg.thread]

\* i_allocateTBE in NP and is_setTBE in MI, which keeps the evicted block's lease;
\* il_allocateTBE and ils_setTBE for stores differ only in the time requested.
SetTBE(a) ==
  [NoL2TBE EXCEPT !.TBEState = "NP", !.thread = in_msg.thread,
                  !.liveUntilTime = IF L2getState(a) = "MI" THEN L2_TBEs[a].liveUntilTime ELSE 0]

\* A TBE is free, or the one of the evicted block is taken over.
MayFetch(a) == \/ L2getState(a) = "NP" /\ L2TBEFree
               \/ L2getState(a) = "MI"

L2_GETS ==
  LET a == in_msg.addr
      st == L2getState(a)
      e == [L2cache[a] EXCEPT !.liveUntilTime = globalTimeAfterRead(in_msg.time, @)]
  IN /\ L2Triggers("L1_GETS")
     /\ \/ /\ MayFetch(a)
           /\ L2setState(a, "IS", [NoL2Entry EXCEPT !.CacheState = "NP"],
                [SetTBE(a) EXCEPT !.L1_GetS_IDs = {in_msg.src}, !.deltaRequested = in_msg.time])
           /\ GpusimDramBuffer' = GpusimDramBuffer \cup {a}
           /\ UNCHANGED responseToL1Cache
        \/ /\ st = "IS"
           /\ L2_TBEs' = [L2_TBEs EXCEPT ![a].L1_GetS_IDs = @ \cup {in_msg.src}]
           /\ UNCHANGED <<L2cache, GpusimDramBuffer, responseToL1Cache>>
        \/ /\ st \in {"E", "S", "SS"}
           /\ L2setState(a, IF st = "E" THEN "S" ELSE "SS", e, L2_TBEs[a])
           /\ Respond({in_msg.src}, DataMsg(a, e))
           /\ UNCHANGED GpusimDramBuffer
     /\ jj_popL1RequestQueue
     /\ UNCHANGED <<version, wrote>>

\* History: the write of c's warp t is performed.
Record(c, t, a) ==
  /\ version' = [version EXCEPT ![a] = @ + 1]
  /\ wrote' = [wrote EXCEPT ![c][t][a] = version[a] + 1]

\* Perform the write at once, whatever leases are out: the response carries the
\* block's time before the write as its completion time and the time after it.
PerformWrite(type) ==
  LET a == in_msg.addr
      before == L2cache[a].liveUntilTime
      after == globalTimeAfterWrite(before)
  IN /\ L2setState(a, "S", [L2cache[a] EXCEPT !.liveUntilTime = after, !.Dirty = TRUE,
                                              !.ver = @ + 1], L2_TBEs[a])
     /\ Respond({in_msg.src},
                [type |-> type, addr |-> a, thread |-> in_msg.thread, GWCT |-> before,
                 live |-> IF type = "DATA_ATOMIC" THEN before ELSE after,
                 ver |-> L2cache[a].ver + 1])
     /\ Record(in_msg.src, in_msg.thread, a)
     /\ UNCHANGED GpusimDramBuffer
     /\ jj_popL1RequestQueue

\* A write to a block that is not present waits in IM or IMA for the fetch.
FetchForStore(s) ==
  /\ MayFetch(in_msg.addr)
  /\ L2setState(in_msg.addr, s, [NoL2Entry EXCEPT !.CacheState = "NP", !.Dirty = TRUE],
                [SetTBE(in_msg.addr) EXCEPT !.L1_WBAck_ID = in_msg.src])
  /\ GpusimDramBuffer' = GpusimDramBuffer \cup {in_msg.addr}
  /\ UNCHANGED <<version, wrote, responseToL1Cache>>
  /\ jj_popL1RequestQueue


\* An expired block has no readers, so its write is complete when it is performed.
WriteAck(st, type) == IF st = "E" THEN "ACK" ELSE type

L2_Write ==
  LET st == L2getState(in_msg.addr)
  IN /\ L2Triggers("L1_Write")
     /\ \/ FetchForStore("IM")
        \/ st \in {"E", "S", "SS"} /\ PerformWrite(WriteAck(st, "ACK_GLOBAL"))

\* Another write came between the lease and the upgrade: the data goes back too.
L2_Upgrade_NT ==
  LET st == L2getState(in_msg.addr)
  IN /\ L2Triggers("L1_Upgrade_NT")
     /\ \/ FetchForStore("IM")
        \/ st \in {"E", "S", "SS"} /\ PerformWrite(WriteAck(st, "DATA_GLOBAL"))

\* The writer's own copy is the latest, in S the only one.
L2_Upgrade_T ==
  LET st == L2getState(in_msg.addr)
  IN /\ L2Triggers("L1_Upgrade_T")
     /\ st \in {"S", "SS"}
     /\ PerformWrite(IF st = "S" THEN "ACK" ELSE "ACK_GLOBAL")

L2_Atomic ==
  /\ L2Triggers("L2_Atomic")
  /\ \/ FetchForStore("IMA")
     \/ L2getState(in_msg.addr) \in {"E", "S", "SS"} /\ PerformWrite("DATA_ATOMIC")

-----------------------------------------------------------------------------
(* Replacement, expiry and memory. *)

\* Mutant: a dirty victim is not written back.
c_exclusiveReplacement_Skipped(v) == UNCHANGED memory

\* A dirty victim is written to DRAM.
c_exclusiveReplacement(v) ==
  memory' = IF L2cache[v].Dirty THEN [memory EXCEPT ![v] = L2cache[v].ver] ELSE memory

\* No way is free for the request at the head.  An expired victim goes to NP; a
\* leased one to MI, which remembers the lease until its expiry message.
L2_Replacement ==
  /\ L1RequestToL2Cache # <<>>
  /\ ~L2HasRoom(in_msg.addr)
  /\ \E v \in L2Tags :
       /\ \/ /\ L2getState(v) = "E"
             /\ L2setState(v, "NP", NoL2Entry, NoL2TBE)
             /\ UNCHANGED L2ExpireTriggerQueue
          \/ /\ L2getState(v) \in {"S", "SS"}
             /\ L2TBEFree
             /\ L2setState(v, "MI", NoL2Entry,
                  [NoL2TBE EXCEPT !.TBEState = "NP", !.liveUntilTime = L2cache[v].liveUntilTime])
             /\ L2ExpireTriggerQueue' = L2ExpireTriggerQueue \cup
                  {[addr |-> v, time |-> L2cache[v].liveUntilTime + 1]}
       /\ c_exclusiveReplacement(v)
  /\ UNCHANGED <<now, coreVars, l1Vars, netVars, GpusimDramBuffer, version, wrote>>

\* A message whose block has left MI, or has a later lease, is dropped.
L2_Expire(q) ==
  /\ q.time <= now
  /\ L2ExpireTriggerQueue' = L2ExpireTriggerQueue \ {q}
  /\ IF L2getState(q.addr) = "MI" /\ L2_TBEs[q.addr].liveUntilTime < q.time
     THEN L2setState(q.addr, "NP", L2cache[q.addr], NoL2TBE)
     ELSE UNCHANGED <<L2cache, L2_TBEs>>
  /\ UNCHANGED <<now, coreVars, l1Vars, netVars, GpusimDramBuffer, memory, version, wrote>>

\* The fetch continues the lease of the block's previous stay in the cache.
L2_Mem_Data(a) ==
  LET t == L2_TBEs[a]
      fetched == [L2cache[a] EXCEPT !.ver = memory[a], !.Dirty = FALSE,
                    !.liveUntilTime = globalTimeAfterRead(t.deltaRequested, t.liveUntilTime)]
      stored == [L2cache[a] EXCEPT !.ver = memory[a] + 1, !.Dirty = TRUE,
                   !.liveUntilTime = globalTimeAfterWrite(t.liveUntilTime)]
  IN /\ a \in GpusimDramBuffer
     /\ GpusimDramBuffer' = GpusimDramBuffer \ {a}
     /\ \/ /\ t.TBEState = "IS"
           /\ L2setState(a, IF Cardinality(t.L1_GetS_IDs) > 1 THEN "SS" ELSE "S",
                         fetched, NoL2TBE)
           /\ Respond(t.L1_GetS_IDs, DataMsg(a, fetched))
           /\ UNCHANGED <<version, wrote>>
        \/ /\ t.TBEState \in {"IM", "IMA"}
           /\ L2setState(a, "S", stored, NoL2TBE)
           /\ Respond({t.L1_WBAck_ID},
                      [type |-> IF t.TBEState = "IM" THEN "ACK_GLOBAL" ELSE "DATA_ATOMIC",
                       addr |-> a, thread |-> t.thread, live |-> stored.liveUntilTime,
                       GWCT |-> stored.liveUntilTime, ver |-> stored.ver])
           /\ Record(t.L1_WBAck_ID, t.thread, a)
     /\ UNCHANGED <<now, coreVars, l1Vars, requestFromL1Cache, L1RequestToL2Cache,
                    L2ExpireTriggerQueue, memory>>

-----------------------------------------------------------------------------
(* Time.  A tick matters while a lease or a fence runs and for a few cycles *)
(* after it.                                                                *)

Tick ==
  /\ \/ \E a \in Addrs : \/ now <= L2cache[a].liveUntilTime + IdleTicks
                         \/ now <= L2_TBEs[a].liveUntilTime + IdleTicks
     \/ \E c \in L1s : \E q \in FenceTriggerQueue[c] : now < q.time
     \/ \E q \in L2ExpireTriggerQueue : now < q.time
  /\ now' = now + 1
  /\ UNCHANGED <<coreVars, l1Vars, l2Vars, netVars>>

Init ==
  /\ now = 1
  /\ issued = 0
  /\ mandatoryQueue = [c \in L1s |-> NoRequest]
  /\ warps = [c \in L1s |-> [t \in Threads |-> NoStores]]
  /\ L1cache = [c \in L1s |-> [a \in Addrs |-> NoL1Entry]]
  /\ L1_TBEs = [c \in L1s |-> [a \in Addrs |-> NoL1TBE]]
  /\ globalWrites = [c \in L1s |-> [t \in Threads |-> 0]]
  /\ FenceTriggerQueue = [c \in L1s |-> {}]
  /\ requestFromL1Cache = [c \in L1s |-> <<>>]
  /\ L1RequestToL2Cache = <<>>
  /\ responseToL1Cache = [c \in L1s |-> <<>>]
  /\ L2cache = [a \in Addrs |-> NoL2Entry]
  /\ L2_TBEs = [a \in Addrs |-> NoL2TBE]
  /\ L2ExpireTriggerQueue = {}
  /\ GpusimDramBuffer = {}
  /\ memory = [a \in Addrs |-> 0]
  /\ version = [a \in Addrs |-> 0]
  /\ wrote = [c \in L1s |-> [t \in Threads |-> [a \in Addrs |-> 0]]]
  /\ recorded = [c \in L1s |-> [t \in Threads |-> {}]]
  /\ fenced = [c \in L1s |-> [t \in Threads |-> {}]]

L1Mandatory(c) ==
  L1_Load(c) \/ L1_WThru(c) \/ L1_Atomic(c) \/ L1_Replacement(c) \/ L1_Fence(c)

L1Response(c) == L1_Data(c) \/ L1_Written(c)

L1FenceTrigger(c) == \E q \in FenceTriggerQueue[c] : L1_Fence_Ack(c, q)

L2Request ==
  L2_GETS \/ L2_Write \/ L2_Upgrade_NT \/ L2_Upgrade_T \/ L2_Atomic \/ L2_Replacement

L2ExpireTrigger == \E q \in L2ExpireTriggerQueue : L2_Expire(q)

Next ==
  \/ \E c \in L1s :
       \/ \E t \in Threads : \/ \E type \in Requests \ {"MEM_FENCE"}, a \in Addrs : Issue(c, t, type, a)
                             \/ IssueFence(c, t)
       \/ L1Mandatory(c)
       \/ L1Response(c)
       \/ L1FenceTrigger(c)
       \/ Deliver(c)
  \/ L2Request
  \/ L2ExpireTrigger
  \/ \E a \in Addrs : L2_Mem_Data(a)
  \/ Tick

Spec == Init /\ [][Next]_vars

\* Every controller is woken while it has a ready message, the network and the
\* DRAM deliver what they were given, and the simulator's clock advances.
Fairness ==
  /\ WF_vars(Tick)
  /\ WF_vars(L2Request)
  /\ WF_vars(L2ExpireTrigger)
  /\ \A a \in Addrs : WF_vars(L2_Mem_Data(a))
  /\ \A c \in L1s : /\ WF_vars(L1Mandatory(c)) /\ WF_vars(L1Response(c))
                    /\ WF_vars(L1FenceTrigger(c)) /\ WF_vars(Deliver(c))

FairSpec == Spec /\ Fairness

-----------------------------------------------------------------------------
(* Properties *)

\* Every controller's tables, queues and history hold what their declarations in
\* the .sm files allow; in particular no pending count goes below zero.
TypeOK ==
  /\ now \in Nat
  /\ issued \in 0..MaxRequests
  /\ mandatoryQueue \in [L1s -> CoreRequests]
  /\ warps \in [L1s -> [Threads -> [stores : Nat, atomics : Nat, membar : BOOLEAN]]]
  /\ L1cache \in [L1s -> [Addrs -> L1Entries]]
  /\ L1_TBEs \in [L1s -> [Addrs -> L1TBEs]]
  /\ globalWrites \in [L1s -> [Threads -> Nat]]
  /\ FenceTriggerQueue \in [L1s -> SUBSET [thread : Threads, time : Nat]]
  /\ requestFromL1Cache \in [L1s -> Seq(RequestMsgs)]
  /\ L1RequestToL2Cache \in Seq(RequestMsgs)
  /\ responseToL1Cache \in [L1s -> Seq(ResponseMsgs)]
  /\ L2cache \in [Addrs -> L2Entries]
  /\ L2_TBEs \in [Addrs -> L2TBEs]
  /\ L2ExpireTriggerQueue \subseteq [addr : Addrs, time : Nat]
  /\ GpusimDramBuffer \subseteq Addrs
  /\ memory \in [Addrs -> Nat]
  /\ version \in [Addrs -> Nat]
  /\ wrote \in [L1s -> [Threads -> [Addrs -> Nat]]]
  /\ recorded \in [L1s -> [Threads -> SUBSET [addr : Addrs, ver : Nat]]]
  /\ fenced \in [L1s -> [Threads -> SUBSET [addr : Addrs, ver : Nat]]]

Elements(s) == {s[i] : i \in DOMAIN s}

\* The times until which c may read a from copies that lack some write up to v: the
\* one it holds and the ones on their way to it.
StaleUntil(c, a, v) ==
  {e.liveUntilTime : e \in {x \in {L1cache[c][a]} :
       x.CacheState \in {"S", "SM"} /\ x.ver < v}}
  \cup {m.live : m \in {x \in Elements(responseToL1Cache[c]) :
       x.addr = a /\ x.type = "DATA" /\ x.ver < v}}

\* c has been told, by the i-th response on its way to it or before, of a completion
\* time that covers t.
Told(c, i, t) ==
  \/ \E w \in Threads : t <= globalWrites[c][w]
  \/ \E j \in 1..i : /\ responseToL1Cache[c][j].type \notin {"DATA", "ACK"}
                     /\ t <= responseToL1Cache[c][j].GWCT


\* An upgrade acknowledged without data finds a copy that lacks nothing but the
\* upgrade itself, so the L1 may keep reading it under the new lease.
UpgradeCurrent ==
  \A c \in L1s : responseToL1Cache[c] # <<>> =>
    LET m == Head(responseToL1Cache[c])
    IN m.type \in {"ACK", "ACK_GLOBAL"} /\ L1getState(c, m.addr) = "SM" =>
         L1cache[c][m.addr].ver = m.ver - 1

\* A write of c's warp t that the L2 has not performed.
Unperformed(c, t) ==
  \/ \E m \in Elements(requestFromL1Cache[c] \o L1RequestToL2Cache) :
       m.src = c /\ m.thread = t /\ m.type # "GETS"
  \/ \E a \in Addrs : L2_TBEs[a].L1_WBAck_ID = c /\ L2_TBEs[a].thread = t

\* What a fence is for: when it completes, every earlier write of its warp has been
\* performed and no other L1 can read data older than it in a later cycle.
FenceCovers ==
  [][\A c \in L1s, t \in Threads : warps[c][t].membar /\ ~warps'[c][t].membar =>
       /\ ~Unperformed(c, t)
       /\ \A a \in Addrs, d \in L1s \ {c} :
            \A s \in StaleUntil(d, a, wrote[c][t][a]) : s <= now]_vars

\* What the L1 does ensure: when a fence completes, no other L1 can, in a later
\* cycle, read data older than the write whose completion time the warp's entry of
\* GlobalWriteVector had when the fence was taken from the mandatory queue.  That is
\* the write answered last; the ones answered later, or whose time it has
\* overwritten, are not covered.
FenceCoversRecorded ==
  [][\A c \in L1s, t \in Threads : warps[c][t].membar /\ ~warps'[c][t].membar =>
       \A w \in fenced[c][t], d \in L1s \ {c} :
         \A s \in StaleUntil(d, w.addr, w.ver) : s <= now]_vars

\* The time until which the L2 accounts for leases of a, across its evictions.
Promised(a) ==
  IF L2_TBEs_isPresent(a) THEN L2_TBEs[a].liveUntilTime ELSE L2cache[a].liveUntilTime

\* No L1 holds a lease that outlasts the time the L2 remembers for the block, in the
\* cache, in MI and through a refetch: that time is the GWCT of the next write.
LeasesPromised ==
  \A c \in L1s, a \in Addrs :
    \A t \in StaleUntil(c, a, version[a] + 1) : t >= now => t <= Promised(a)

\* The newest data of a block is where the next access finds it: in the L2, which
\* knows whether DRAM has it too, or in DRAM while the block is being fetched,
\* evicted or absent.  No path through fetch, eviction and refetch loses a store.
LatestKept ==
  \A a \in Addrs :
    IF L2getState(a) \in {"E", "S", "SS"}
    THEN /\ L2cache[a].ver = version[a]
         /\ L2cache[a].Dirty \/ memory[a] = version[a]
    ELSE memory[a] = version[a]

InFlight(s, P(_)) == Cardinality({i \in DOMAIN s : P(s[i])})

\* pendingReads and pendingWrites count exactly the requests of the TBE that are
\* in the network, at the L2, in an L2 TBE or on their way back, and a TBE lives
\* as long as there is one; so the _Done events are triggered by the last response.
\* The type invariant is part of it: the counts and queues stay in their ranges.
PendingMatch ==
  /\ TypeOK
  /\ \A c \in L1s, a \in Addrs :
    LET Read(m) == m.addr = a /\ m.src = c /\ m.type = "GETS"
        Written(m) == m.addr = a /\ m.src = c /\ m.type # "GETS"
        Data(m) == m.addr = a /\ m.type = "DATA"
        Acked(m) == m.addr = a /\ m.type # "DATA"
        t == L1_TBEs[c][a]
        requests == requestFromL1Cache[c] \o L1RequestToL2Cache
    IN /\ t.pendingReads = InFlight(requests, Read) + InFlight(responseToL1Cache[c], Data)
                           + Cardinality({c} \cap L2_TBEs[a].L1_GetS_IDs)
       /\ t.pendingWrites = InFlight(requests, Written) + InFlight(responseToL1Cache[c], Acked)
                            + Cardinality({c} \cap {L2_TBEs[a].L1_WBAck_ID})
       /\ L1_TBEs_isPresent(c, a) <=> t.pendingReads + t.pendingWrites > 0

\* Every event a port can trigger has a transition in the state the controller
\* sees, and the assertions of the ports and actions hold: no Data reaches an L1 in
\* SM, whose transition is commented out, and no upgrade matches outside S and SS.
EventsHandled ==
  /\ \A c \in L1s : responseToL1Cache[c] # <<>> =>
       LET m == Head(responseToL1Cache[c])
           st == L1getState(c, m.addr)
           t == L1_TBEs[c][m.addr]
       IN /\ L1_TBEs_isPresent(c, m.addr)
          /\ m.type = "DATA" =>
               /\ t.pendingReads = 1
               /\ st = "I_I" \/ (st = "I_S" /\ t.pendingWrites = 0)
          /\ m.type = "DATA_ATOMIC" => t.pendingWrites > 0 /\ st = "I_I"
          /\ m.type \notin {"DATA", "DATA_ATOMIC"} => t.pendingWrites > 0 /\ st \in {"I_I", "SM"}
          /\ st \in {"SM", "I_S"} => isL1CacheTagPresent(c, m.addr)
  /\ \A c \in L1s : mandatoryQueue[c].type = "LD" =>
       L1getState(c, mandatoryQueue[c].addr) # "I_S"
  /\ L1RequestToL2Cache # <<>> /\ L2Event(in_msg) = "L1_Upgrade_T" =>
       L2getState(in_msg.addr) \in {"S", "SS"}
  /\ \A a \in GpusimDramBuffer : L2_TBEs[a].TBEState \in {"IS", "IM", "IMA"}

L1Busy(c) ==
  \/ mandatoryQueue[c] # NoRequest
  \/ \E a \in Addrs : L1_TBEs_isPresent(c, a)
  \/ \E t \in Threads : warps[c][t] # NoStores

\* The cores make finitely many requests, and every L1 finishes its own: each one
\* leaves the mandatory queue, every TBE is freed, every store and atomic is
\* acknowledged and every fence completes.
RequestsComplete == \A c \in L1s : L1Busy(c) ~> ~L1Busy(c)

=============================================================================
