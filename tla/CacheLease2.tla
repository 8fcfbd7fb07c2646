----------------------------- MODULE CacheLease2 -----------------------------
(***************************************************************************)
(* "Cache Leasing v2", the TC-Strong protocol of Ruby                      *)
(* (gems-2.1.1/protocols/cachelease2-L1cache.sm and -L2cache.sm): private  *)
(* write-through L1 caches and one bank of the shared L2 kept coherent by  *)
(* leases.  A load miss takes a copy that is live until a time fixed by    *)
(* the L2; nobody is ever invalidated, the L2 holds writes back until the  *)
(* leases of the block have run out.                                       *)
(*                                                                         *)
(* One action is one transition (or one family of transitions) of one      *)
(* controller, including the setState that ends it.  A z_stall is the      *)
(* absence of a step: the message stays at the head of its port.  Data     *)
(* blocks carry no values in the program and are left out; the clock is    *)
(* the simulator's event queue, which every controller reads.              *)
(***************************************************************************)
EXTENDS Messages

CONSTANTS
  L1s,            \* the L1 caches
  Addrs,          \* block addresses that map to the modelled L2 bank and sets
  NoL1,           \* no requestor recorded
  Lease,          \* CL_FIXED_LEASE
  L1Ways,         \* ways of the modelled L1 set
  L2Ways,         \* ways of the modelled L2 set
  NUMBER_OF_TBES, \* capacity of every TBE table
  Requests,       \* kinds of request the cores make
  MaxRequests,    \* bound: requests of all cores
  IdleTicks       \* bound: ticks after the L2's leases have all run out

ASSUME LeaseAssumption == Lease \in Nat
ASSUME SizeAssumption ==
  /\ L1Ways \in Nat \ {0}
  /\ L2Ways \in Nat \ {0}
  /\ NUMBER_OF_TBES \in Nat \ {0}
  /\ MaxRequests \in Nat
  /\ IdleTicks \in Nat
ASSUME KindAssumption ==
  /\ IsFiniteSet(L1s) /\ NoL1 \notin L1s
  /\ Requests \subseteq {"LD", "ST", "ATOMIC"}

VARIABLES
  now,                  \* the event queue's m_globalTime
  issued,               \* requests the cores have made, capped by MaxRequests
  mandatoryQueue,       \* the request at the head of each L1's mandatory queue
  L1cache,              \* L1DcacheMemory of each L1
  L1_TBEs,              \* L1_TBEs of each L1
  requestFromL1Cache,   \* virtual network 0, ordered: from each L1 to the L2
  L1RequestToL2Cache,   \* the L2's request port: requests in arrival order
  responseToL1Cache,    \* virtual network 1, ordered: from the L2 to each L1
  L2cache,              \* L2cacheMemory
  L2_TBEs,              \* L2_TBEs
  L2ExpireTriggerQueue, \* expiry messages the L2 has sent itself
  GpusimDramBuffer,     \* blocks whose memory fetch is outstanding
  unwritten             \* history: blocks whose last write DRAM does not have

coreVars == <<issued, mandatoryQueue>>
l1Vars == <<L1cache, L1_TBEs>>
l2Vars == <<L2cache, L2_TBEs, L2ExpireTriggerQueue, GpusimDramBuffer, unwritten>>
vars == <<now, coreVars, l1Vars, l2Vars,
          requestFromL1Cache, L1RequestToL2Cache, responseToL1Cache>>

-----------------------------------------------------------------------------
(* Records.  An absent tag is an entry in state NotPresent, an absent TBE   *)
(* one in state NoTBE; numbers start at the SLICC defaults, zero.           *)

L1States == {"I", "S", "I_S", "I_I", "SM"}
L2States == {"NP", "E", "S", "SS", "IS", "IM", "IMA", "MI"}

NoRequest == [type |-> "none", addr |-> "none"]
CoreRequests == [type : Requests, addr : Addrs] \cup {NoRequest}

RequestMsgs == [type : {"GETS", "DATA", "DATA_UPGRADE", "DATA_ATOMIC"},
                addr : Addrs, src : L1s, live : Nat]
ResponseMsgs == [type : {"DATA", "DATA_ATOMIC", "ACK"}, addr : Addrs, live : Nat]

L1Entries == [CacheState : L1States \cup {"NotPresent"}, liveUntilTime : Nat]
L1TBEs == [TBEState : L1States \cup {"NoTBE"}, liveUntilTime : Nat,
           pendingReads : Nat, pendingWrites : Nat]
L2Entries == [CacheState : L2States \cup {"NotPresent"}, liveUntilTime : Nat,
              Dirty : BOOLEAN]
L2TBEs == [TBEState : L2States \cup {"NoTBE"}, L1_GetS_IDs : SUBSET L1s,
           L1_WBAck_ID : L1s \cup {NoL1}, liveUntilTime : Nat, Dirty : BOOLEAN]

NoL1Entry == [CacheState |-> "NotPresent", liveUntilTime |-> 0]
NoL1TBE == [TBEState |-> "NoTBE", liveUntilTime |-> 0,
            pendingReads |-> 0, pendingWrites |-> 0]
NoL2Entry == [CacheState |-> "NotPresent", liveUntilTime |-> 0, Dirty |-> FALSE]
NoL2TBE == [TBEState |-> "NoTBE", L1_GetS_IDs |-> {}, L1_WBAck_ID |-> NoL1,
            liveUntilTime |-> 0, Dirty |-> FALSE]

getTimeMax(s, t) == IF s > t THEN s ELSE t

-----------------------------------------------------------------------------
(* The L1's view of a block. *)

isL1CacheTagPresent(c, a) == L1cache[c][a].CacheState # "NotPresent"
L1_TBEs_isPresent(c, a) == L1_TBEs[c][a].TBEState # "NoTBE"

\* getState and isLive: a block whose lease has run out is I whatever its
\* CacheState, and an upgrade of a block that has expired is a plain write.
L1getState(c, a) ==
  IF L1_TBEs_isPresent(c, a)
  THEN IF L1_TBEs[c][a].TBEState = "SM" /\ L1_TBEs[c][a].liveUntilTime < now
       THEN "I_I"
       ELSE L1_TBEs[c][a].TBEState
  ELSE IF isL1CacheTagPresent(c, a) /\ L1cache[c][a].liveUntilTime >= now
       THEN L1cache[c][a].CacheState
       ELSE "I"

L1Tags(c) == {a \in Addrs : isL1CacheTagPresent(c, a)}
L1TBEFree(c) == Cardinality({a \in Addrs : L1_TBEs_isPresent(c, a)}) < NUMBER_OF_TBES

\* isTagPresent or cacheAvail
L1HasRoom(c, a) == isL1CacheTagPresent(c, a) \/ Cardinality(L1Tags(c)) < L1Ways

\* doTransition's setState(a, s), after the actions have produced entry e, TBE t.
L1setState(c, a, s, e, t) ==
  /\ L1cache' = [L1cache EXCEPT ![c][a] =
       IF e.CacheState = "NotPresent" THEN e ELSE [e EXCEPT !.CacheState = s]]
  /\ L1_TBEs' = [L1_TBEs EXCEPT ![c][a] =
       IF t.TBEState = "NoTBE" THEN t ELSE [t EXCEPT !.TBEState = s]]

i_allocateTBE(live) == [NoL1TBE EXCEPT !.TBEState = "I", !.liveUntilTime = live]

SendRequest(c, type, a, live) ==
  requestFromL1Cache' = [requestFromL1Cache EXCEPT ![c] =
    Append(@, [type |-> type, addr |-> a, src |-> c, live |-> live])]

k_popMandatoryQueue(c) ==
  /\ mandatoryQueue' = [mandatoryQueue EXCEPT ![c] = NoRequest]
  /\ UNCHANGED issued

-----------------------------------------------------------------------------
(* The cores.  A core keeps at most one load of a block outstanding: the    *)
(* MSHRs of ruby_wrapper merge the others.                                  *)

Issue(c, type, a) ==
  /\ issued < MaxRequests
  /\ mandatoryQueue[c] = NoRequest
  /\ type = "LD" => L1_TBEs[c][a].pendingReads = 0
  /\ mandatoryQueue' = [mandatoryQueue EXCEPT ![c] = [type |-> type, addr |-> a]]
  /\ issued' = issued + 1
  /\ UNCHANGED <<now, l1Vars, l2Vars, requestFromL1Cache, L1RequestToL2Cache, responseToL1Cache>>

-----------------------------------------------------------------------------
(* The L1's mandatory queue: Load, L1_WThru, L1_Atomic, L1_Replacement.     *)

L1LeavesAlone == UNCHANGED <<now, l2Vars, L1RequestToL2Cache, responseToL1Cache>>

pr_incPendingRead(t) == [t EXCEPT !.pendingReads = @ + 1]

\* A hit in S completes at once; while a write is pending the load goes to the
\* L2 even if the copy is live, so that no thread sees the write early.
L1_Load(c) ==
  LET a == mandatoryQueue[c].addr
      st == L1getState(c, a)
      e == L1cache[c][a]
      t == L1_TBEs[c][a]
  IN /\ mandatoryQueue[c].type = "LD"
     /\ L1HasRoom(c, a)
     /\ \/ /\ st = "S"
           /\ UNCHANGED <<l1Vars, requestFromL1Cache>>
        \/ /\ st = "I"
           /\ L1TBEFree(c)
           /\ L1setState(c, a, "I_S", [e EXCEPT !.CacheState = "I"],
                         pr_incPendingRead(i_allocateTBE(0)))
           /\ SendRequest(c, "GETS", a, 0)
        \/ /\ st \in {"I_I", "SM"}
           /\ L1setState(c, a, st, e, pr_incPendingRead(t))
           /\ SendRequest(c, "GETS", a, 0)
     /\ k_popMandatoryQueue(c)
     /\ L1LeavesAlone

\* Allocate the TBE if there is none, with the lifetime of a live copy.
TBEForWrite(c, a) ==
  CASE L1getState(c, a) = "I" -> i_allocateTBE(0)
    [] L1getState(c, a) = "S" -> i_allocateTBE(L1cache[c][a].liveUntilTime)
    [] OTHER -> L1_TBEs[c][a]

\* pw_incPendingWrite, the message to the L2, and the pop.
L1WriteThrough(c, a, s, type) ==
  LET t == TBEForWrite(c, a)
  IN /\ L1_TBEs_isPresent(c, a) \/ L1TBEFree(c)
     /\ L1setState(c, a, s, L1cache[c][a], [t EXCEPT !.pendingWrites = @ + 1])
     /\ SendRequest(c, type, a, IF type = "DATA_UPGRADE" THEN t.liveUntilTime ELSE 0)
     /\ k_popMandatoryQueue(c)
     /\ L1LeavesAlone

\* A write never allocates a block.  On a live copy it is an upgrade.
L1_WThru(c) ==
  LET a == mandatoryQueue[c].addr
  IN /\ mandatoryQueue[c].type = "ST"
     /\ IF L1getState(c, a) \in {"S", "SM"}
        THEN L1WriteThrough(c, a, "SM", "DATA_UPGRADE")
        ELSE L1WriteThrough(c, a, "I_I", "DATA")

L1_Atomic(c) ==
  LET a == mandatoryQueue[c].addr
  IN /\ mandatoryQueue[c].type = "ATOMIC"
     /\ L1HasRoom(c, a)
     /\ L1WriteThrough(c, a, "I_I", "DATA_ATOMIC")

\* No way is free: ff_deallocateL1CacheBlock on a victim in I or S; a victim in
\* a transient state stalls the queue.  The replacement policy may pick any way.
L1_Replacement(c) ==
  LET a == mandatoryQueue[c].addr
  IN /\ mandatoryQueue[c].type \in {"LD", "ATOMIC"}
     /\ ~L1HasRoom(c, a)
     /\ \E v \in L1Tags(c) :
          /\ L1getState(c, v) \in {"I", "S"}
          /\ L1cache' = [L1cache EXCEPT ![c][v] = NoL1Entry]
     /\ UNCHANGED <<coreVars, L1_TBEs, requestFromL1Cache>>
     /\ L1LeavesAlone

-----------------------------------------------------------------------------
(* The L1's response port: Data, Ack and DataAtomic, each with its _Done    *)
(* form for the response that leaves nothing pending.                       *)

o_popIncomingResponseQueue(c) ==
  /\ responseToL1Cache' = [responseToL1Cache EXCEPT ![c] = Tail(@)]
  /\ UNCHANGED <<now, coreVars, l2Vars, requestFromL1Cache, L1RequestToL2Cache>>

t_updateL1Lifetime(e, m) == [e EXCEPT !.liveUntilTime = m.live]

L1_Data(c) ==
  LET m == Head(responseToL1Cache[c])
      a == m.addr
      st == L1getState(c, a)
      e == L1cache[c][a]
      t == L1_TBEs[c][a]
  IN /\ responseToL1Cache[c] # <<>>
     /\ m.type = "DATA"
     /\ \/ /\ t.pendingWrites > 0
           /\ st \in {"I_I", "SM"}
           /\ L1setState(c, a, st, e, [t EXCEPT !.pendingReads = @ - 1])
        \/ /\ t.pendingWrites = 0
           /\ st \in {"I_S", "SM"}
           /\ L1setState(c, a, "S", t_updateL1Lifetime(e, m), NoL1TBE)
        \/ /\ t.pendingWrites = 0
           /\ st = "I_I"
           /\ L1setState(c, a, "I", e, NoL1TBE)
     /\ o_popIncomingResponseQueue(c)

\* Mutant: the read that is still pending is overlooked.
LastWrite_ReadsIgnored(t) == t.pendingWrites = 1

\* Nothing else is pending once this write is acknowledged.
LastWrite(t) == t.pendingReads = 0 /\ t.pendingWrites = 1

L1_Ack(c) ==
  LET m == Head(responseToL1Cache[c])
      a == m.addr
      st == L1getState(c, a)
      t == L1_TBEs[c][a]
      e == IF st = "SM" THEN t_updateL1Lifetime(L1cache[c][a], m) ELSE L1cache[c][a]
  IN /\ responseToL1Cache[c] # <<>>
     /\ m.type = "ACK"
     /\ st \in {"I_I", "SM"}
     /\ IF LastWrite(t)
        THEN L1setState(c, a, IF st = "SM" THEN "S" ELSE "I", e, NoL1TBE)
        ELSE L1setState(c, a, st, e, [t EXCEPT !.pendingWrites = @ - 1])
     /\ o_popIncomingResponseQueue(c)

L1_DataAtomic(c) ==
  LET m == Head(responseToL1Cache[c])
      a == m.addr
      t == L1_TBEs[c][a]
  IN /\ responseToL1Cache[c] # <<>>
     /\ m.type = "DATA_ATOMIC"
     /\ L1getState(c, a) = "I_I"
     /\ IF LastWrite(t)
        THEN L1setState(c, a, "I", L1cache[c][a], NoL1TBE)
        ELSE L1setState(c, a, "I_I", L1cache[c][a], [t EXCEPT !.pendingWrites = @ - 1])
     /\ o_popIncomingResponseQueue(c)

-----------------------------------------------------------------------------
(* The network delivers each L1's requests in order, those of different L1s *)
(* in any order.                                                            *)

Deliver(c) ==
  /\ requestFromL1Cache[c] # <<>>
  /\ L1RequestToL2Cache' = Append(L1RequestToL2Cache, Head(requestFromL1Cache[c]))
  /\ requestFromL1Cache' = [requestFromL1Cache EXCEPT ![c] = Tail(@)]
  /\ UNCHANGED <<now, coreVars, l1Vars, l2Vars, responseToL1Cache>>

-----------------------------------------------------------------------------
(* The L2's view of a block. *)

isL2CacheTagPresent(a) == L2cache[a].CacheState # "NotPresent"
L2_TBEs_isPresent(a) == L2_TBEs[a].TBEState # "NoTBE"
L2isLive(a) == L2cache[a].liveUntilTime >= now

\* getState: S and SS whose lease has run out are E.
L2getState(a) ==
  IF L2_TBEs_isPresent(a) THEN L2_TBEs[a].TBEState
  ELSE IF ~isL2CacheTagPresent(a) THEN "NP"
  ELSE IF L2cache[a].CacheState \in {"S", "SS"} /\ ~L2isLive(a) THEN "E"
  ELSE L2cache[a].CacheState

L2Tags == {a \in Addrs : isL2CacheTagPresent(a)}
L2TBEFree == Cardinality({a \in Addrs : L2_TBEs_isPresent(a)}) < NUMBER_OF_TBES
L2HasRoom(a) == isL2CacheTagPresent(a) \/ Cardinality(L2Tags) < L2Ways

L2setState(a, s, e, t) ==
  /\ L2cache' = [L2cache EXCEPT ![a] =
       IF e.CacheState = "NotPresent" THEN e ELSE [e EXCEPT !.CacheState = s]]
  /\ L2_TBEs' = [L2_TBEs EXCEPT ![a] =
       IF t.TBEState = "NoTBE" THEN t ELSE [t EXCEPT !.TBEState = s]]

\* Mutant: every upgrade of a live block counts as one of private data.
TimestampsMatch_LiveOnly(m) == isL2CacheTagPresent(m.addr) /\ L2isLive(m.addr)

\* The L1's lease is the L2's latest, so no other lease was granted after it.
TimestampsMatch(m) ==
  /\ isL2CacheTagPresent(m.addr)
  /\ L2isLive(m.addr)
  /\ L2cache[m.addr].liveUntilTime = m.live

\* L1Cache_request_type_to_event
L2Event(m) ==
  CASE m.type = "GETS" -> "L1_GETS"
    [] m.type = "DATA" -> "L1_Write"
    [] m.type = "DATA_ATOMIC" -> "L2_Atomic"
    [] m.type = "DATA_UPGRADE" /\ TimestampsMatch(m) -> "L1_Upgrade_T"
    [] OTHER -> "L1_Upgrade_NT"

Respond(cs, type, a, live) ==
  responseToL1Cache' = [c \in L1s |->
    IF c \in cs
    THEN Append(responseToL1Cache[c], [type |-> type, addr |-> a, live |-> live])
    ELSE responseToL1Cache[c]]

\* The request the port peeks at, and the event it triggers when it has a way.
in_msg == Head(L1RequestToL2Cache)

L2Triggers(event) ==
  /\ L1RequestToL2Cache # <<>>
  /\ L2HasRoom(in_msg.addr)
  /\ L2Event(in_msg) = event

jj_popL1RequestQueue ==
  /\ L1RequestToL2Cache' = Tail(L1RequestToL2Cache)
  /\ UNCHANGED <<now, coreVars, l1Vars, requestFromL1Cache, L2ExpireTriggerQueue>>

-----------------------------------------------------------------------------
(* The L2's request port. *)

\* Mutant: a new reader shortens the lease to its own.
t_updateL2BlockTime_Shorten(e) == [e EXCEPT !.liveUntilTime = now + Lease]

t_updateL2BlockTime(e) ==
  [e EXCEPT !.liveUntilTime = getTimeMax(now + Lease, @)]

\* Mutant: a second reader leaves the block in S.
SharedBy_Single(st) == "S"

\* The first reader of an expired block is its single sharer.
SharedBy(st) == IF st = "E" THEN "S" ELSE "SS"

L2_GETS ==
  LET a == in_msg.addr
      st == L2getState(a)
      e == t_updateL2BlockTime(L2cache[a])
  IN /\ L2Triggers("L1_GETS")
     /\ \/ /\ st = "NP"
           /\ L2TBEFree
           /\ L2setState(a, "IS", [NoL2Entry EXCEPT !.CacheState = "NP"],
                         [NoL2TBE EXCEPT !.TBEState = "NP", !.L1_GetS_IDs = {in_msg.src}])
           /\ GpusimDramBuffer' = GpusimDramBuffer \cup {a}
           /\ UNCHANGED responseToL1Cache
        \/ /\ st = "IS"
           /\ L2_TBEs' = [L2_TBEs EXCEPT ![a].L1_GetS_IDs = @ \cup {in_msg.src}]
           /\ UNCHANGED <<L2cache, GpusimDramBuffer, responseToL1Cache>>
        \/ /\ st \in {"E", "S", "SS"}
           /\ L2setState(a, SharedBy(st), e, L2_TBEs[a])
           /\ Respond({in_msg.src}, "DATA", a, e.liveUntilTime)
           /\ UNCHANGED GpusimDramBuffer
     /\ jj_popL1RequestQueue
     /\ UNCHANGED unwritten

\* d_markBlockDirty, ti_incrementL2BlockTime
ti_incrementL2BlockTime(e) ==
  [e EXCEPT !.liveUntilTime = @ + 1, !.Dirty = TRUE]

\* Write the block in the L2 and answer with its new time stamp.
PerformWrite(type) ==
  LET e == ti_incrementL2BlockTime(L2cache[in_msg.addr])
  IN /\ L2setState(in_msg.addr, "S", e, L2_TBEs[in_msg.addr])
     /\ Respond({in_msg.src}, type, in_msg.addr, e.liveUntilTime)
     /\ unwritten' = unwritten \cup {in_msg.addr}
     /\ UNCHANGED GpusimDramBuffer
     /\ jj_popL1RequestQueue

\* A write to a block that is not present waits in IM or IMA for the fetch.
FetchForStore(s) ==
  /\ L2TBEFree
  /\ L2setState(in_msg.addr, s, [NoL2Entry EXCEPT !.CacheState = "NP", !.Dirty = TRUE],
                [NoL2TBE EXCEPT !.TBEState = "NP", !.L1_WBAck_ID = in_msg.src, !.Dirty = TRUE])
  /\ GpusimDramBuffer' = GpusimDramBuffer \cup {in_msg.addr}
  /\ UNCHANGED <<unwritten, responseToL1Cache>>
  /\ jj_popL1RequestQueue

\* Writes are performed in E; in S and SS they stall until the lease is over.
MayWrite(st) == st = "E"

L2_Write ==
  /\ L2Triggers("L1_Write") \/ L2Triggers("L1_Upgrade_NT")
  /\ \/ L2getState(in_msg.addr) = "NP" /\ FetchForStore("IM")
     \/ MayWrite(L2getState(in_msg.addr)) /\ PerformWrite("ACK")

L2_Atomic ==
  /\ L2Triggers("L2_Atomic")
  /\ \/ L2getState(in_msg.addr) = "NP" /\ FetchForStore("IMA")
     \/ MayWrite(L2getState(in_msg.addr)) /\ PerformWrite("DATA_ATOMIC")

\* An upgrade of private data: the only live lease is the writer's own.
L2_Upgrade_T ==
  /\ L2Triggers("L1_Upgrade_T")
  /\ L2getState(in_msg.addr) = "S"
  /\ PerformWrite("ACK")

-----------------------------------------------------------------------------
(* Replacement, expiry and memory. *)

\* Mutant: a leased block is dropped like an expired one.
ExpiredVictim_Any(st) == st \in {"E", "S", "SS"}

ExpiredVictim(st) == st = "E"

\* Mutant: a dirty victim is not written back.
c_exclusiveReplacement_Skipped(v) == UNCHANGED unwritten

\* A dirty victim is written to DRAM.
c_exclusiveReplacement(v) ==
  unwritten' = IF L2cache[v].Dirty THEN unwritten \ {v} ELSE unwritten

\* Mutant: no expiry message is sent for the leased victim.
it_insertL2ExpireTriggerQueue_Skipped(v) == UNCHANGED L2ExpireTriggerQueue

\* The victim's lease runs out at its lifetime plus one.
it_insertL2ExpireTriggerQueue(v) ==
  L2ExpireTriggerQueue' = L2ExpireTriggerQueue \cup
    {[addr |-> v, time |-> L2cache[v].liveUntilTime + 1]}

\* No way is free for the request at the head.  An expired victim goes to NP; a
\* leased one to MI, which remembers the lease until its expiry message.
L2_Replacement ==
  /\ L1RequestToL2Cache # <<>>
  /\ ~L2HasRoom(in_msg.addr)
  /\ \E v \in L2Tags :
       /\ \/ /\ ExpiredVictim(L2getState(v))
             /\ L2setState(v, "NP", NoL2Entry, L2_TBEs[v])
             /\ UNCHANGED L2ExpireTriggerQueue
          \/ /\ L2getState(v) \in {"S", "SS"}
             /\ ~ExpiredVictim(L2getState(v))
             /\ L2TBEFree
             /\ L2setState(v, "MI", NoL2Entry,
                  [NoL2TBE EXCEPT !.TBEState = "NP", !.Dirty = L2cache[v].Dirty,
                                  !.liveUntilTime = L2cache[v].liveUntilTime])
             /\ it_insertL2ExpireTriggerQueue(v)
       /\ c_exclusiveReplacement(v)
  /\ UNCHANGED <<now, coreVars, l1Vars, requestFromL1Cache, L1RequestToL2Cache,
                 responseToL1Cache, GpusimDramBuffer>>

\* The message arrives at its ExpireTime or later.
L2_Expire(q) ==
  /\ q.time <= now
  /\ L2setState(q.addr, "NP", L2cache[q.addr], NoL2TBE)
  /\ L2ExpireTriggerQueue' = L2ExpireTriggerQueue \ {q}
  /\ UNCHANGED <<now, coreVars, l1Vars, requestFromL1Cache, L1RequestToL2Cache,
                 responseToL1Cache, GpusimDramBuffer, unwritten>>

\* tn_expireL2BlockTime, and the data of the store over the data of the memory.
mt_writeDataToCacheFromTBE(a) ==
  [L2cache[a] EXCEPT !.liveUntilTime = now, !.Dirty = L2_TBEs[a].Dirty]

L2_Mem_Data(a) ==
  LET t == L2_TBEs[a]
      fetched == [t_updateL2BlockTime(L2cache[a]) EXCEPT !.Dirty = FALSE]
      stored == mt_writeDataToCacheFromTBE(a)
  IN /\ a \in GpusimDramBuffer
     /\ GpusimDramBuffer' = GpusimDramBuffer \ {a}
     /\ \/ /\ t.TBEState = "IS"
           /\ L2setState(a, IF Cardinality(t.L1_GetS_IDs) > 1 THEN "SS" ELSE "S",
                         fetched, NoL2TBE)
           /\ Respond(t.L1_GetS_IDs, "DATA", a, fetched.liveUntilTime)
           /\ UNCHANGED unwritten
        \/ /\ t.TBEState \in {"IM", "IMA"}
           /\ L2setState(a, "E", stored, NoL2TBE)
           /\ Respond({t.L1_WBAck_ID}, IF t.TBEState = "IM" THEN "ACK" ELSE "DATA_ATOMIC",
                      a, now)
           /\ unwritten' = unwritten \cup {a}
     /\ UNCHANGED <<now, coreVars, l1Vars, requestFromL1Cache, L1RequestToL2Cache,
                    L2ExpireTriggerQueue>>

-----------------------------------------------------------------------------
(* Time.  A tick matters while a lease runs and for a few cycles after it.  *)

Tick ==
  /\ \E a \in Addrs : \/ now <= L2cache[a].liveUntilTime + IdleTicks
                      \/ now <= L2_TBEs[a].liveUntilTime + IdleTicks
  /\ now' = now + 1
  /\ UNCHANGED <<coreVars, l1Vars, l2Vars,
                 requestFromL1Cache, L1RequestToL2Cache, responseToL1Cache>>

Init ==
  /\ now = 1
  /\ issued = 0
  /\ mandatoryQueue = [c \in L1s |-> NoRequest]
  /\ L1cache = [c \in L1s |-> [a \in Addrs |-> NoL1Entry]]
  /\ L1_TBEs = [c \in L1s |-> [a \in Addrs |-> NoL1TBE]]
  /\ requestFromL1Cache = [c \in L1s |-> <<>>]
  /\ L1RequestToL2Cache = <<>>
  /\ responseToL1Cache = [c \in L1s |-> <<>>]
  /\ L2cache = [a \in Addrs |-> NoL2Entry]
  /\ L2_TBEs = [a \in Addrs |-> NoL2TBE]
  /\ L2ExpireTriggerQueue = {}
  /\ GpusimDramBuffer = {}
  /\ unwritten = {}

L1Mandatory(c) == L1_Load(c) \/ L1_WThru(c) \/ L1_Atomic(c) \/ L1_Replacement(c)

L1Response(c) == L1_Data(c) \/ L1_Ack(c) \/ L1_DataAtomic(c)

L2Request ==
  L2_GETS \/ L2_Write \/ L2_Atomic \/ L2_Upgrade_T \/ L2_Replacement

Next ==
  \/ \E c \in L1s :
       \/ \E type \in Requests, a \in Addrs : Issue(c, type, a)
       \/ L1Mandatory(c)
       \/ L1Response(c)
       \/ Deliver(c)
  \/ L2Request
  \/ \E q \in L2ExpireTriggerQueue : L2_Expire(q)
  \/ \E a \in Addrs : L2_Mem_Data(a)
  \/ Tick

Spec == Init /\ [][Next]_vars

-----------------------------------------------------------------------------
(* Properties *)

\* Every controller's tables, queues and history hold what their declarations in
\* the .sm files allow; in particular no pending count goes below zero.
TypeOK ==
  /\ now \in Nat
  /\ issued \in 0..MaxRequests
  /\ mandatoryQueue \in [L1s -> CoreRequests]
  /\ L1cache \in [L1s -> [Addrs -> L1Entries]]
  /\ L1_TBEs \in [L1s -> [Addrs -> L1TBEs]]
  /\ requestFromL1Cache \in [L1s -> Seq(RequestMsgs)]
  /\ L1RequestToL2Cache \in Seq(RequestMsgs)
  /\ responseToL1Cache \in [L1s -> Seq(ResponseMsgs)]
  /\ L2cache \in [Addrs -> L2Entries]
  /\ L2_TBEs \in [Addrs -> L2TBEs]
  /\ L2ExpireTriggerQueue \subseteq [addr : Addrs, time : Nat]
  /\ GpusimDramBuffer \subseteq Addrs
  /\ unwritten \subseteq Addrs

\* A load of a by c can be, or with no further help of the L2 can become, a hit.
CanRead(c, a) ==
  \/ L1getState(c, a) \in {"S", "SM"}
  \/ \E m \in Elements(responseToL1Cache[c]) :
       m.type = "DATA" /\ m.addr = a /\ m.live >= now

Readers(a) == {c \in L1s : CanRead(c, a)}

\* The L2's state alone says who may hold a live copy: one L1 in S, any number in
\* SS or while a leased victim waits in MI, none in every other state.
SharersKnown ==
  \A a \in Addrs :
    /\ L2getState(a) = "S" => Cardinality(Readers(a)) <= 1
    /\ L2getState(a) \notin {"S", "SS", "MI"} => Readers(a) = {}

\* The time until which the L2 holds writes to a back.
Promised(a) ==
  IF L2getState(a) = "MI" THEN L2_TBEs[a].liveUntilTime
  ELSE IF L2getState(a) \in {"S", "SS", "E"} THEN L2cache[a].liveUntilTime
  ELSE 0

\* The leases c holds on a: its copy, the upgrade it has in progress, and the
\* ones on their way to it.
Leases(c, a) ==
  (IF L1cache[c][a].CacheState \in {"S", "SM"} THEN {L1cache[c][a].liveUntilTime} ELSE {})
  \cup {m.live : m \in {x \in Elements(responseToL1Cache[c]) :
            /\ x.addr = a
            /\ x.type = "DATA" \/ (x.type = "ACK" /\ L1getState(c, a) = "SM")}}

\* No L1 holds a lease that outlasts the time for which the L2 holds writes back,
\* through extensions, upgrades, evictions of either cache and refetches.
LeasesPromised ==
  \A c \in L1s, a \in Addrs : \A t \in Leases(c, a) : t >= now => t <= Promised(a)

\* The L2 performs a write of c to a: it answers with an Ack or atomic data.
Performs(c, a) ==
  /\ Len(responseToL1Cache'[c]) > Len(responseToL1Cache[c])
  /\ LET m == responseToL1Cache'[c][Len(responseToL1Cache'[c])]
     IN m.addr = a /\ m.type # "DATA"

\* Single writer: when the L2 performs a write, no other L1 can still read the
\* old data, neither from its copy nor from a response in flight.
WriteExclusive ==
  [][\A c \in L1s, a \in Addrs : Performs(c, a) => Readers(a) \subseteq {c}]_vars

\* The loads of a by c on their way to the L2, and its writes.
Reads(c, a) == {m \in RequestMsgs : m.addr = a /\ m.src = c /\ m.type = "GETS"}
Writes(c, a) == {m \in RequestMsgs : m.addr = a /\ m.src = c /\ m.type # "GETS"}

\* The responses to them.
Fills(a) == {m \in ResponseMsgs : m.addr = a /\ m.type = "DATA"}
Acks(a) == {m \in ResponseMsgs : m.addr = a /\ m.type # "DATA"}

ReadsMatch(c, a) ==
  L1_TBEs[c][a].pendingReads =
    InFlight(requestFromL1Cache[c], Reads(c, a)) + InFlight(L1RequestToL2Cache, Reads(c, a))
    + Cardinality({c} \cap L2_TBEs[a].L1_GetS_IDs)
    + InFlight(responseToL1Cache[c], Fills(a))

WritesMatch(c, a) ==
  L1_TBEs[c][a].pendingWrites =
    InFlight(requestFromL1Cache[c], Writes(c, a)) + InFlight(L1RequestToL2Cache, Writes(c, a))
    + Cardinality({c} \cap {L2_TBEs[a].L1_WBAck_ID})
    + InFlight(responseToL1Cache[c], Acks(a))

\* pendingReads and pendingWrites count exactly the requests of the TBE that are
\* in the network, at the L2, in an L2 TBE or on their way back, and a TBE lives
\* as long as there is one; so the _Done events are triggered by the last response.
\* The type invariant is part of it: the counts and queues stay in their ranges.
PendingMatch ==
  /\ TypeOK
  /\ \A c \in L1s, a \in Addrs :
       /\ ReadsMatch(c, a) /\ WritesMatch(c, a)
       /\ L1_TBEs_isPresent(c, a) <=>
            L1_TBEs[c][a].pendingReads + L1_TBEs[c][a].pendingWrites > 0

\* Every event a port can trigger has a transition in the state the controller
\* sees, and the assertions of the ports and actions hold: nothing reaches the
\* "Invalid transition" error of the generated code.
EventsHandled ==
  /\ \A c \in L1s : responseToL1Cache[c] # <<>> =>
       LET m == Head(responseToL1Cache[c])
           st == L1getState(c, m.addr)
           t == L1_TBEs[c][m.addr]
       IN /\ L1_TBEs_isPresent(c, m.addr)
          /\ m.type = "DATA" =>
               /\ t.pendingReads = 1
               /\ st \in {"I_I", "SM"} \/ (st = "I_S" /\ t.pendingWrites = 0)
          /\ m.type = "ACK" => t.pendingWrites > 0 /\ st \in {"I_I", "SM"}
          /\ m.type = "DATA_ATOMIC" => t.pendingWrites > 0 /\ st = "I_I"
          /\ st \in {"SM", "I_S"} => isL1CacheTagPresent(c, m.addr)
  /\ \A c \in L1s : mandatoryQueue[c].type = "LD" =>
       L1getState(c, mandatoryQueue[c].addr) # "I_S"
  /\ L1RequestToL2Cache # <<>> /\ L2Event(in_msg) = "L1_Upgrade_T" =>
       L2getState(in_msg.addr) \in {"S", "SS"}
  /\ \A a \in GpusimDramBuffer : L2_TBEs[a].TBEState \in {"IS", "IM", "IMA"}
  /\ \A q \in L2ExpireTriggerQueue : L2_TBEs[q.addr].TBEState = "MI"

\* A write that DRAM does not have is in the L2, which knows it must write it
\* back: no path through fetch, fill and replacement loses a store.
WritesKept ==
  \A a \in unwritten :
    /\ L2cache[a].CacheState \in {"E", "S", "SS"}
    /\ ~L2_TBEs_isPresent(a)
    /\ L2cache[a].Dirty

L1Busy(c) ==
  mandatoryQueue[c] # NoRequest \/ \E a \in Addrs : L1_TBEs_isPresent(c, a)

\* The system never comes to rest with work outstanding: when no controller, no
\* message and no tick can take a step, every mandatory queue is empty and every TBE
\* is free, so a write that waits for leases to end or for an evicted block to expire
\* is always woken by somebody.
NeverStuck == ENABLED Next \/ \A c \in L1s : ~L1Busy(c)

=============================================================================
