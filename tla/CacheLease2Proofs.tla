------------------------- MODULE CacheLease2Proofs --------------------------
(***************************************************************************)
(* The inductive invariant of the TC-Strong protocol holds, and what       *)
(* follows from it: the safety properties that the run checks on a small   *)
(* instance.                                                               *)
(***************************************************************************)
EXTENDS CacheLease2L1Steps, CacheLease2L2Steps

-----------------------------------------------------------------------------
(* The invariant holds at every step. *)

\* The invariant holds initially.
LEMMA InitInv ==
  ASSUME CountingLaws, Init
  PROVE  LeaseStrongInv
  <1>1. TypeOK /\ now > 0
    <2>1. NoL1Entry \in L1Entries /\ NoL1TBE \in L1TBEs
      BY Zenon DEF NoL1Entry, NoL1TBE, L1Entries, L1TBEs
    <2>2. NoL2Entry \in L2Entries /\ NoL2TBE \in L2TBEs
      BY Zenon DEF NoL2Entry, NoL2TBE, L2Entries, L2TBEs
    <2>3. NoRequest \in CoreRequests BY Zenon DEF CoreRequests
    <2>4. issued \in 0..MaxRequests BY SizeAssumption DEF Init
    <2>5. QED BY <2>1, <2>2, <2>3, <2>4 DEF Init, TypeOK
  <1>2. \A c \in L1s, a \in Addrs :
          /\ L1cache[c][a] = NoL1Entry /\ L1_TBEs[c][a] = NoL1TBE
          /\ L2cache[a] = NoL2Entry /\ L2_TBEs[a] = NoL2TBE
          /\ requestFromL1Cache[c] = <<>> /\ L1RequestToL2Cache = <<>>
          /\ responseToL1Cache[c] = <<>> /\ mandatoryQueue[c] = NoRequest
    BY Zenon DEF Init
  <1>3. \A a \in Addrs : L2cache[a] = NoL2Entry /\ L2_TBEs[a] = NoL2TBE
    BY Zenon DEF Init
  <1>4. Elements(<<>>) = {} BY DEF Elements
  <1>5. SourceInv BY <1>4, Zenon DEF SourceInv, Init
  <1>6. ASSUME NEW c \in L1s, NEW a \in Addrs
        PROVE  L1BlockInv(c, a) /\ CountInv(c, a) /\ AtomicInv(c, a) /\ Stamps(c, a) = {}
    <2>1. L1cache[c][a].CacheState = "NotPresent"
      BY <1>2 DEF NoL1Entry
    <2>2. /\ L1_TBEs[c][a].TBEState = "NoTBE" /\ L1_TBEs[c][a].pendingReads = 0
          /\ L1_TBEs[c][a].pendingWrites = 0
      BY <1>2 DEF NoL1TBE
    <2>3. L2_TBEs[a].L1_GetS_IDs = {} /\ L2_TBEs[a].L1_WBAck_ID = NoL1
      BY <1>3 DEF NoL2TBE
    <2>4. L1BlockInv(c, a) BY <2>1, <2>2 DEF L1BlockInv
    <2>5. AtomicInv(c, a) BY <2>2, Zenon DEF AtomicInv
    <2>6. Stamps(c, a) = {} BY <1>2, <1>4, <2>1, <2>2, Zenon DEF Stamps
    <2>7. Cardinality({c} \cap L2_TBEs[a].L1_GetS_IDs) = 0
      BY <2>3, OneIfMember, Zenon
    <2>8. Cardinality({c} \cap {L2_TBEs[a].L1_WBAck_ID}) = 0
      BY <2>3, OneIfMember, KindAssumption, Zenon
    <2>9. ReadsMatch(c, a) BY <1>2, <2>2, <2>7, EmptyQueue DEF ReadsMatch
    <2>10. WritesMatch(c, a) BY <1>2, <2>2, <2>8, EmptyQueue DEF WritesMatch
    <2>11. QED BY <2>4, <2>5, <2>6, <2>9, <2>10, Zenon DEF CountInv
  <1>7. ASSUME NEW a \in Addrs PROVE L2BlockInv(a) /\ LeaseInv(a) /\ SingleInv(a)
    <2>1. L2cache[a].CacheState = "NotPresent" BY <1>3 DEF NoL2Entry
    <2>2. L2_TBEs[a].TBEState = "NoTBE" BY <1>3 DEF NoL2TBE
    <2>3. L2BlockInv(a) BY <1>3, <2>1, <2>2, Zenon DEF L2BlockInv
    <2>4. LeaseInv(a) BY <1>6, <2>1, Zenon DEF LeaseInv
    <2>5. Live(a) = {} BY <1>6, Zenon DEF Live
    <2>6. QED BY <2>3, <2>4, <2>5, Zenon DEF SingleInv
  <1>8. L2QueueInv /\ WritesKept BY Zenon DEF Init, L2QueueInv, WritesKept
  <1>9. QED BY <1>1, <1>5, <1>6, <1>7, <1>8, Zenon DEF LeaseStrongInv

\* A step that changes nothing.
LEMMA StutterStep ==
  ASSUME LeaseStrongInv, UNCHANGED vars
  PROVE  LeaseStrongInv'
  <1>1. UNCHANGED <<now, issued, mandatoryQueue, L1cache, L1_TBEs, L2cache, L2_TBEs,
                    L2ExpireTriggerQueue, GpusimDramBuffer, unwritten,
                    requestFromL1Cache, L1RequestToL2Cache, responseToL1Cache>>
    BY Zenon DEF vars, coreVars, l1Vars, l2Vars
  <1>2. TypeOK' /\ now' > 0 BY <1>1, Zenon DEF LeaseStrongInv, TypeOK
  <1>3. SourceInv' /\ L2QueueInv' BY <1>1, Zenon DEF LeaseStrongInv, SourceInv, L2QueueInv
  <1>4. WritesKept' BY <1>1, Zenon DEF LeaseStrongInv, WritesKept, L2_TBEs_isPresent
  <1>5. ASSUME NEW c \in L1s, NEW a \in Addrs
        PROVE  /\ L1BlockInv(c, a)' /\ CountInv(c, a)' /\ AtomicInv(c, a)'
               /\ Stamps(c, a)' = Stamps(c, a)
    <2>1. L1BlockInv(c, a) /\ CountInv(c, a) /\ AtomicInv(c, a) BY Zenon DEF LeaseStrongInv
    <2>2. L1BlockInv(c, a)' BY <1>1, <2>1, Zenon DEF L1BlockInv
    <2>3. CountInv(c, a)'
      BY <1>1, <2>1, Zenon DEF CountInv, ReadsMatch, WritesMatch, Reads, Writes, Fills, Acks
    <2>4. AtomicInv(c, a)' BY <1>1, <2>1, Zenon DEF AtomicInv
    <2>5. L1getState(c, a)' = L1getState(c, a)
      BY <1>1, Zenon DEF L1getState, L1_TBEs_isPresent, isL1CacheTagPresent
    <2>6. Stamps(c, a)' = Stamps(c, a) BY <1>1, <2>5 DEF Stamps, Elements
    <2>7. QED BY <2>2, <2>3, <2>4, <2>6, Zenon
  <1>6. ASSUME NEW a \in Addrs PROVE L2BlockInv(a)' /\ LeaseInv(a)' /\ SingleInv(a)'
    <2>1. L2BlockInv(a) /\ LeaseInv(a) /\ SingleInv(a) BY Zenon DEF LeaseStrongInv
    <2>2. L2BlockInv(a)' BY <1>1, <2>1, Zenon DEF L2BlockInv
    <2>3. L2getState(a)' = L2getState(a)
      BY <1>1, Zenon DEF L2getState, L2_TBEs_isPresent, isL2CacheTagPresent, L2isLive
    <2>4. Promised(a)' = Promised(a) BY <1>1, <2>3, Zenon DEF Promised
    <2>5. LeaseInv(a)' BY <1>1, <1>5, <2>1, <2>4, Zenon DEF LeaseInv
    <2>6. Live(a)' = Live(a) BY <1>1, <1>5, Zenon DEF Live
    <2>7. QED BY <2>1, <2>2, <2>3, <2>5, <2>6, Zenon DEF SingleInv
  <1>7. QED BY <1>2, <1>3, <1>4, <1>5, <1>6, Zenon DEF LeaseStrongInv

\* Every step of the protocol keeps the invariant.
LEMMA NextInv ==
  ASSUME CountingLaws, LeaseStrongInv, [Next]_vars
  PROVE  LeaseStrongInv'
  <1>1. CASE UNCHANGED vars BY <1>1, StutterStep, Zenon
  <1>2. ASSUME NEW c \in L1s, NEW type \in Requests, NEW a \in Addrs, Issue(c, type, a)
        PROVE  LeaseStrongInv'
    BY <1>2, IssueStep, Zenon
  <1>3. ASSUME NEW c \in L1s, L1Mandatory(c) PROVE LeaseStrongInv'
    BY <1>3, LoadStep, WThruStep, AtomicStep, L1ReplacementStep, Zenon DEF L1Mandatory
  <1>4. ASSUME NEW c \in L1s, L1Response(c) PROVE LeaseStrongInv'
    BY <1>4, DataStep, AckStep, DataAtomicStep, Zenon DEF L1Response
  <1>5. ASSUME NEW c \in L1s, Deliver(c) PROVE LeaseStrongInv'
    BY <1>5, DeliverStep, Zenon
  <1>6. CASE L2Request
    BY <1>6, ReadStep, WriteStep, L2AtomicStep, UpgradeStep, ReplacementStep, Zenon DEF L2Request
  <1>7. ASSUME NEW q \in L2ExpireTriggerQueue, L2_Expire(q) PROVE LeaseStrongInv'
    BY <1>7, ExpireStep, Zenon
  <1>8. ASSUME NEW a \in Addrs, L2_Mem_Data(a) PROVE LeaseStrongInv'
    BY <1>8, MemDataStep, Zenon
  <1>9. CASE Tick BY <1>9, TickStep, Zenon
  <1>10. QED BY <1>1, <1>2, <1>3, <1>4, <1>5, <1>6, <1>7, <1>8, <1>9, Zenon DEF Next

-----------------------------------------------------------------------------
(* What follows from it. *)

\* The invariant implies that pending counters match the messages in flight.
LEMMA StrongPending == LeaseStrongInv => PendingMatch
  <1> SUFFICES ASSUME LeaseStrongInv PROVE PendingMatch BY Zenon
  <1>1. TypeOK BY Zenon DEF LeaseStrongInv
  <1>2. ASSUME NEW c \in L1s, NEW a \in Addrs
        PROVE  /\ ReadsMatch(c, a) /\ WritesMatch(c, a)
               /\ L1_TBEs_isPresent(c, a) <=>
                    L1_TBEs[c][a].pendingReads + L1_TBEs[c][a].pendingWrites > 0
    <2>1. L1BlockInv(c, a) /\ CountInv(c, a) BY Zenon DEF LeaseStrongInv
    <2>2. QED BY <2>1, Zenon DEF L1BlockInv, CountInv, L1_TBEs_isPresent
  <1>3. QED BY <1>1, <1>2, Zenon DEF PendingMatch

\* The invariant implies that the L2 promised every lease an L1 holds.
LEMMA StrongPromise == LeaseStrongInv => LeasesPromised
  <1> SUFFICES ASSUME LeaseStrongInv, NEW c \in L1s, NEW a \in Addrs,
                      NEW t \in Leases(c, a), t >= now
               PROVE  t <= Promised(a)
    BY Zenon DEF LeasesPromised
  <1>1. t \in Stamps(c, a) BY Zenon DEF Leases, Stamps
  <1>2. LeaseInv(a) BY Zenon DEF LeaseStrongInv
  <1>3. QED BY <1>1, <1>2, Zenon DEF LeaseInv

\* Whoever can read a block has a time stamp of it that is live.
LEMMA ReadersLive ==
  ASSUME LeaseStrongInv, NEW a \in Addrs
  PROVE  Readers(a) \subseteq Live(a)
  <1> SUFFICES ASSUME NEW c \in L1s, CanRead(c, a) PROVE c \in Live(a)
    BY Zenon DEF Readers
  <1> SUFFICES \E t \in Stamps(c, a) : t >= now
    BY Zenon DEF Live
  <1>1. CASE L1getState(c, a) = "S"
    <2>1. L1cache[c][a].CacheState = "S" /\ L1cache[c][a].liveUntilTime >= now
      BY <1>1, L1StateFacts, Zenon
    <2>2. L1cache[c][a].liveUntilTime \in Stamps(c, a) BY <2>1, StampRule, Zenon
    <2>3. QED BY <2>1, <2>2, Zenon
  <1>2. CASE L1getState(c, a) = "SM"
    <2>1. L1_TBEs[c][a].TBEState = "SM" /\ L1_TBEs[c][a].liveUntilTime >= now
      BY <1>2, L1StateFacts, Zenon
    <2>2. L1_TBEs[c][a].liveUntilTime \in Stamps(c, a) BY <2>1, StampRule, Zenon
    <2>3. QED BY <2>1, <2>2, Zenon
  <1>3. CASE \E m \in Elements(responseToL1Cache[c]) :
               m.type = "DATA" /\ m.addr = a /\ m.live >= now
    <2>1. PICK m \in Elements(responseToL1Cache[c]) :
            m.type = "DATA" /\ m.addr = a /\ m.live >= now
      BY <1>3, Zenon
    <2>2. m.live \in Stamps(c, a) BY <2>1, StampRule
    <2>3. QED BY <2>1, <2>2, Zenon
  <1>4. QED BY <1>1, <1>2, <1>3, Zenon DEF CanRead

\* The invariant implies that the L2 knows the readers.
LEMMA StrongSharers == CountingLaws /\ LeaseStrongInv => SharersKnown
  <1> SUFFICES ASSUME CountingLaws, LeaseStrongInv, NEW a \in Addrs
               PROVE  /\ L2getState(a) = "S" => Cardinality(Readers(a)) <= 1
                      /\ L2getState(a) \notin {"S", "SS", "MI"} => Readers(a) = {}
    BY Zenon DEF SharersKnown
  <1>1. Readers(a) \subseteq Live(a) BY ReadersLive, Zenon
  <1>2. ASSUME L2getState(a) = "S" PROVE Cardinality(Readers(a)) <= 1
    <2>1. \A c, d \in Readers(a) : c = d BY <1>1, <1>2, Zenon DEF LeaseStrongInv, SingleInv
    <2>2. CASE Readers(a) = {} BY <2>2 DEF CountingLaws, EmptyLaw
    <2>3. CASE Readers(a) # {}
      <3>1. PICK c : c \in Readers(a) BY <2>3, Zenon
      <3>2. Readers(a) = {c} BY <2>1, <3>1, Zenon
      <3>3. Cardinality({c}) = 1 BY DEF CountingLaws, SingletonLaw
      <3>4. QED BY <3>2, <3>3
    <2>4. QED BY <2>2, <2>3, Zenon
  <1>3. ASSUME L2getState(a) \notin {"S", "SS", "MI"} PROVE Readers(a) = {}
    <2>1. \A c \in L1s : \A t \in Stamps(c, a) : t \in Nat /\ t < now BY <1>3, NoneLive, Zenon
    <2>2. now \in Nat BY Zenon DEF LeaseStrongInv, TypeOK
    <2>3. Live(a) = {} BY <2>1, <2>2 DEF Live
    <2>4. QED BY <1>1, <2>3, Zenon
  <1>4. QED BY <1>2, <1>3, Zenon

\* The invariant implies that every event has a transition.
LEMMA StrongEvents == CountingLaws /\ LeaseStrongInv => EventsHandled
  <1> SUFFICES ASSUME CountingLaws, LeaseStrongInv PROVE EventsHandled BY Zenon
  <1>0. TypeOK /\ L2QueueInv BY Zenon DEF LeaseStrongInv
  <1>1. ASSUME NEW c \in L1s, responseToL1Cache[c] # <<>>, NEW m, m = Head(responseToL1Cache[c])
        PROVE  /\ L1_TBEs_isPresent(c, m.addr)
               /\ m.type = "DATA" =>
                    /\ L1_TBEs[c][m.addr].pendingReads = 1
                    /\ \/ L1getState(c, m.addr) \in {"I_I", "SM"}
                       \/ L1getState(c, m.addr) = "I_S" /\ L1_TBEs[c][m.addr].pendingWrites = 0
               /\ m.type = "ACK" =>
                    L1_TBEs[c][m.addr].pendingWrites > 0 /\ L1getState(c, m.addr) \in {"I_I", "SM"}
               /\ m.type = "DATA_ATOMIC" =>
                    L1_TBEs[c][m.addr].pendingWrites > 0 /\ L1getState(c, m.addr) = "I_I"
               /\ L1getState(c, m.addr) \in {"SM", "I_S"} => isL1CacheTagPresent(c, m.addr)
    <2>1. /\ m \in ResponseMsgs /\ m \in Elements(responseToL1Cache[c]) /\ m.addr \in Addrs
          /\ m.type = "DATA" => L1_TBEs[c][m.addr].pendingReads = 1
          /\ m.type # "DATA" => L1_TBEs[c][m.addr].pendingWrites > 0
          /\ L1_TBEs[c][m.addr].TBEState # "NoTBE"
      BY <1>1, ResponseFacts
    <2> DEFINE a == m.addr
    <2>2. /\ L1getState(c, a) \in {"I", "S"} <=> L1_TBEs[c][a].TBEState = "NoTBE"
          /\ L1getState(c, a) = "I_S" <=> L1_TBEs[c][a].TBEState = "I_S"
          /\ L1getState(c, a) = "SM" => L1_TBEs[c][a].TBEState = "SM"
          /\ L1getState(c, a) \in {"I", "S", "I_S", "SM", "I_I"}
      BY <2>1, L1StateFacts, Zenon
    <2>3. /\ L1_TBEs[c][a].TBEState = "I_S" =>
               L1cache[c][a].CacheState = "I_S" /\ L1_TBEs[c][a].pendingWrites = 0
          /\ L1_TBEs[c][a].TBEState = "SM" => L1cache[c][a].CacheState = "SM"
      BY <2>1, Zenon DEF LeaseStrongInv, L1BlockInv
    <2>4. L1_TBEs[c][a].TBEState = "SM" => m.type # "DATA_ATOMIC"
      BY <2>1, Zenon DEF LeaseStrongInv, AtomicInv
    <2>5. L1_TBEs[c][a].TBEState = "I_S" => m.type = "DATA" BY <2>1, <2>3
    <2>6. QED BY <2>1, <2>2, <2>3, <2>4, <2>5, Zenon DEF L1_TBEs_isPresent, isL1CacheTagPresent
  <1>2. ASSUME NEW c \in L1s, mandatoryQueue[c].type = "LD"
        PROVE  L1getState(c, mandatoryQueue[c].addr) # "I_S"
    <2> DEFINE a == mandatoryQueue[c].addr
    <2>1. a \in Addrs /\ L1_TBEs[c][a].pendingReads = 0 BY <1>2, CoreRequest, Zenon
    <2>2. L1BlockInv(c, a) BY <2>1, Zenon DEF LeaseStrongInv
    <2>3. L1_TBEs[c][a].TBEState # "I_S"
      BY <2>1, <2>2, NothingPending, Zenon DEF L1BlockInv
    <2>4. QED BY <2>1, <2>3, L1StateFacts, Zenon
  <1>3. ASSUME L1RequestToL2Cache # <<>>, L2Event(in_msg) = "L1_Upgrade_T"
        PROVE  L2getState(in_msg.addr) \in {"S", "SS"}
    <2> DEFINE a == in_msg.addr
    <2>1. /\ a \in Addrs /\ in_msg.src \in L1s /\ in_msg \in RequestMsgs
          /\ in_msg \in Elements(L1RequestToL2Cache)
      BY <1>0, <1>3, Popped
    <2>2. in_msg.type = "DATA_UPGRADE" /\ TimestampsMatch(in_msg)
      <3>1. in_msg.type \in {"GETS", "DATA", "DATA_UPGRADE", "DATA_ATOMIC"}
        BY <2>1, Zenon DEF RequestMsgs
      <3>2. CASE in_msg.type = "GETS" BY <1>3, <3>2, Zenon DEF L2Event
      <3>3. CASE in_msg.type = "DATA" BY <1>3, <3>3, Zenon DEF L2Event
      <3>4. CASE in_msg.type = "DATA_ATOMIC" BY <1>3, <3>4, Zenon DEF L2Event
      <3>5. CASE in_msg.type = "DATA_UPGRADE" BY <1>3, <3>5, Zenon DEF L2Event
      <3>6. QED BY <3>1, <3>2, <3>3, <3>4, <3>5, Zenon
    <2>3. /\ L2cache[a].CacheState # "NotPresent" /\ L2cache[a].liveUntilTime >= now
          /\ L2cache[a].liveUntilTime = in_msg.live
      BY <2>2, Zenon DEF TimestampsMatch, isL2CacheTagPresent, L2isLive
    <2>4. L2cache[a] \in L2Entries /\ now \in Nat /\ now > 0 /\ L2BlockInv(a) /\ LeaseInv(a)
      BY <2>1, Zenon DEF LeaseStrongInv, TypeOK
    <2>5. L2cache[a].liveUntilTime \in Nat /\ L2cache[a].liveUntilTime # 0
      BY <2>3, <2>4 DEF L2Entries
    <2>6. in_msg.live \in Stamps(in_msg.src, a) BY <2>1, <2>2, StampRule, Zenon
    <2>7. L2cache[a].CacheState # "E" BY <2>1, <2>3, <2>4, <2>5, <2>6 DEF LeaseInv
    <2>8. L2_TBEs[a].TBEState = "NoTBE" /\ L2cache[a].CacheState \in {"S", "SS"}
      BY <2>3, <2>4, <2>5, <2>7, Zenon DEF L2BlockInv
    <2>9. QED BY <2>3, <2>8, Zenon DEF L2getState, L2_TBEs_isPresent, isL2CacheTagPresent, L2isLive
  <1>4. \A a \in GpusimDramBuffer : L2_TBEs[a].TBEState \in {"IS", "IM", "IMA"}
    BY <1>0, Zenon DEF L2QueueInv
  <1>5. \A q \in L2ExpireTriggerQueue : L2_TBEs[q.addr].TBEState = "MI"
    BY <1>0, Zenon DEF L2QueueInv
  <1>6. QED BY <1>1, <1>2, <1>3, <1>4, <1>5, Zenon DEF EventsHandled

\* The L2 performs a write in a step in which it answers with an acknowledgement.
LEMMA PerformsAnswer ==
  ASSUME TypeOK, NEW cs, cs \subseteq L1s, NEW type \in {"DATA", "DATA_ATOMIC", "ACK"},
         NEW b \in Addrs, NEW live \in Nat, Respond(cs, type, b, live),
         NEW c \in L1s, NEW a \in Addrs, Performs(c, a)
  PROVE  c \in cs /\ a = b /\ type # "DATA"
  <1>0. Sent(cs, type, b, live, c) BY ResponseSent, Zenon
  <1>1. PICK r \in ResponseMsgs :
           /\ Answers(r, type, b, live)
           /\ responseToL1Cache'[c] =
                IF c \in cs THEN Append(responseToL1Cache[c], r) ELSE responseToL1Cache[c]
    BY <1>0, Zenon DEF Sent
  <1>2. responseToL1Cache[c] \in Seq(ResponseMsgs) BY Zenon DEF TypeOK
  <1>3. Len(responseToL1Cache'[c]) > Len(responseToL1Cache[c]) BY Zenon DEF Performs
  <1>4. c \in cs
    <2>1. Len(responseToL1Cache[c]) \in Nat BY <1>2
    <2>2. QED BY <1>1, <1>3, <2>1
  <1>5. responseToL1Cache'[c][Len(responseToL1Cache'[c])] = r
    <2> DEFINE s == responseToL1Cache[c]
    <2>1. s \in Seq(ResponseMsgs) BY <1>2, Zenon
    <2>2. responseToL1Cache'[c] = Append(s, r) BY <1>1, <1>4, Zenon
    <2> HIDE DEF s
    <2>3. Len(Append(s, r)) = Len(s) + 1 /\ Append(s, r)[Len(s) + 1] = r BY <2>1
    <2>4. QED BY <2>2, <2>3, Zenon
  <1>6. r.addr = a /\ r.type # "DATA" BY <1>5, Zenon DEF Performs
  <1>7. QED BY <1>1, <1>4, <1>6, Zenon DEF Answers

\* A step that sends no response performs no write.
LEMMA NoAnswer ==
  ASSUME TypeOK, NEW c \in L1s, NEW a \in Addrs,
         \/ responseToL1Cache'[c] = responseToL1Cache[c]
         \/ responseToL1Cache[c] # <<>> /\ responseToL1Cache'[c] = Tail(responseToL1Cache[c])
  PROVE  ~Performs(c, a)
  <1> DEFINE s == responseToL1Cache[c]
             s2 == responseToL1Cache'[c]
  <1>1. s \in Seq(ResponseMsgs) BY Zenon DEF TypeOK
  <1>2. Performs(c, a) => Len(s2) > Len(s) BY Zenon DEF Performs
  <1>3. s2 = s \/ (s # <<>> /\ s2 = Tail(s)) BY Zenon
  <1> HIDE DEF s, s2
  <1>4. ~(Len(s2) > Len(s)) BY <1>1, <1>3
  <1>5. QED BY <1>2, <1>4, Zenon

\* The L2 answers a write of the one L1 with a time stamp that is live.
LEMMA ExclusiveAnswer ==
  ASSUME LeaseStrongInv, NEW type \in {"DATA", "DATA_ATOMIC", "ACK"}, NEW b \in Addrs,
         NEW cs, cs \subseteq L1s, NEW live \in Nat, Respond(cs, type, b, live),
         Live(b) \subseteq cs, NEW c \in L1s, NEW a \in Addrs, Performs(c, a)
  PROVE  c \in cs /\ Readers(a) \subseteq cs
  <1>1. TypeOK BY Zenon DEF LeaseStrongInv
  <1>2. c \in cs /\ a = b BY <1>1, PerformsAnswer
  <1>3. Readers(a) \subseteq Live(a) BY ReadersLive, Zenon
  <1>4. QED BY <1>2, <1>3, Zenon

\* A write the L2 performs at once finds no other reader.
LEMMA ExclusiveWrite ==
  ASSUME CountingLaws, LeaseStrongInv, L1RequestToL2Cache # <<>>, NEW type \in {"ACK",
         "DATA_ATOMIC"},
         L2getState(in_msg.addr) \in {"E", "S"}, Live(in_msg.addr) \subseteq {in_msg.src},
         PerformWrite(type), NEW c \in L1s, NEW a \in Addrs, Performs(c, a)
  PROVE  Readers(a) \subseteq {c}
  <1> DEFINE b == in_msg.addr
             cs == {in_msg.src}
             u == ti_incrementL2BlockTime(L2cache[b])
             live == u.liveUntilTime
  <1>1. TypeOK BY Zenon DEF LeaseStrongInv
  <1>2. b \in Addrs /\ cs \subseteq L1s BY <1>1, Popped, Zenon
  <1>3. L2cache[b] \in L2Entries BY <1>2, L2StateFacts, Zenon
  <1>4. u \in L2Entries BY <1>3, IncrementUpdate, Zenon
  <1>5. Respond(cs, type, b, live) BY Zenon DEF PerformWrite
  <1> HIDE DEF u
  <1>6. live \in Nat BY <1>4, Zenon DEF L2Entries
  <1>7. Live(b) \subseteq cs BY Zenon
  <1> HIDE DEF live, cs, b
  <1>8. type \in {"DATA", "DATA_ATOMIC", "ACK"} BY Zenon
  <1>9. c \in cs /\ Readers(a) \subseteq cs BY <1>2, <1>5, <1>6, <1>7, <1>8, ExclusiveAnswer, Zenon
  <1>10. QED BY <1>9, Zenon DEF cs

\* The L2 answers the write that waited for the block.
LEMMA ExclusiveStore ==
  ASSUME LeaseStrongInv, NEW b \in Addrs, L2_Mem_Data(b),
         NEW c \in L1s, NEW a \in Addrs, Performs(c, a)
  PROVE  Readers(a) \subseteq {c}
  <1>1. TypeOK /\ now \in Nat /\ L2BlockInv(b) BY Zenon DEF LeaseStrongInv, TypeOK
  <1>2. CASE L2_TBEs[b].TBEState = "IS"
    <2> DEFINE u == t_updateL2BlockTime(L2cache[b])
               fetched == [u EXCEPT !.Dirty = FALSE]
               cs == L2_TBEs[b].L1_GetS_IDs
               live == fetched.liveUntilTime
    <2>1. L2cache[b] \in L2Entries /\ L2_TBEs[b] \in L2TBEs BY L2StateFacts, Zenon
    <2>2. Respond(cs, "DATA", b, live) BY <1>2, Zenon DEF L2_Mem_Data
    <2>3. cs \subseteq L1s BY <2>1, Zenon DEF L2TBEs
    <2>4. u \in L2Entries BY <1>1, <2>1, BlockTimeUpdate, Zenon
    <2> HIDE DEF u
    <2>5. fetched \in L2Entries BY <2>4, CleanUpdate, Zenon
    <2> HIDE DEF fetched
    <2>6. live \in Nat BY <2>5, Zenon DEF L2Entries
    <2> HIDE DEF live, cs
    <2>7. FALSE BY <1>1, <2>2, <2>3, <2>6, PerformsAnswer, Zenon
    <2>8. QED BY <2>7, Zenon
  <1>3. CASE L2_TBEs[b].TBEState \in {"IM", "IMA"}
    <2> DEFINE cs == {L2_TBEs[b].L1_WBAck_ID}
               type == IF L2_TBEs[b].TBEState = "IM" THEN "ACK" ELSE "DATA_ATOMIC"
    <2>1. Respond(cs, type, b, now) BY <1>3, Zenon DEF L2_Mem_Data
    <2>2. cs \subseteq L1s /\ type \in {"DATA", "DATA_ATOMIC", "ACK"}
      BY <1>1, <1>3, Zenon DEF L2BlockInv
    <2> HIDE DEF cs, type
    <2>3. a = b BY <1>1, <2>1, <2>2, PerformsAnswer
    <2>4. \A d \in L1s : \A t \in Stamps(d, a) : t \in Nat /\ t < now
      <3>1. L2getState(a) \notin {"S", "SS", "MI"} BY <1>3, <2>3, L2StateFacts, Zenon
      <3>2. QED BY <3>1, NoneLive, Zenon
    <2>5. Live(a) = {} BY <1>1, <2>4 DEF Live
    <2>6. Readers(a) \subseteq Live(a) BY ReadersLive, Zenon
    <2>7. QED BY <2>5, <2>6, Zenon
  <1>4. QED BY <1>2, <1>3, Zenon DEF L2_Mem_Data

\* Every step that performs a write finds no other reader.
LEMMA ExclusiveStep ==
  ASSUME CountingLaws, LeaseStrongInv, [Next]_vars, NEW c \in L1s, NEW a \in Addrs, Performs(c, a)
  PROVE  Readers(a) \subseteq {c}
  <1>0. TypeOK BY Zenon DEF LeaseStrongInv
  <1>1. responseToL1Cache' # responseToL1Cache BY <1>0, NoAnswer, Zenon
  <1>2. ~UNCHANGED vars BY <1>1, Zenon DEF vars
  <1>3. ASSUME NEW d \in L1s PROVE ~L1Response(d)
    <2>1. SUFFICES ASSUME o_popIncomingResponseQueue(d), responseToL1Cache[d] # <<>> PROVE FALSE
      BY Zenon DEF L1Response, L1_Data, L1_Ack, L1_DataAtomic
    <2>2. responseToL1Cache' = [responseToL1Cache EXCEPT ![d] = Tail(@)]
      BY <2>1, Zenon DEF o_popIncomingResponseQueue
    <2>3. CASE c = d
      <3>1. responseToL1Cache'[c] = Tail(responseToL1Cache[c]) BY <1>0, <2>2, <2>3, Zenon DEF TypeOK
      <3>2. QED BY <1>0, <2>1, <2>3, <3>1, NoAnswer, Zenon
    <2>4. CASE c # d
      <3>1. responseToL1Cache'[c] = responseToL1Cache[c] BY <1>0, <2>2, <2>4, Zenon DEF TypeOK
      <3>2. QED BY <1>0, <3>1, NoAnswer, Zenon
    <2>5. QED BY <2>3, <2>4, Zenon
  <1>4. ASSUME NEW d \in L1s PROVE ~L1Mandatory(d) /\ ~Deliver(d)
    BY <1>1, Zenon DEF L1Mandatory, L1_Load, L1_WThru, L1_Atomic, L1_Replacement, L1WriteThrough,
       L1LeavesAlone, Deliver
  <1>5. ASSUME NEW d \in L1s, NEW type \in Requests, NEW b \in Addrs PROVE ~Issue(d, type, b)
    BY <1>1, Zenon DEF Issue
  <1>6. ~Tick /\ \A q \in L2ExpireTriggerQueue : ~L2_Expire(q) BY <1>1, Zenon DEF Tick, L2_Expire
  <1>7. ~L2_Replacement BY <1>1, Zenon DEF L2_Replacement
  <1>8. CASE L2_GETS
    <2> DEFINE b == in_msg.addr
               u == t_updateL2BlockTime(L2cache[b])
               live == u.liveUntilTime
               cs == {in_msg.src}
    <2>1. L1RequestToL2Cache # <<>> BY <1>8, Zenon DEF L2_GETS, L2Triggers
    <2>2. L2getState(b) \in {"E", "S", "SS"} /\ Respond(cs, "DATA", b, live)
      BY <1>1, <1>8, Zenon DEF L2_GETS
    <2>3. b \in Addrs /\ cs \subseteq L1s /\ now \in Nat BY <1>0, <2>1, Popped, Zenon DEF TypeOK
    <2>4. L2cache[b] \in L2Entries BY <2>3, L2StateFacts, Zenon
    <2>5. u \in L2Entries BY <2>3, <2>4, BlockTimeUpdate, Zenon
    <2> HIDE DEF u
    <2>6. live \in Nat BY <2>5, Zenon DEF L2Entries
    <2> HIDE DEF live, cs, b
    <2>7. FALSE BY <1>0, <2>2, <2>3, <2>6, PerformsAnswer, Zenon
    <2>8. QED BY <2>7, Zenon
  <1>9. CASE L2_Write \/ L2_Atomic
    <2>1. PICK type \in {"ACK", "DATA_ATOMIC"} : PerformWrite(type)
      BY <1>1, <1>9, Zenon DEF L2_Write, L2_Atomic, FetchForStore
    <2>2. L1RequestToL2Cache # <<>> BY <1>9, Zenon DEF L2_Write, L2_Atomic, L2Triggers
    <2>3. L2getState(in_msg.addr) = "E"
      BY <1>1, <1>9, Zenon DEF L2_Write, L2_Atomic, FetchForStore, MayWrite
    <2>4. in_msg.addr \in Addrs BY <1>0, <2>2, Popped, Zenon
    <2>5. Live(in_msg.addr) \subseteq {in_msg.src} BY <2>3, <2>4, ExpiredNoneLive, Zenon
    <2>6. QED BY <2>1, <2>2, <2>3, <2>5, ExclusiveWrite, Zenon
  <1>10. CASE L2_Upgrade_T
    <2>1. /\ L1RequestToL2Cache # <<>> /\ in_msg.type = "DATA_UPGRADE" /\ TimestampsMatch(in_msg)
          /\ L2getState(in_msg.addr) = "S" /\ PerformWrite("ACK")
      BY <1>0, <1>10, EventFacts, Zenon DEF L2_Upgrade_T
    <2>2. Live(in_msg.addr) \subseteq {in_msg.src} BY <2>1, UpgradeAlone, Zenon
    <2>3. QED BY <2>1, <2>2, ExclusiveWrite, Zenon
  <1>11. ASSUME NEW b \in Addrs, L2_Mem_Data(b) PROVE Readers(a) \subseteq {c}
    BY <1>11, ExclusiveStore, Zenon
  <1>12. QED
    BY <1>2, <1>3, <1>4, <1>5, <1>6, <1>7, <1>8, <1>9, <1>10, <1>11, Zenon DEF Next, L2Request

-----------------------------------------------------------------------------
(* The laws of counting are theorems about finite sets. *)
INSTANCE FiniteSetTheorems

\* The step lemmas may therefore be used without a hypothesis on cardinalities.
LEMMA CountingHolds == CountingLaws
  <1>1. CardinalityLaw BY FS_CardinalityType, Zenon DEF CardinalityLaw
  <1>2. EmptyLaw BY FS_EmptySet, Zenon DEF EmptyLaw
  <1>3. SingletonLaw BY FS_Singleton, Zenon DEF SingletonLaw
  <1>4. AddLaw BY FS_AddElement, Zenon DEF AddLaw
  <1>5. RemoveLaw BY FS_RemoveElement, Zenon DEF RemoveLaw
  <1>6. SubsetLaw BY FS_Subset, Zenon DEF SubsetLaw
  <1>7. IntervalLaw BY FS_Interval DEF IntervalLaw
  <1>8. ProductLaw BY FS_Product, Zenon DEF ProductLaw
  <1>9. ImageLaw
    <2>1. SUFFICES ASSUME NEW S, NEW f, IsFiniteSet(S), \A x, y \in S : f[x] = f[y] => x = y
                   PROVE  /\ IsFiniteSet({f[x] : x \in S})
                          /\ Cardinality({f[x] : x \in S}) = Cardinality(S)
      BY Zenon DEF ImageLaw
    <2>2. PICK g : g = [x \in S |-> f[x]] BY Zenon
    <2>3. g \in Bijection(S, {f[x] : x \in S})
      BY <2>1, <2>2 DEF Bijection, Injection, Surjection, IsInjective
    <2>4. QED BY <2>1, <2>3, FS_Bijection, Zenon DEF ExistsBijection
  <1>10. QED BY <1>1, <1>2, <1>3, <1>4, <1>5, <1>6, <1>7, <1>8, <1>9 DEF CountingLaws

-----------------------------------------------------------------------------
(* The theorems. *)

\* TC-Strong keeps its inductive invariant: in every reachable state of every instance
\* the tables of the L1s and of the L2 agree with each other and with the messages in
\* flight, and the leases out there are the ones the L2 has promised.
THEOREM LeaseStrongInvariant == Spec => []LeaseStrongInv
  <1>1. Init => LeaseStrongInv BY CountingHolds, InitInv
  <1>2. LeaseStrongInv /\ [Next]_vars => LeaseStrongInv' BY CountingHolds, NextInv
  <1>3. QED BY <1>1, <1>2, PTL DEF Spec

\* The pending counts of every TBE of an L1 are exact, and a TBE lives as long as
\* something is pending in it, whatever the interleaving of loads, writes, evictions,
\* fetches and responses.
THEOREM PendingCountsExact == Spec => []PendingMatch
  <1>1. LeaseStrongInv => PendingMatch BY StrongPending, Zenon
  <1>2. QED BY <1>1, LeaseStrongInvariant, PTL

\* No L1 ever holds, or has on its way, a lease beyond the time until which the L2
\* holds writes to the block back, through extensions, upgrades, evictions of either
\* cache and refetches.
THEOREM LeasesWithinPromise == Spec => []LeasesPromised
  <1>1. LeaseStrongInv => LeasesPromised BY StrongPromise, Zenon
  <1>2. QED BY <1>1, LeaseStrongInvariant, PTL

\* A write that DRAM does not have is in the L2 and marked dirty: no path through
\* fetch, fill, upgrade and replacement loses a store.
THEOREM NoWriteLost == Spec => []WritesKept
  <1>1. LeaseStrongInv => WritesKept BY Zenon DEF LeaseStrongInv
  <1>2. QED BY <1>1, LeaseStrongInvariant, PTL

\* The L2's state alone tells who may read a block: one L1 in S, any number in SS and
\* MI, none in every other state.
THEOREM SharersAreKnown == Spec => []SharersKnown
  <1>1. LeaseStrongInv => SharersKnown BY StrongSharers, CountingHolds, Zenon
  <1>2. QED BY <1>1, LeaseStrongInvariant, PTL

\* Every event a port of the L1s and of the L2 can trigger has a transition, and the
\* assertions of the ports and actions hold: no response finds an L1 without a TBE or
\* in a state that does not expect it, no load meets I_S, and no upgrade with the L2's
\* time stamp, fetch or expiry meets the L2 in a state that does not expect it.
THEOREM EventsAreHandled == Spec => []EventsHandled
  <1>1. LeaseStrongInv => EventsHandled BY StrongEvents, CountingHolds, Zenon
  <1>2. QED BY <1>1, LeaseStrongInvariant, PTL

\* Single writer: whenever the L2 performs a write, be it a store, an atomic, an
\* upgrade or a store that waited for its block, no L1 but the writer can read the old
\* data any more, neither from its copy nor from a response in flight.
THEOREM SingleWriter == Spec => WriteExclusive
  <1>1. LeaseStrongInv /\ [Next]_vars =>
          [\A c \in L1s, a \in Addrs : Performs(c, a) => Readers(a) \subseteq {c}]_vars
    BY CountingHolds, ExclusiveStep
  <1>2. QED BY <1>1, LeaseStrongInvariant, PTL DEF Spec, WriteExclusive

=============================================================================
