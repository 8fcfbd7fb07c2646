------------------------ MODULE CacheLease2Invariant ------------------------
(***************************************************************************)
(* The inductive invariant of the TC-Strong protocol, and facts about the  *)
(* queues, the tables and the time stamps that the proofs share.           *)
(***************************************************************************)
EXTENDS CacheLease2, Counting, TLAPS

\* The cache entry and the TBE of a block in an L1 agree: which transient state
\* goes with which entry, and what may be pending in it.  A core has one load of
\* the block outstanding at most.
L1BlockInv(c, a) ==
  LET e == L1cache[c][a]
      t == L1_TBEs[c][a]
  IN /\ t.TBEState \in {"NoTBE", "I_S", "I_I", "SM"}
     /\ t.TBEState = "NoTBE" => e.CacheState \in {"NotPresent", "I", "S"}
     /\ t.TBEState = "I_S" => e.CacheState = "I_S" /\ t.pendingWrites = 0
     /\ t.TBEState = "I_I" => e.CacheState \in {"NotPresent", "I_I"}
     /\ t.TBEState = "SM" => e.CacheState = "SM"
     /\ t.TBEState # "NoTBE" <=> t.pendingReads + t.pendingWrites > 0
     /\ t.pendingReads <= 1
     /\ mandatoryQueue[c] = [type |-> "LD", addr |-> a] => t.pendingReads = 0

\* The pending counts are exact.
CountInv(c, a) == ReadsMatch(c, a) /\ WritesMatch(c, a)

\* A write other than an upgrade takes the L1 out of SM until it is acknowledged, so
\* no answer to an atomic meets an L1 in SM.
AtomicInv(c, a) ==
  L1_TBEs[c][a].TBEState = "SM" =>
    /\ \A m \in Elements(requestFromL1Cache[c]) : m.addr = a => m.type # "DATA_ATOMIC"
    /\ \A m \in Elements(L1RequestToL2Cache) :
         m.addr = a /\ m.src = c => m.type # "DATA_ATOMIC"
    /\ L2_TBEs[a].TBEState = "IMA" => L2_TBEs[a].L1_WBAck_ID # c
    /\ \A m \in Elements(responseToL1Cache[c]) : m.addr = a => m.type # "DATA_ATOMIC"

\* The cache entry and the TBE of a block in the L2 agree.
L2BlockInv(a) ==
  LET e == L2cache[a]
      t == L2_TBEs[a]
  IN /\ t.TBEState \in {"NoTBE", "IS", "IM", "IMA", "MI"}
     /\ t.TBEState = "NoTBE" => t = NoL2TBE /\ e.CacheState \in {"NotPresent", "E", "S", "SS"}
     /\ t.TBEState = "IS" =>
          e.CacheState = "IS" /\ e.liveUntilTime = 0 /\ t.L1_WBAck_ID = NoL1
     /\ t.TBEState \in {"IM", "IMA"} =>
          /\ e.CacheState = t.TBEState /\ e.liveUntilTime = 0
          /\ t.L1_GetS_IDs = {} /\ t.L1_WBAck_ID \in L1s /\ t.Dirty
     /\ t.TBEState = "MI" =>
          e.CacheState = "NotPresent" /\ t.L1_GetS_IDs = {} /\ t.L1_WBAck_ID = NoL1

\* The L2's queues: a fetch is outstanding for blocks being fetched, and an expiry
\* message for an evicted block carries the end of its lease.
L2QueueInv ==
  /\ \A a \in GpusimDramBuffer : L2_TBEs[a].TBEState \in {"IS", "IM", "IMA"}
  /\ \A q \in L2ExpireTriggerQueue :
       L2_TBEs[q.addr].TBEState = "MI" /\ q.time = L2_TBEs[q.addr].liveUntilTime + 1

\* Every time stamp of a that c has: in its copy, in its TBE, in the upgrades it has
\* sent and in the leases on their way to it.
Stamps(c, a) ==
  (IF L1cache[c][a].CacheState \in {"S", "SM"} THEN {L1cache[c][a].liveUntilTime} ELSE {})
  \cup (IF L1_TBEs[c][a].TBEState = "SM" THEN {L1_TBEs[c][a].liveUntilTime} ELSE {})
  \cup {m.live : m \in {x \in Elements(requestFromL1Cache[c]) :
                          x.addr = a /\ x.type = "DATA_UPGRADE"}}
  \cup {m.live : m \in {x \in Elements(L1RequestToL2Cache) :
                          x.addr = a /\ x.src = c /\ x.type = "DATA_UPGRADE"}}
  \cup {m.live : m \in {x \in Elements(responseToL1Cache[c]) :
                          /\ x.addr = a
                          /\ x.type = "DATA" \/ (x.type = "ACK" /\ L1getState(c, a) = "SM")}}

\* A time stamp that has not run out is covered by the L2's, and a block that was
\* fetched for a store has an older one everywhere.
LeaseInv(a) ==
  /\ L2cache[a].CacheState = "E" => L2cache[a].liveUntilTime <= now
  /\ \A c \in L1s : \A t \in Stamps(c, a) :
       /\ t >= now => t <= Promised(a)
       /\ L2cache[a].CacheState = "E" => t < L2cache[a].liveUntilTime

\* The L1s with a time stamp that has not run out.
Live(a) == {c \in L1s : \E t \in Stamps(c, a) : t >= now}

\* In S there is one of them at most.
SingleInv(a) == L2getState(a) = "S" => \A c, d \in Live(a) : c = d

\* An L1 names itself in its requests.
SourceInv == \A c \in L1s : \A m \in Elements(requestFromL1Cache[c]) : m.src = c

LeaseStrongInv ==
  /\ TypeOK /\ now > 0
  /\ SourceInv
  /\ \A c \in L1s, a \in Addrs : L1BlockInv(c, a) /\ CountInv(c, a) /\ AtomicInv(c, a)
  /\ \A a \in Addrs : L2BlockInv(a) /\ LeaseInv(a) /\ SingleInv(a)
  /\ L2QueueInv
  /\ WritesKept

-----------------------------------------------------------------------------
(* Queues of messages. *)

\* The positions of the messages of one kind.
PlacesOf(s, T) == {i \in 1..Len(s) : s[i] \in T}

\* A queue has finitely many places, so the count is a number.
LEMMA PlacesFinite ==
  ASSUME CountingLaws, NEW M, NEW s \in Seq(M), NEW T
  PROVE  IsFiniteSet(PlacesOf(s, T)) /\ InFlight(s, T) = Cardinality(PlacesOf(s, T))
  <1>1. IsFiniteSet(1..Len(s))
    BY DEF CountingLaws, IntervalLaw
  <1>2. PlacesOf(s, T) \in SUBSET (1..Len(s))
    BY Zenon DEF PlacesOf
  <1>3. IsFiniteSet(PlacesOf(s, T))
    BY <1>1, <1>2, Zenon DEF CountingLaws, SubsetLaw
  <1>4. QED BY <1>3, Zenon DEF InFlight, PlacesOf

\* An empty queue holds nothing.
LEMMA EmptyQueue ==
  ASSUME CountingLaws, NEW T
  PROVE  Elements(<<>>) = {} /\ InFlight(<<>>, T) = 0
  <1>1. 1..Len(<<>>) = {}
    OBVIOUS
  <1>2. Elements(<<>>) = {}
    BY <1>1, Zenon DEF Elements
  <1>3. {i \in 1..Len(<<>>) : <<>>[i] \in T} = {}
    BY <1>1, Zenon
  <1>4. QED BY <1>2, <1>3, Zenon DEF CountingLaws, EmptyLaw, InFlight

\* A message of the kind T is in the queue exactly when the count is positive.
LEMMA CountPositive ==
  ASSUME CountingLaws, NEW M, NEW s \in Seq(M), NEW T
  PROVE  /\ InFlight(s, T) \in Nat
         /\ InFlight(s, T) > 0 <=> \E e \in Elements(s) : e \in T
  <1>1. IsFiniteSet(PlacesOf(s, T)) /\ InFlight(s, T) = Cardinality(PlacesOf(s, T))
    BY PlacesFinite, Zenon
  <1>2. InFlight(s, T) \in Nat
    BY <1>1, Zenon DEF CountingLaws, CardinalityLaw
  <1>3. InFlight(s, T) = 0 <=> PlacesOf(s, T) = {}
    BY <1>1, Zenon DEF CountingLaws, EmptyLaw
  <1>4. PlacesOf(s, T) # {} <=> \E e \in Elements(s) : e \in T
    BY Zenon DEF PlacesOf, Elements
  <1>5. QED BY <1>2, <1>3, <1>4

\* enqueue adds one message at the end.
LEMMA Enqueued ==
  ASSUME CountingLaws, NEW M, NEW s \in Seq(M), NEW e \in M, NEW T
  PROVE  /\ Append(s, e) \in Seq(M)
         /\ Elements(Append(s, e)) = Elements(s) \cup {e}
         /\ InFlight(Append(s, e), T) = InFlight(s, T) + (IF e \in T THEN 1 ELSE 0)
  <1> DEFINE n == Len(s) + 1
             r == Append(s, e)
  <1>1. /\ r \in Seq(M) /\ Len(r) = n /\ n \in Nat /\ n = Len(s) + 1 /\ Len(s) \in Nat
        /\ r[n] = e /\ \A i \in 1..Len(s) : r[i] = s[i]
    OBVIOUS
  <1> HIDE DEF n, r
  <1>2. Elements(r) = Elements(s) \cup {e}
    BY <1>1 DEF Elements
  <1>3. PlacesOf(r, T) = IF e \in T THEN PlacesOf(s, T) \cup {n} ELSE PlacesOf(s, T)
    BY <1>1 DEF PlacesOf
  <1>4. n \notin PlacesOf(s, T)
    BY <1>1 DEF PlacesOf
  <1>5. /\ IsFiniteSet(PlacesOf(s, T))
        /\ InFlight(s, T) = Cardinality(PlacesOf(s, T))
        /\ InFlight(r, T) = Cardinality(PlacesOf(r, T))
    BY <1>1, PlacesFinite, Zenon
  <1>6. Cardinality(PlacesOf(s, T) \cup {n}) = Cardinality(PlacesOf(s, T)) + 1
    BY <1>4, <1>5, Zenon DEF CountingLaws, AddLaw
  <1>7. InFlight(s, T) \in Nat
    BY CountPositive, Zenon
  <1>8. InFlight(r, T) = InFlight(s, T) + (IF e \in T THEN 1 ELSE 0)
    BY <1>3, <1>5, <1>6, <1>7
  <1>9. QED BY <1>1, <1>2, <1>8, Zenon DEF r

\* dequeue removes the message at the head.
LEMMA Dequeued ==
  ASSUME CountingLaws, NEW M, NEW s \in Seq(M), s # <<>>, NEW T
  PROVE  /\ Tail(s) \in Seq(M)
         /\ Head(s) \in M
         /\ Head(s) \in Elements(s)
         /\ Elements(s) = Elements(Tail(s)) \cup {Head(s)}
         /\ InFlight(s, T) = InFlight(Tail(s), T) + (IF Head(s) \in T THEN 1 ELSE 0)
  <1> DEFINE r == Tail(s)
             shift == [i \in PlacesOf(r, T) |-> i + 1]
  <1>1. /\ r \in Seq(M) /\ Len(r) = Len(s) - 1 /\ Len(s) \in Nat /\ Len(s) > 0
        /\ \A i \in 1..Len(r) : r[i] = s[i + 1]
        /\ Head(s) = s[1] /\ Head(s) \in M
    OBVIOUS
  <1> HIDE DEF r
  <1>2. \A j \in 2..Len(s) : j - 1 \in 1..Len(r) /\ r[j - 1] = s[j]
    BY <1>1
  <1>3. Elements(s) = Elements(r) \cup {Head(s)}
    <2>1. Elements(r) \cup {Head(s)} \subseteq Elements(s)
      BY <1>1 DEF Elements
    <2>2. ASSUME NEW i \in 1..Len(s) PROVE s[i] \in Elements(r) \cup {Head(s)}
      <3>1. CASE i = 1 BY <1>1, <3>1, Zenon
      <3>2. CASE i # 1
        <4>1. i \in 2..Len(s) BY <1>1, <3>2
        <4>2. QED BY <1>2, <4>1, Zenon DEF Elements
      <3>3. QED BY <3>1, <3>2, Zenon
    <2>3. QED BY <2>1, <2>2, Zenon DEF Elements
  <1>4. IsFiniteSet(PlacesOf(r, T)) /\ InFlight(r, T) = Cardinality(PlacesOf(r, T))
    BY <1>1, PlacesFinite, Zenon
  <1> DEFINE later == {i \in 2..Len(s) : s[i] \in T}
  <1>5. later = {shift[i] : i \in PlacesOf(r, T)}
    <2>1. \A i \in PlacesOf(r, T) : shift[i] = i + 1 /\ i + 1 \in later
      BY <1>1 DEF PlacesOf
    <2>2. ASSUME NEW j \in later PROVE \E i \in PlacesOf(r, T) : shift[i] = j
      <3>1. j - 1 \in PlacesOf(r, T) /\ j \in Nat
        BY <1>2 DEF PlacesOf
      <3>2. shift[j - 1] = j BY <3>1
      <3>3. QED BY <3>1, <3>2, Zenon
    <2>3. QED BY <2>1, <2>2, Zenon
  <1>6. IsFiniteSet(later) /\ Cardinality(later) = InFlight(r, T)
    <2>1. \A i, j \in PlacesOf(r, T) : shift[i] = shift[j] => i = j
      BY <1>1 DEF PlacesOf
    <2> HIDE DEF shift, later
    <2>2. QED BY <1>4, <1>5, <2>1 DEF CountingLaws, ImageLaw
  <1>7. PlacesOf(s, T) = IF Head(s) \in T THEN later \cup {1} ELSE later
    BY <1>1 DEF PlacesOf
  <1>8. 1 \notin later
    OBVIOUS
  <1> HIDE DEF later
  <1>9. Cardinality(later \cup {1}) = Cardinality(later) + 1
    BY <1>6, <1>8, Zenon DEF CountingLaws, AddLaw
  <1>10. InFlight(s, T) = Cardinality(PlacesOf(s, T))
    BY PlacesFinite, Zenon
  <1>11. InFlight(r, T) \in Nat
    BY <1>1, CountPositive, Zenon
  <1>12. InFlight(s, T) = InFlight(r, T) + (IF Head(s) \in T THEN 1 ELSE 0)
    BY <1>6, <1>7, <1>9, <1>10, <1>11
  <1>13. QED BY <1>1, <1>3, <1>12, Zenon DEF r

\* Whether c is among the recorded requestors, as a number.
LEMMA OneIfMember ==
  ASSUME CountingLaws, NEW S, NEW c
  PROVE  Cardinality({c} \cap S) = IF c \in S THEN 1 ELSE 0
  <1>1. {c} \cap S = IF c \in S THEN {c} ELSE {}
    BY Zenon
  <1>2. QED BY <1>1, Zenon DEF CountingLaws, EmptyLaw, SingletonLaw

-----------------------------------------------------------------------------
(* Facts about the tables and the stamps. *)

\* What getState of an L1 says about its entry and its TBE.
LEMMA L1StateFacts ==
  ASSUME LeaseStrongInv, NEW c \in L1s, NEW a \in Addrs
  PROVE  /\ L1getState(c, a) \in {"I", "S"} <=> L1_TBEs[c][a].TBEState = "NoTBE"
         /\ L1getState(c, a) = "S" =>
              L1cache[c][a].CacheState = "S" /\ L1cache[c][a].liveUntilTime >= now
         /\ L1getState(c, a) = "I_S" <=> L1_TBEs[c][a].TBEState = "I_S"
         /\ L1getState(c, a) = "SM" <=>
              L1_TBEs[c][a].TBEState = "SM" /\ L1_TBEs[c][a].liveUntilTime >= now
         /\ L1getState(c, a) = "I_I" =>
              \/ L1_TBEs[c][a].TBEState = "I_I"
              \/ L1_TBEs[c][a].TBEState = "SM" /\ L1_TBEs[c][a].liveUntilTime < now
         /\ L1getState(c, a) \in {"I", "S", "I_S", "SM", "I_I"}
  <1>1. L1cache[c][a] \in L1Entries /\ L1_TBEs[c][a] \in L1TBEs /\ now \in Nat
    BY Zenon DEF LeaseStrongInv, TypeOK
  <1>2. L1BlockInv(c, a)
    BY Zenon DEF LeaseStrongInv
  <1>3. QED
    BY <1>1, <1>2 DEF L1BlockInv, L1getState, L1_TBEs_isPresent, isL1CacheTagPresent,
       L1Entries, L1TBEs, L1States

\* The stamps of c for a, one by one.
LEMMA StampRule ==
  ASSUME NEW c \in L1s, NEW a \in Addrs, NEW t
  PROVE  t \in Stamps(c, a) <=>
           \/ L1cache[c][a].CacheState \in {"S", "SM"} /\ t = L1cache[c][a].liveUntilTime
           \/ L1_TBEs[c][a].TBEState = "SM" /\ t = L1_TBEs[c][a].liveUntilTime
           \/ \E m \in Elements(requestFromL1Cache[c]) :
                m.addr = a /\ m.type = "DATA_UPGRADE" /\ t = m.live
           \/ \E m \in Elements(L1RequestToL2Cache) :
                m.addr = a /\ m.src = c /\ m.type = "DATA_UPGRADE" /\ t = m.live
           \/ \E m \in Elements(responseToL1Cache[c]) :
                /\ m.addr = a /\ t = m.live
                /\ m.type = "DATA" \/ (m.type = "ACK" /\ L1getState(c, a) = "SM")
  BY Zenon DEF Stamps

\* The same after a step.
LEMMA StampRuleNext ==
  ASSUME NEW c \in L1s, NEW a \in Addrs, NEW t
  PROVE  t \in Stamps(c, a)' <=>
           \/ L1cache'[c][a].CacheState \in {"S", "SM"} /\ t = L1cache'[c][a].liveUntilTime
           \/ L1_TBEs'[c][a].TBEState = "SM" /\ t = L1_TBEs'[c][a].liveUntilTime
           \/ \E m \in Elements(requestFromL1Cache'[c]) :
                m.addr = a /\ m.type = "DATA_UPGRADE" /\ t = m.live
           \/ \E m \in Elements(L1RequestToL2Cache') :
                m.addr = a /\ m.src = c /\ m.type = "DATA_UPGRADE" /\ t = m.live
           \/ \E m \in Elements(responseToL1Cache'[c]) :
                /\ m.addr = a /\ t = m.live
                /\ m.type = "DATA" \/ (m.type = "ACK" /\ L1getState(c, a)' = "SM")
  BY Zenon DEF Stamps, Elements

\* The messages of a queue have their type.
LEMMA ElementsType ==
  ASSUME NEW M, NEW s \in Seq(M)
  PROVE  Elements(s) \subseteq M
  BY DEF Elements

\* Time stamps are numbers.
LEMMA StampsType ==
  ASSUME TypeOK, NEW c \in L1s, NEW a \in Addrs
  PROVE  Stamps(c, a) \subseteq Nat
  <1>1. L1cache[c][a] \in L1Entries /\ L1_TBEs[c][a] \in L1TBEs
    BY Zenon DEF TypeOK
  <1>2. /\ Elements(requestFromL1Cache[c]) \subseteq RequestMsgs
        /\ Elements(L1RequestToL2Cache) \subseteq RequestMsgs
        /\ Elements(responseToL1Cache[c]) \subseteq ResponseMsgs
    BY ElementsType, Zenon DEF TypeOK
  <1>3. QED
    BY <1>1, <1>2, StampRule DEF L1Entries, L1TBEs, RequestMsgs, ResponseMsgs

\* A step that leaves the L2 and the clock alone, and gives no L1 a new stamp,
\* preserves the L2's part of the invariant.
LEMMA L2Frame ==
  ASSUME LeaseStrongInv, UNCHANGED <<now, l2Vars>>,
         \A c \in L1s, a \in Addrs : Stamps(c, a)' \subseteq Stamps(c, a)
  PROVE  /\ \A a \in Addrs : L2BlockInv(a)' /\ LeaseInv(a)' /\ SingleInv(a)'
         /\ L2QueueInv'
         /\ WritesKept'
         /\ (now > 0)'
  <1>1. UNCHANGED <<now, L2cache, L2_TBEs, L2ExpireTriggerQueue, GpusimDramBuffer, unwritten>>
    BY Zenon DEF l2Vars
  <1>2. \A a \in Addrs : L2getState(a)' = L2getState(a) /\ Promised(a)' = Promised(a)
    BY <1>1 DEF L2getState, Promised, L2_TBEs_isPresent, isL2CacheTagPresent, L2isLive
  <1>3. \A a \in Addrs : L2BlockInv(a)'
    BY <1>1, Zenon DEF LeaseStrongInv, L2BlockInv
  <1>4. \A a \in Addrs : LeaseInv(a)'
    BY <1>1, <1>2, Zenon DEF LeaseStrongInv, LeaseInv
  <1>5. \A a \in Addrs : Live(a)' \subseteq Live(a)
    BY <1>1, Zenon DEF Live
  <1>6. \A a \in Addrs : SingleInv(a)'
    BY <1>2, <1>5, Zenon DEF LeaseStrongInv, SingleInv
  <1>7. L2QueueInv'
    BY <1>1, Zenon DEF LeaseStrongInv, L2QueueInv
  <1>8. WritesKept'
    BY <1>1, Zenon DEF LeaseStrongInv, WritesKept, L2_TBEs_isPresent
  <1>9. QED BY <1>1, <1>3, <1>4, <1>6, <1>7, <1>8, Zenon DEF LeaseStrongInv

=============================================================================
