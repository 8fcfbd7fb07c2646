------------------------- MODULE CacheLease2L1Steps -------------------------
(***************************************************************************)
(* The steps of the cores, the L1s, the network and the clock preserve the *)
(* inductive invariant of the TC-Strong protocol.                          *)
(***************************************************************************)
EXTENDS CacheLease2Invariant

-----------------------------------------------------------------------------
(* What an L1 does to a block: send a request, or take a response. *)

\* Four counts that add up to nothing.
LEMMA SumZero ==
  ASSUME NEW i \in Nat, NEW j \in Nat, NEW k \in Nat, NEW l \in Nat, i + j + k + l = 0
  PROVE  i = 0 /\ j = 0 /\ k = 0 /\ l = 0
  OBVIOUS

\* Writing one block of one cache leaves every other block alone.
LEMMA NestedUpdate ==
  ASSUME NEW S, NEW A, NEW V, NEW f \in [S -> [A -> V]], NEW g,
         NEW c \in S, NEW a \in A, NEW v \in V, g = [f EXCEPT ![c][a] = v]
  PROVE  /\ g \in [S -> [A -> V]]
         /\ g[c][a] = v
         /\ \A d \in S, b \in A : d # c \/ b # a => g[d][b] = f[d][b]
  BY Zenon

\* An L1 without a TBE has nothing in flight for the block.
LEMMA IdleBlock ==
  ASSUME CountingLaws, LeaseStrongInv, NEW c \in L1s, NEW a \in Addrs,
         L1_TBEs[c][a].TBEState = "NoTBE"
  PROVE  /\ L1_TBEs[c][a].pendingReads = 0 /\ L1_TBEs[c][a].pendingWrites = 0
         /\ \A m \in Elements(requestFromL1Cache[c]) : m.addr # a
         /\ \A m \in Elements(L1RequestToL2Cache) : m.src = c => m.addr # a
         /\ c \notin L2_TBEs[a].L1_GetS_IDs /\ c # L2_TBEs[a].L1_WBAck_ID
         /\ \A m \in Elements(responseToL1Cache[c]) : m.addr # a
  <1>0. TypeOK BY Zenon DEF LeaseStrongInv
  <1>1. L1BlockInv(c, a) /\ ReadsMatch(c, a) /\ WritesMatch(c, a)
    BY Zenon DEF LeaseStrongInv, CountInv
  <1>2. L1_TBEs[c][a] \in L1TBEs BY <1>0 DEF TypeOK
  <1>3. L1_TBEs[c][a].pendingReads = 0 /\ L1_TBEs[c][a].pendingWrites = 0
    BY <1>1, <1>2 DEF L1BlockInv, L1TBEs
  <1> DEFINE rs == requestFromL1Cache[c]
             qs == L1RequestToL2Cache
             as == responseToL1Cache[c]
  <1>4. rs \in Seq(RequestMsgs) /\ qs \in Seq(RequestMsgs) /\ as \in Seq(ResponseMsgs)
    BY <1>0, Zenon DEF TypeOK
  <1>5. /\ InFlight(rs, Reads(c, a)) \in Nat /\ InFlight(rs, Writes(c, a)) \in Nat
        /\ InFlight(qs, Reads(c, a)) \in Nat /\ InFlight(qs, Writes(c, a)) \in Nat
        /\ InFlight(as, Fills(a)) \in Nat /\ InFlight(as, Acks(a)) \in Nat
    BY <1>4, CountPositive, Zenon
  <1>6. /\ Cardinality({c} \cap L2_TBEs[a].L1_GetS_IDs) =
             IF c \in L2_TBEs[a].L1_GetS_IDs THEN 1 ELSE 0
        /\ Cardinality({c} \cap {L2_TBEs[a].L1_WBAck_ID}) =
             IF c = L2_TBEs[a].L1_WBAck_ID THEN 1 ELSE 0
    <2>1. c \in {L2_TBEs[a].L1_WBAck_ID} <=> c = L2_TBEs[a].L1_WBAck_ID BY Zenon
    <2>2. QED BY <2>1, OneIfMember, Zenon
  <1>7. /\ InFlight(rs, Reads(c, a)) = 0 /\ InFlight(qs, Reads(c, a)) = 0
        /\ InFlight(as, Fills(a)) = 0 /\ c \notin L2_TBEs[a].L1_GetS_IDs
    <2>1. InFlight(rs, Reads(c, a)) + InFlight(qs, Reads(c, a))
          + Cardinality({c} \cap L2_TBEs[a].L1_GetS_IDs) + InFlight(as, Fills(a)) = 0
      BY <1>1, <1>3, Zenon DEF ReadsMatch
    <2>2. Cardinality({c} \cap L2_TBEs[a].L1_GetS_IDs) \in Nat BY <1>6
    <2>3. QED BY <1>5, <1>6, <2>1, <2>2, SumZero
  <1>8. /\ InFlight(rs, Writes(c, a)) = 0 /\ InFlight(qs, Writes(c, a)) = 0
        /\ InFlight(as, Acks(a)) = 0 /\ c # L2_TBEs[a].L1_WBAck_ID
    <2>1. InFlight(rs, Writes(c, a)) + InFlight(qs, Writes(c, a))
          + Cardinality({c} \cap {L2_TBEs[a].L1_WBAck_ID}) + InFlight(as, Acks(a)) = 0
      BY <1>1, <1>3, Zenon DEF WritesMatch
    <2>2. Cardinality({c} \cap {L2_TBEs[a].L1_WBAck_ID}) \in Nat BY <1>6
    <2>3. QED BY <1>5, <1>6, <2>1, <2>2, SumZero
  <1>9. /\ \A m \in Elements(rs) : m \notin Reads(c, a) /\ m \notin Writes(c, a)
        /\ \A m \in Elements(qs) : m \notin Reads(c, a) /\ m \notin Writes(c, a)
        /\ \A m \in Elements(as) : m \notin Fills(a) /\ m \notin Acks(a)
    BY <1>4, <1>7, <1>8, CountPositive
  <1>10. /\ Elements(rs) \subseteq RequestMsgs /\ Elements(qs) \subseteq RequestMsgs
         /\ Elements(as) \subseteq ResponseMsgs
    BY <1>4, ElementsType, Zenon
  <1>11. \A m \in Elements(rs) : m.src = c
    BY Zenon DEF LeaseStrongInv, SourceInv
  <1>12. QED
    BY <1>3, <1>7, <1>8, <1>9, <1>10, <1>11, Zenon DEF Reads, Writes, Fills, Acks

\* The entry and the TBE that a transition of an L1 leaves agree.
Coupled(e, t) ==
  /\ e \in L1Entries /\ t \in L1TBEs
  /\ t.TBEState \in {"NoTBE", "I_S", "I_I", "SM"}
  /\ t.TBEState = "NoTBE" => e.CacheState \in {"NotPresent", "I", "S"}
  /\ t.TBEState = "I_S" => e.CacheState = "I_S" /\ t.pendingWrites = 0
  /\ t.TBEState = "I_I" => e.CacheState \in {"NotPresent", "I_I"}
  /\ t.TBEState = "SM" => e.CacheState = "SM"
  /\ t.TBEState # "NoTBE" <=> t.pendingReads + t.pendingWrites > 0
  /\ t.pendingReads <= 1

\* Arithmetic: nothing pending.
LEMMA NothingPending == ~(0 + 0 > 0) /\ 0 <= 1 /\ 0 - 0 = 0 /\ 1 - 1 = 0
  OBVIOUS

\* Arithmetic: a load pending, and perhaps writes.
LEMMA OnePending ==
  ASSUME NEW n \in Nat
  PROVE  1 + n > 0 /\ 1 <= 1
  OBVIOUS

\* c writes entry e and TBE t of block a.
L1Changes(c, a, e, t) ==
  /\ L1cache' = [L1cache EXCEPT ![c][a] = e]
  /\ L1_TBEs' = [L1_TBEs EXCEPT ![c][a] = t]

\* Everything the L1's block invariant depends on, for the blocks of all L1s.
LEMMA L1Blocks ==
  ASSUME LeaseStrongInv, NEW c \in L1s, NEW a \in Addrs, NEW e, NEW t, Coupled(e, t),
         L1Changes(c, a, e, t),
         \/ mandatoryQueue' = mandatoryQueue
         \/ mandatoryQueue' = [mandatoryQueue EXCEPT ![c] = NoRequest],
         mandatoryQueue'[c] = [type |-> "LD", addr |-> a] => t.pendingReads = 0
  PROVE  /\ L1cache' \in [L1s -> [Addrs -> L1Entries]]
         /\ L1_TBEs' \in [L1s -> [Addrs -> L1TBEs]]
         /\ mandatoryQueue' \in [L1s -> CoreRequests]
         /\ L1cache'[c][a] = e /\ L1_TBEs'[c][a] = t
         /\ \A d \in L1s, b \in Addrs : d # c \/ b # a =>
              L1cache'[d][b] = L1cache[d][b] /\ L1_TBEs'[d][b] = L1_TBEs[d][b]
         /\ \A d \in L1s, b \in Addrs : L1BlockInv(d, b)'
  <1>1. TypeOK BY Zenon DEF LeaseStrongInv
  <1>2. e \in L1Entries /\ t \in L1TBEs BY Zenon DEF Coupled
  <1>3. /\ L1cache' \in [L1s -> [Addrs -> L1Entries]]
        /\ L1cache'[c][a] = e
        /\ \A d \in L1s, b \in Addrs : d # c \/ b # a => L1cache'[d][b] = L1cache[d][b]
    BY <1>1, <1>2, NestedUpdate DEF TypeOK, L1Changes
  <1>4. /\ L1_TBEs' \in [L1s -> [Addrs -> L1TBEs]]
        /\ L1_TBEs'[c][a] = t
        /\ \A d \in L1s, b \in Addrs : d # c \/ b # a => L1_TBEs'[d][b] = L1_TBEs[d][b]
    BY <1>1, <1>2, NestedUpdate DEF TypeOK, L1Changes
  <1>5. /\ mandatoryQueue' \in [L1s -> CoreRequests]
        /\ \A d \in L1s : mandatoryQueue'[d] \in {mandatoryQueue[d], NoRequest}
    BY <1>1, Zenon DEF TypeOK, CoreRequests
  <1>6. NoRequest.type = "none"
    BY Zenon DEF NoRequest
  <1>7. ASSUME NEW d \in L1s, NEW b \in Addrs PROVE L1BlockInv(d, b)'
    <2>1. L1BlockInv(d, b) BY Zenon DEF LeaseStrongInv
    <2>2. CASE d = c /\ b = a
      BY <1>3, <1>4, <2>2, Zenon DEF L1BlockInv, Coupled
    <2>3. CASE d # c \/ b # a
      BY <1>3, <1>4, <1>5, <1>6, <2>1, <2>3 DEF L1BlockInv
    <2>4. QED BY <2>2, <2>3, Zenon
  <1>8. QED BY <1>3, <1>4, <1>5, <1>7, Zenon

\* A load or a write leaves c for the L2.
LEMMA L1Sent ==
  ASSUME CountingLaws, LeaseStrongInv, NEW c \in L1s, NEW a \in Addrs, NEW e, NEW t, Coupled(e, t),
         NEW m \in RequestMsgs, m.addr = a, m.src = c,
         L1Changes(c, a, e, t),
         requestFromL1Cache' = [requestFromL1Cache EXCEPT ![c] = Append(@, m)],
         mandatoryQueue' = [mandatoryQueue EXCEPT ![c] = NoRequest],
         UNCHANGED <<issued, now, l2Vars, L1RequestToL2Cache, responseToL1Cache>>,
         t.pendingReads = L1_TBEs[c][a].pendingReads + (IF m.type = "GETS" THEN 1 ELSE 0),
         t.pendingWrites = L1_TBEs[c][a].pendingWrites + (IF m.type = "GETS" THEN 0 ELSE 1),
         t.TBEState = "SM" => /\ m.type # "DATA_ATOMIC"
                              /\ L1_TBEs[c][a].TBEState \in {"NoTBE", "SM"}
                              /\ t.liveUntilTime \in Stamps(c, a)
                              /\ L1_TBEs[c][a].TBEState = "SM" =>
                                   t.liveUntilTime = L1_TBEs[c][a].liveUntilTime,
         e.CacheState \in {"S", "SM"} => e.liveUntilTime \in Stamps(c, a),
         m.type = "DATA_UPGRADE" => m.live \in Stamps(c, a)
  PROVE  LeaseStrongInv'
  <1>0. TypeOK BY Zenon DEF LeaseStrongInv
  <1>1. /\ L1cache' \in [L1s -> [Addrs -> L1Entries]]
        /\ L1_TBEs' \in [L1s -> [Addrs -> L1TBEs]]
        /\ mandatoryQueue' \in [L1s -> CoreRequests]
        /\ L1cache'[c][a] = e /\ L1_TBEs'[c][a] = t
        /\ \A d \in L1s, b \in Addrs : d # c \/ b # a =>
             L1cache'[d][b] = L1cache[d][b] /\ L1_TBEs'[d][b] = L1_TBEs[d][b]
        /\ \A d \in L1s, b \in Addrs : L1BlockInv(d, b)'
    <2>1. mandatoryQueue'[c] = NoRequest
      BY <1>0, Zenon DEF TypeOK
    <2>2. mandatoryQueue'[c] # [type |-> "LD", addr |-> a]
      BY <2>1 DEF NoRequest
    <2>3. QED BY <2>2, L1Blocks, Zenon
  <1>2. requestFromL1Cache[c] \in Seq(RequestMsgs)
    BY <1>0, Zenon DEF TypeOK
  <1>3. /\ Append(requestFromL1Cache[c], m) \in Seq(RequestMsgs)
        /\ Elements(Append(requestFromL1Cache[c], m)) = Elements(requestFromL1Cache[c]) \cup {m}
    BY <1>2, Enqueued
  <1>4. /\ requestFromL1Cache' \in [L1s -> Seq(RequestMsgs)]
        /\ requestFromL1Cache'[c] = Append(requestFromL1Cache[c], m)
        /\ \A d \in L1s \ {c} : requestFromL1Cache'[d] = requestFromL1Cache[d]
    BY <1>0, <1>3, Zenon DEF TypeOK
  <1>5. TypeOK'
    BY <1>0, <1>1, <1>4, Zenon DEF TypeOK, l2Vars
  <1>6. /\ Elements(requestFromL1Cache'[c]) = Elements(requestFromL1Cache[c]) \cup {m}
        /\ \A d \in L1s \ {c} : Elements(requestFromL1Cache'[d]) = Elements(requestFromL1Cache[d])
    BY <1>3, <1>4, Zenon
  <1>7. SourceInv'
    BY <1>6 DEF LeaseStrongInv, SourceInv, Elements
  <1>8. ASSUME NEW d \in L1s, NEW b \in Addrs PROVE CountInv(d, b)'
    <2>1. ReadsMatch(d, b) /\ WritesMatch(d, b) BY Zenon DEF LeaseStrongInv, CountInv
    <2>2. CASE d # c
      BY <1>1, <1>4, <2>1, <2>2 DEF CountInv, ReadsMatch, WritesMatch, l2Vars
    <2>3. CASE d = c
      <3>1. /\ InFlight(requestFromL1Cache'[c], Reads(c, b)) =
                 InFlight(requestFromL1Cache[c], Reads(c, b)) + (IF m \in Reads(c, b) THEN 1 ELSE 0)
            /\ InFlight(requestFromL1Cache'[c], Writes(c, b)) =
                 InFlight(requestFromL1Cache[c], Writes(c, b)) + (IF m \in Writes(c, b) THEN 1 ELSE 0)
        BY <1>2, <1>4, Enqueued
      <3>2. /\ m \in Reads(c, b) <=> b = a /\ m.type = "GETS"
            /\ m \in Writes(c, b) <=> b = a /\ m.type # "GETS"
        BY Zenon DEF Reads, Writes
      <3>3. /\ L1_TBEs'[c][b].pendingReads =
                 L1_TBEs[c][b].pendingReads + (IF m \in Reads(c, b) THEN 1 ELSE 0)
            /\ L1_TBEs'[c][b].pendingWrites =
                 L1_TBEs[c][b].pendingWrites + (IF m \in Writes(c, b) THEN 1 ELSE 0)
        <4>1. CASE b = a BY <1>1, <3>2, <4>1, Zenon
        <4>2. CASE b # a
          <5>1. L1_TBEs[c][b] \in L1TBEs /\ L1_TBEs'[c][b] = L1_TBEs[c][b]
            BY <1>0, <1>1, <4>2 DEF TypeOK
          <5>2. QED BY <3>2, <4>2, <5>1 DEF L1TBEs
        <4>3. QED BY <4>1, <4>2, Zenon
      <3>4. /\ UNCHANGED <<L1RequestToL2Cache, L2_TBEs, responseToL1Cache>>
        BY Zenon DEF l2Vars
      <3>5. /\ InFlight(requestFromL1Cache[c], Reads(c, b)) \in Nat
            /\ InFlight(requestFromL1Cache[c], Writes(c, b)) \in Nat
            /\ InFlight(L1RequestToL2Cache, Reads(c, b)) \in Nat
            /\ InFlight(L1RequestToL2Cache, Writes(c, b)) \in Nat
            /\ InFlight(responseToL1Cache[c], Fills(b)) \in Nat
            /\ InFlight(responseToL1Cache[c], Acks(b)) \in Nat
        BY <1>0, CountPositive, Zenon DEF TypeOK
      <3>6. /\ Cardinality({c} \cap L2_TBEs[b].L1_GetS_IDs) \in Nat
            /\ Cardinality({c} \cap {L2_TBEs[b].L1_WBAck_ID}) \in Nat
        BY OneIfMember
      <3>7. ReadsMatch(c, b)'
        <4>1. PICK i \in {0, 1} : i = IF m \in Reads(c, b) THEN 1 ELSE 0 BY Zenon
        <4>2. L1_TBEs[c][b].pendingReads + i =
                (InFlight(requestFromL1Cache[c], Reads(c, b)) + i)
                + InFlight(L1RequestToL2Cache, Reads(c, b))
                + Cardinality({c} \cap L2_TBEs[b].L1_GetS_IDs)
                + InFlight(responseToL1Cache[c], Fills(b))
          <5>1. PICK x \in Nat : x = InFlight(requestFromL1Cache[c], Reads(c, b)) BY <3>5, Zenon
          <5>2. PICK y \in Nat : y = InFlight(L1RequestToL2Cache, Reads(c, b)) BY <3>5, Zenon
          <5>3. PICK k \in Nat : k = Cardinality({c} \cap L2_TBEs[b].L1_GetS_IDs) BY <3>6, Zenon
          <5>4. PICK z \in Nat : z = InFlight(responseToL1Cache[c], Fills(b)) BY <3>5, Zenon
          <5>5. L1_TBEs[c][b].pendingReads = x + y + k + z
            BY <2>1, <2>3, <5>1, <5>2, <5>3, <5>4, Zenon DEF ReadsMatch
          <5>6. (x + y + k + z) + i = (x + i) + y + k + z OBVIOUS
          <5>7. QED BY <5>1, <5>2, <5>3, <5>4, <5>5, <5>6, Zenon
        <4>3. QED
          BY <3>1, <3>3, <3>4, <4>1, <4>2, Zenon DEF ReadsMatch, Reads, Fills
      <3>8. WritesMatch(c, b)'
        <4>1. PICK i \in {0, 1} : i = IF m \in Writes(c, b) THEN 1 ELSE 0 BY Zenon
        <4>2. L1_TBEs[c][b].pendingWrites + i =
                (InFlight(requestFromL1Cache[c], Writes(c, b)) + i)
                + InFlight(L1RequestToL2Cache, Writes(c, b))
                + Cardinality({c} \cap {L2_TBEs[b].L1_WBAck_ID})
                + InFlight(responseToL1Cache[c], Acks(b))
          <5>1. PICK x \in Nat : x = InFlight(requestFromL1Cache[c], Writes(c, b)) BY <3>5, Zenon
          <5>2. PICK y \in Nat : y = InFlight(L1RequestToL2Cache, Writes(c, b)) BY <3>5, Zenon
          <5>3. PICK k \in Nat : k = Cardinality({c} \cap {L2_TBEs[b].L1_WBAck_ID}) BY <3>6, Zenon
          <5>4. PICK z \in Nat : z = InFlight(responseToL1Cache[c], Acks(b)) BY <3>5, Zenon
          <5>5. L1_TBEs[c][b].pendingWrites = x + y + k + z
            BY <2>1, <2>3, <5>1, <5>2, <5>3, <5>4, Zenon DEF WritesMatch
          <5>6. (x + y + k + z) + i = (x + i) + y + k + z OBVIOUS
          <5>7. QED BY <5>1, <5>2, <5>3, <5>4, <5>5, <5>6, Zenon
        <4>3. QED
          BY <3>1, <3>3, <3>4, <4>1, <4>2, Zenon DEF WritesMatch, Writes, Acks
      <3>9. QED BY <2>3, <3>7, <3>8, Zenon DEF CountInv
    <2>4. QED BY <2>2, <2>3, Zenon
  <1>9. ASSUME NEW d \in L1s, NEW b \in Addrs PROVE AtomicInv(d, b)'
    <2>1. AtomicInv(d, b) BY Zenon DEF LeaseStrongInv
    <2>2. UNCHANGED <<L2_TBEs, L1RequestToL2Cache, responseToL1Cache>> BY Zenon DEF l2Vars
    <2>3. CASE d # c \/ b # a
      <3>1. L1_TBEs'[d][b] = L1_TBEs[d][b] BY <1>1, <2>3, Zenon
      <3>2. \A x \in Elements(requestFromL1Cache'[d]) :
              x \in Elements(requestFromL1Cache[d]) \/ x.addr # b
        BY <1>6, <2>3, Zenon
      <3>3. QED BY <2>1, <2>2, <3>1, <3>2 DEF AtomicInv, Elements
    <2>4. CASE d = c /\ b = a /\ t.TBEState = "SM"
      <3>1. m.type # "DATA_ATOMIC" BY <2>4, Zenon
      <3>2. CASE L1_TBEs[c][a].TBEState = "SM"
        BY <1>6, <2>1, <2>2, <2>4, <3>1, <3>2 DEF AtomicInv, Elements
      <3>3. CASE L1_TBEs[c][a].TBEState = "NoTBE"
        BY <1>6, <2>2, <2>4, <3>1, <3>3, IdleBlock DEF AtomicInv, Elements
      <3>4. QED BY <2>4, <3>2, <3>3, Zenon
    <2>5. CASE d = c /\ b = a /\ t.TBEState # "SM"
      BY <1>1, <2>5, Zenon DEF AtomicInv
    <2>6. QED BY <2>3, <2>4, <2>5, Zenon
  <1>10. ASSUME NEW d \in L1s, NEW b \in Addrs PROVE Stamps(d, b)' \subseteq Stamps(d, b)
    <2> SUFFICES ASSUME NEW x \in Stamps(d, b)' PROVE x \in Stamps(d, b)
      BY Zenon
    <2>1. UNCHANGED <<now, L1RequestToL2Cache, responseToL1Cache>> BY Zenon
    <2>2. CASE d # c \/ b # a
      <3>1. L1cache'[d][b] = L1cache[d][b] /\ L1_TBEs'[d][b] = L1_TBEs[d][b] BY <1>1, <2>2, Zenon
      <3>2. L1getState(d, b)' = L1getState(d, b)
        BY <2>1, <3>1, Zenon DEF L1getState, L1_TBEs_isPresent, isL1CacheTagPresent
      <3>3. \A y \in Elements(requestFromL1Cache'[d]) :
              y \in Elements(requestFromL1Cache[d]) \/ y.addr # b
        BY <1>6, <2>2, Zenon
      <3>4. QED BY <2>1, <3>1, <3>2, <3>3, StampRule, StampRuleNext
    <2>3. CASE d = c /\ b = a
      <3>1. L1cache'[c][a] = e /\ L1_TBEs'[c][a] = t BY <1>1, Zenon
      <3>2. ASSUME NEW y \in Elements(responseToL1Cache[c]), y.addr = a,
                   L1getState(c, a)' = "SM"
            PROVE  L1getState(c, a) = "SM"
        <4>1. L1_TBEs[c][a].TBEState # "NoTBE" BY <3>2, IdleBlock
        <4>2. t.TBEState = "SM" /\ ~(t.liveUntilTime < now)
          <5>1. e.CacheState \in L1States \cup {"NotPresent"} BY Zenon DEF Coupled, L1Entries
          <5>2. QED
            BY <2>1, <3>1, <3>2, <5>1, Zenon DEF Coupled, L1getState, L1_TBEs_isPresent,
               isL1CacheTagPresent
        <4>3. L1_TBEs[c][a].TBEState = "SM" /\ L1_TBEs[c][a].liveUntilTime = t.liveUntilTime
          BY <4>1, <4>2, Zenon
        <4>4. QED BY <4>2, <4>3, Zenon DEF L1getState, L1_TBEs_isPresent
      <3>3. QED BY <1>6, <2>1, <2>3, <3>1, <3>2, StampRule, StampRuleNext
    <2>4. QED BY <2>2, <2>3, Zenon
  <1>11. QED
    BY <1>1, <1>5, <1>7, <1>8, <1>9, <1>10, L2Frame, Zenon DEF LeaseStrongInv

\* A response meets a TBE that waits for it.
LEMMA ResponseFacts ==
  ASSUME CountingLaws, LeaseStrongInv, NEW c \in L1s, responseToL1Cache[c] # <<>>
  PROVE  LET m == Head(responseToL1Cache[c])
             t == L1_TBEs[c][m.addr]
         IN /\ m \in ResponseMsgs /\ m \in Elements(responseToL1Cache[c])
            /\ m.addr \in Addrs
            /\ m.type = "DATA" => t.pendingReads = 1
            /\ m.type # "DATA" => t.pendingWrites > 0
            /\ t.TBEState # "NoTBE"
  <1>0. TypeOK BY Zenon DEF LeaseStrongInv
  <1> DEFINE m == Head(responseToL1Cache[c])
             a == m.addr
  <1>1. responseToL1Cache[c] \in Seq(ResponseMsgs) BY <1>0, Zenon DEF TypeOK
  <1>2. m \in ResponseMsgs /\ m \in Elements(responseToL1Cache[c])
    BY <1>1, Dequeued, Zenon
  <1>3. a \in Addrs BY <1>2, Zenon DEF ResponseMsgs
  <1> HIDE DEF m
  <1>4. L1_TBEs[c][a] \in L1TBEs /\ L1BlockInv(c, a) /\ ReadsMatch(c, a) /\ WritesMatch(c, a)
    BY <1>0, <1>3, Zenon DEF TypeOK, LeaseStrongInv, CountInv
  <1>5. /\ InFlight(requestFromL1Cache[c], Reads(c, a)) \in Nat
        /\ InFlight(requestFromL1Cache[c], Writes(c, a)) \in Nat
        /\ InFlight(L1RequestToL2Cache, Reads(c, a)) \in Nat
        /\ InFlight(L1RequestToL2Cache, Writes(c, a)) \in Nat
        /\ InFlight(responseToL1Cache[c], Fills(a)) \in Nat
        /\ InFlight(responseToL1Cache[c], Acks(a)) \in Nat
    BY <1>0, CountPositive, Zenon DEF TypeOK
  <1>6. /\ Cardinality({c} \cap L2_TBEs[a].L1_GetS_IDs) \in Nat
        /\ Cardinality({c} \cap {L2_TBEs[a].L1_WBAck_ID}) \in Nat
    BY OneIfMember
  <1>7. ASSUME m.type = "DATA" PROVE L1_TBEs[c][a].pendingReads = 1
    <2>1. m \in Fills(a) BY <1>2, <1>7, Zenon DEF Fills
    <2>2. InFlight(responseToL1Cache[c], Fills(a)) > 0 BY <1>1, <1>2, <2>1, CountPositive, Zenon
    <2>3. L1_TBEs[c][a].pendingReads # 0
      BY <1>4, <1>5, <1>6, <2>2, SumZero DEF ReadsMatch
    <2>4. L1_TBEs[c][a].pendingReads \in Nat /\ L1_TBEs[c][a].pendingReads <= 1
      BY <1>4, Zenon DEF L1TBEs, L1BlockInv
    <2>5. QED BY <2>3, <2>4
  <1>8. ASSUME m.type # "DATA" PROVE L1_TBEs[c][a].pendingWrites > 0
    <2>1. m \in Acks(a) BY <1>2, <1>8, Zenon DEF Acks
    <2>2. InFlight(responseToL1Cache[c], Acks(a)) > 0 BY <1>1, <1>2, <2>1, CountPositive, Zenon
    <2>3. L1_TBEs[c][a].pendingWrites # 0
      BY <1>4, <1>5, <1>6, <2>2, SumZero DEF WritesMatch
    <2>4. L1_TBEs[c][a].pendingWrites \in Nat BY <1>4, Zenon DEF L1TBEs
    <2>5. QED BY <2>3, <2>4
  <1>9. L1_TBEs[c][a].TBEState # "NoTBE"
    BY <1>4, <1>7, <1>8 DEF L1BlockInv, L1TBEs
  <1>10. QED BY <1>2, <1>3, <1>7, <1>8, <1>9, Zenon DEF m

\* A response reaches c and is taken from its queue.
LEMMA L1Received ==
  ASSUME CountingLaws, LeaseStrongInv, NEW c \in L1s, NEW a \in Addrs, NEW e, NEW t, Coupled(e, t),
         responseToL1Cache[c] # <<>>, NEW m, m = Head(responseToL1Cache[c]), m.addr = a,
         L1Changes(c, a, e, t),
         responseToL1Cache' = [responseToL1Cache EXCEPT ![c] = Tail(@)],
         UNCHANGED <<now, coreVars, l2Vars, requestFromL1Cache, L1RequestToL2Cache>>,
         t.pendingReads = L1_TBEs[c][a].pendingReads - (IF m.type = "DATA" THEN 1 ELSE 0),
         t.pendingWrites = L1_TBEs[c][a].pendingWrites - (IF m.type = "DATA" THEN 0 ELSE 1),
         t.TBEState = "SM" => /\ L1_TBEs[c][a].TBEState = "SM"
                              /\ t.liveUntilTime = L1_TBEs[c][a].liveUntilTime,
         e.CacheState \in {"S", "SM"} => e.liveUntilTime \in Stamps(c, a)
  PROVE  LeaseStrongInv'
  <1>0. TypeOK BY Zenon DEF LeaseStrongInv
  <1>1. /\ L1cache' \in [L1s -> [Addrs -> L1Entries]]
        /\ L1_TBEs' \in [L1s -> [Addrs -> L1TBEs]]
        /\ L1cache'[c][a] = e /\ L1_TBEs'[c][a] = t
        /\ \A d \in L1s, b \in Addrs : d # c \/ b # a =>
             L1cache'[d][b] = L1cache[d][b] /\ L1_TBEs'[d][b] = L1_TBEs[d][b]
        /\ \A d \in L1s, b \in Addrs : L1BlockInv(d, b)'
    <2>1. mandatoryQueue' = mandatoryQueue BY Zenon DEF coreVars
    <2>2. mandatoryQueue[c] = [type |-> "LD", addr |-> a] => t.pendingReads = 0
      <3>1. L1BlockInv(c, a) BY Zenon DEF LeaseStrongInv
      <3>2. t \in L1TBEs /\ L1_TBEs[c][a] \in L1TBEs BY <1>0, Zenon DEF TypeOK, Coupled
      <3>3. QED BY <3>1, <3>2 DEF L1BlockInv, L1TBEs
    <2>3. QED BY <2>1, <2>2, L1Blocks
  <1>2. responseToL1Cache[c] \in Seq(ResponseMsgs)
    BY <1>0, Zenon DEF TypeOK
  <1>3. /\ Tail(responseToL1Cache[c]) \in Seq(ResponseMsgs)
        /\ m \in ResponseMsgs /\ m \in Elements(responseToL1Cache[c])
        /\ Elements(Tail(responseToL1Cache[c])) \subseteq Elements(responseToL1Cache[c])
    BY <1>2, Dequeued
  <1>4. /\ responseToL1Cache' \in [L1s -> Seq(ResponseMsgs)]
        /\ responseToL1Cache'[c] = Tail(responseToL1Cache[c])
        /\ \A d \in L1s \ {c} : responseToL1Cache'[d] = responseToL1Cache[d]
    BY <1>0, <1>3, Zenon DEF TypeOK
  <1>5. TypeOK'
    BY <1>0, <1>1, <1>4, Zenon DEF TypeOK, l2Vars, coreVars
  <1>6. \A d \in L1s : Elements(responseToL1Cache'[d]) \subseteq Elements(responseToL1Cache[d])
    BY <1>3, <1>4, Zenon
  <1>7. SourceInv'
    BY Zenon DEF LeaseStrongInv, SourceInv
  <1>8. ASSUME NEW d \in L1s, NEW b \in Addrs PROVE CountInv(d, b)'
    <2>1. ReadsMatch(d, b) /\ WritesMatch(d, b) BY Zenon DEF LeaseStrongInv, CountInv
    <2>2. CASE d # c
      BY <1>1, <1>4, <2>1, <2>2, Zenon DEF CountInv, ReadsMatch, WritesMatch, l2Vars
    <2>3. CASE d = c
      <3>1. /\ InFlight(responseToL1Cache[c], Fills(b)) =
                 InFlight(responseToL1Cache'[c], Fills(b)) + (IF m \in Fills(b) THEN 1 ELSE 0)
            /\ InFlight(responseToL1Cache[c], Acks(b)) =
                 InFlight(responseToL1Cache'[c], Acks(b)) + (IF m \in Acks(b) THEN 1 ELSE 0)
        BY <1>2, <1>4, Dequeued
      <3>2. /\ m \in Fills(b) <=> b = a /\ m.type = "DATA"
            /\ m \in Acks(b) <=> b = a /\ m.type # "DATA"
        BY <1>3, Zenon DEF Fills, Acks
      <3>3. /\ L1_TBEs'[c][b].pendingReads =
                 L1_TBEs[c][b].pendingReads - (IF m \in Fills(b) THEN 1 ELSE 0)
            /\ L1_TBEs'[c][b].pendingWrites =
                 L1_TBEs[c][b].pendingWrites - (IF m \in Acks(b) THEN 1 ELSE 0)
        <4>1. CASE b = a BY <1>1, <3>2, <4>1, Zenon
        <4>2. CASE b # a
          <5>1. L1_TBEs[c][b] \in L1TBEs /\ L1_TBEs'[c][b] = L1_TBEs[c][b]
            BY <1>0, <1>1, <4>2, Zenon DEF TypeOK
          <5>2. QED BY <3>2, <4>2, <5>1 DEF L1TBEs
        <4>3. QED BY <4>1, <4>2, Zenon
      <3>4. UNCHANGED <<requestFromL1Cache, L1RequestToL2Cache, L2_TBEs>>
        BY Zenon DEF l2Vars
      <3>5. /\ InFlight(requestFromL1Cache[c], Reads(c, b)) \in Nat
            /\ InFlight(requestFromL1Cache[c], Writes(c, b)) \in Nat
            /\ InFlight(L1RequestToL2Cache, Reads(c, b)) \in Nat
            /\ InFlight(L1RequestToL2Cache, Writes(c, b)) \in Nat
            /\ InFlight(responseToL1Cache'[c], Fills(b)) \in Nat
            /\ InFlight(responseToL1Cache'[c], Acks(b)) \in Nat
        BY <1>0, <1>3, <1>4, CountPositive, Zenon DEF TypeOK
      <3>6. /\ Cardinality({c} \cap L2_TBEs[b].L1_GetS_IDs) \in Nat
            /\ Cardinality({c} \cap {L2_TBEs[b].L1_WBAck_ID}) \in Nat
        BY OneIfMember
      <3>7. ReadsMatch(c, b)'
        <4>1. PICK i \in {0, 1} : i = IF m \in Fills(b) THEN 1 ELSE 0 BY Zenon
        <4>2. InFlight(responseToL1Cache[c], Fills(b)) =
                InFlight(responseToL1Cache'[c], Fills(b)) + i
          BY <3>1, <4>1, Zenon
        <4>3. L1_TBEs[c][b].pendingReads - i =
                InFlight(requestFromL1Cache[c], Reads(c, b))
                + InFlight(L1RequestToL2Cache, Reads(c, b))
                + Cardinality({c} \cap L2_TBEs[b].L1_GetS_IDs)
                + InFlight(responseToL1Cache'[c], Fills(b))
          <5>1. PICK x \in Nat : x = InFlight(requestFromL1Cache[c], Reads(c, b)) BY <3>5, Zenon
          <5>2. PICK y \in Nat : y = InFlight(L1RequestToL2Cache, Reads(c, b)) BY <3>5, Zenon
          <5>3. PICK k \in Nat : k = Cardinality({c} \cap L2_TBEs[b].L1_GetS_IDs) BY <3>6, Zenon
          <5>4. PICK z \in Nat : z = InFlight(responseToL1Cache'[c], Fills(b)) BY <3>5, Zenon
          <5>5. L1_TBEs[c][b].pendingReads = x + y + k + (z + i)
            BY <2>1, <2>3, <4>2, <5>1, <5>2, <5>3, <5>4, Zenon DEF ReadsMatch
          <5>6. (x + y + k + (z + i)) - i = x + y + k + z OBVIOUS
          <5>7. QED BY <5>1, <5>2, <5>3, <5>4, <5>5, <5>6, Zenon
        <4>4. QED
          BY <3>3, <3>4, <4>1, <4>3, Zenon DEF ReadsMatch, Reads, Fills
      <3>8. WritesMatch(c, b)'
        <4>1. PICK i \in {0, 1} : i = IF m \in Acks(b) THEN 1 ELSE 0 BY Zenon
        <4>2. InFlight(responseToL1Cache[c], Acks(b)) =
                InFlight(responseToL1Cache'[c], Acks(b)) + i
          BY <3>1, <4>1, Zenon
        <4>3. L1_TBEs[c][b].pendingWrites - i =
                InFlight(requestFromL1Cache[c], Writes(c, b))
                + InFlight(L1RequestToL2Cache, Writes(c, b))
                + Cardinality({c} \cap {L2_TBEs[b].L1_WBAck_ID})
                + InFlight(responseToL1Cache'[c], Acks(b))
          <5>1. PICK x \in Nat : x = InFlight(requestFromL1Cache[c], Writes(c, b)) BY <3>5, Zenon
          <5>2. PICK y \in Nat : y = InFlight(L1RequestToL2Cache, Writes(c, b)) BY <3>5, Zenon
          <5>3. PICK k \in Nat : k = Cardinality({c} \cap {L2_TBEs[b].L1_WBAck_ID}) BY <3>6, Zenon
          <5>4. PICK z \in Nat : z = InFlight(responseToL1Cache'[c], Acks(b)) BY <3>5, Zenon
          <5>5. L1_TBEs[c][b].pendingWrites = x + y + k + (z + i)
            BY <2>1, <2>3, <4>2, <5>1, <5>2, <5>3, <5>4, Zenon DEF WritesMatch
          <5>6. (x + y + k + (z + i)) - i = x + y + k + z OBVIOUS
          <5>7. QED BY <5>1, <5>2, <5>3, <5>4, <5>5, <5>6, Zenon
        <4>4. QED
          BY <3>3, <3>4, <4>1, <4>3, Zenon DEF WritesMatch, Writes, Acks
      <3>9. QED BY <2>3, <3>7, <3>8, Zenon DEF CountInv
    <2>4. QED BY <2>2, <2>3, Zenon
  <1>9. ASSUME NEW d \in L1s, NEW b \in Addrs PROVE AtomicInv(d, b)'
    <2>1. AtomicInv(d, b) BY Zenon DEF LeaseStrongInv
    <2>2. UNCHANGED <<L2_TBEs, L1RequestToL2Cache, requestFromL1Cache>> BY Zenon DEF l2Vars
    <2>3. L1_TBEs'[d][b].TBEState = "SM" => L1_TBEs[d][b].TBEState = "SM" BY <1>1, Zenon
    <2>4. QED BY <1>6, <2>1, <2>2, <2>3 DEF AtomicInv, Elements
  <1>10. ASSUME NEW d \in L1s, NEW b \in Addrs PROVE Stamps(d, b)' \subseteq Stamps(d, b)
    <2> SUFFICES ASSUME NEW x \in Stamps(d, b)' PROVE x \in Stamps(d, b)
      BY Zenon
    <2>1. UNCHANGED <<now, L1RequestToL2Cache, requestFromL1Cache>> BY Zenon
    <2>2. L1getState(d, b)' = "SM" => L1getState(d, b) = "SM"
      <3>1. CASE d # c \/ b # a
        BY <1>1, <2>1, <3>1 DEF L1getState, L1_TBEs_isPresent, isL1CacheTagPresent
      <3>2. CASE d = c /\ b = a
        <4>1. e.CacheState \in L1States \cup {"NotPresent"} BY Zenon DEF Coupled, L1Entries
        <4>2. QED
          BY <1>1, <2>1, <3>2, <4>1, Zenon DEF Coupled, L1getState, L1_TBEs_isPresent,
             isL1CacheTagPresent
      <3>3. QED BY <3>1, <3>2, Zenon
    <2>3. L1cache'[d][b].CacheState \in {"S", "SM"} => L1cache'[d][b].liveUntilTime \in Stamps(d, b)
      <3>1. L1cache[d][b].CacheState \in {"S", "SM"} => L1cache[d][b].liveUntilTime \in Stamps(d, b)
        BY StampRule, Zenon
      <3>2. CASE d # c \/ b # a BY <1>1, <3>1, <3>2, Zenon
      <3>3. CASE d = c /\ b = a BY <1>1, <3>1, <3>3, Zenon
      <3>4. QED BY <3>2, <3>3, Zenon
    <2>4. L1_TBEs'[d][b].TBEState = "SM" => L1_TBEs'[d][b].liveUntilTime \in Stamps(d, b)
      <3>1. L1_TBEs[d][b].TBEState = "SM" => L1_TBEs[d][b].liveUntilTime \in Stamps(d, b)
        BY StampRule, Zenon
      <3>2. CASE d # c \/ b # a BY <1>1, <3>1, <3>2, Zenon
      <3>3. CASE d = c /\ b = a BY <1>1, <3>1, <3>3, Zenon
      <3>4. QED BY <3>2, <3>3, Zenon
    <2>5. \A y \in Elements(responseToL1Cache'[d]) :
            y.addr = b /\ (y.type = "DATA" \/ (y.type = "ACK" /\ L1getState(d, b)' = "SM"))
              => y.live \in Stamps(d, b)
      <3>1. \A y \in Elements(responseToL1Cache[d]) :
              y.addr = b /\ (y.type = "DATA" \/ (y.type = "ACK" /\ L1getState(d, b) = "SM"))
                => y.live \in Stamps(d, b)
        BY StampRule, Zenon
      <3>2. QED BY <1>6, <2>2, <3>1, Zenon
    <2>6. QED BY <2>1, <2>3, <2>4, <2>5, StampRule, StampRuleNext
  <1>11. QED
    BY <1>1, <1>5, <1>7, <1>8, <1>9, <1>10, L2Frame, Zenon DEF LeaseStrongInv

\* A step of a core or an L1 that sends nothing and takes nothing.
LEMMA L1Quiet ==
  ASSUME LeaseStrongInv, TypeOK',
         UNCHANGED <<now, L1_TBEs, l2Vars, requestFromL1Cache, L1RequestToL2Cache,
                     responseToL1Cache>>,
         \A c \in L1s, a \in Addrs : L1BlockInv(c, a)',
         \A c \in L1s, a \in Addrs : L1cache'[c][a] \in {L1cache[c][a], NoL1Entry}
  PROVE  LeaseStrongInv'
  <1>1. SourceInv'
    BY Zenon DEF LeaseStrongInv, SourceInv
  <1>2. \A c \in L1s, a \in Addrs : CountInv(c, a)'
    BY Zenon DEF LeaseStrongInv, CountInv, ReadsMatch, WritesMatch, l2Vars
  <1>3. \A c \in L1s, a \in Addrs : AtomicInv(c, a)'
    BY Zenon DEF LeaseStrongInv, AtomicInv, l2Vars
  <1>4. ASSUME NEW c \in L1s, NEW a \in Addrs PROVE Stamps(c, a)' \subseteq Stamps(c, a)
    <2>1. L1cache'[c][a] = L1cache[c][a] \/ L1cache'[c][a].CacheState = "NotPresent"
      BY DEF NoL1Entry
    <2>2. L1cache[c][a].CacheState \in L1States \cup {"NotPresent"}
      BY DEF LeaseStrongInv, TypeOK, L1Entries
    <2>3. L1getState(c, a)' = "SM" => L1getState(c, a) = "SM"
      BY <2>1, <2>2, Zenon DEF L1getState, L1_TBEs_isPresent, isL1CacheTagPresent
    <2>4. QED BY <2>1, <2>3, StampRule, StampRuleNext
  <1>5. QED
    BY <1>1, <1>2, <1>3, <1>4, L2Frame, Zenon DEF LeaseStrongInv

\* Writing a field of an entry or of a TBE leaves its other fields alone.
LEMMA EntryStateUpdate ==
  ASSUME NEW e \in L1Entries, NEW s \in L1States
  PROVE  LET u == [e EXCEPT !.CacheState = s]
         IN u \in L1Entries /\ u.CacheState = s /\ u.liveUntilTime = e.liveUntilTime
  BY Zenon DEF L1Entries

\* The fields of an L1 entry after its lease is set.
LEMMA EntryTimeUpdate ==
  ASSUME NEW e \in L1Entries, NEW l \in Nat
  PROVE  LET u == [e EXCEPT !.liveUntilTime = l]
         IN u \in L1Entries /\ u.CacheState = e.CacheState /\ u.liveUntilTime = l
  BY Zenon DEF L1Entries

\* The fields of an L1 TBE after its state is set.
LEMMA TBEStateUpdate ==
  ASSUME NEW t \in L1TBEs, NEW s \in L1States
  PROVE  LET u == [t EXCEPT !.TBEState = s]
         IN /\ u \in L1TBEs /\ u.TBEState = s /\ u.liveUntilTime = t.liveUntilTime
            /\ u.pendingReads = t.pendingReads /\ u.pendingWrites = t.pendingWrites
  BY Zenon DEF L1TBEs

\* A request more is pending.
LEMMA TBECountsUp ==
  ASSUME NEW t \in L1TBEs
  PROVE  LET r == pr_incPendingRead(t)
             w == [t EXCEPT !.pendingWrites = @ + 1]
         IN /\ r \in L1TBEs /\ r.TBEState = t.TBEState /\ r.liveUntilTime = t.liveUntilTime
            /\ r.pendingReads = t.pendingReads + 1 /\ r.pendingWrites = t.pendingWrites
            /\ w \in L1TBEs /\ w.TBEState = t.TBEState /\ w.liveUntilTime = t.liveUntilTime
            /\ w.pendingReads = t.pendingReads /\ w.pendingWrites = t.pendingWrites + 1
  BY DEF L1TBEs, pr_incPendingRead

\* A request less is pending.
LEMMA TBEReadsDown ==
  ASSUME NEW t \in L1TBEs, t.pendingReads > 0
  PROVE  LET r == [t EXCEPT !.pendingReads = @ - 1]
         IN /\ r \in L1TBEs /\ r.TBEState = t.TBEState /\ r.liveUntilTime = t.liveUntilTime
            /\ r.pendingReads = t.pendingReads - 1 /\ r.pendingWrites = t.pendingWrites
  BY DEF L1TBEs

\* The fields of an L1 TBE after one write is answered.
LEMMA TBEWritesDown ==
  ASSUME NEW t \in L1TBEs, t.pendingWrites > 0
  PROVE  LET w == [t EXCEPT !.pendingWrites = @ - 1]
         IN /\ w \in L1TBEs /\ w.TBEState = t.TBEState /\ w.liveUntilTime = t.liveUntilTime
            /\ w.pendingReads = t.pendingReads /\ w.pendingWrites = t.pendingWrites - 1
  BY DEF L1TBEs

\* A new TBE.
LEMMA FreshTBE ==
  ASSUME NEW l \in Nat
  PROVE  LET t == i_allocateTBE(l)
         IN /\ t \in L1TBEs /\ t.TBEState = "I" /\ t.liveUntilTime = l
            /\ t.pendingReads = 0 /\ t.pendingWrites = 0
            /\ NoL1TBE \in L1TBEs /\ NoL1Entry \in L1Entries
  BY Zenon DEF i_allocateTBE, NoL1TBE, NoL1Entry, L1TBEs, L1Entries, L1States

\* What setState to s leaves behind of entry e and TBE t.
L1Leaves(s, e, t, e2, t2) ==
  /\ e2.CacheState = IF e.CacheState = "NotPresent" THEN "NotPresent" ELSE s
  /\ e2.liveUntilTime = e.liveUntilTime
  /\ t2.TBEState = IF t.TBEState = "NoTBE" THEN "NoTBE" ELSE s
  /\ t2.liveUntilTime = t.liveUntilTime
  /\ t2.pendingReads = t.pendingReads /\ t2.pendingWrites = t.pendingWrites

\* setState of the L1 writes the state of entry and TBE and nothing else.
LEMMA L1SetState ==
  ASSUME NEW c \in L1s, NEW a \in Addrs, NEW s \in L1States, NEW e \in L1Entries,
         NEW t \in L1TBEs, L1setState(c, a, s, e, t)
  PROVE  \E e2 \in L1Entries, t2 \in L1TBEs :
           L1Changes(c, a, e2, t2) /\ L1Leaves(s, e, t, e2, t2)
  <1> DEFINE es == [e EXCEPT !.CacheState = s]
             ts == [t EXCEPT !.TBEState = s]
             e2 == IF e.CacheState = "NotPresent" THEN e ELSE es
             t2 == IF t.TBEState = "NoTBE" THEN t ELSE ts
  <1>1. L1Changes(c, a, e2, t2) BY Zenon DEF L1Changes, L1setState
  <1>2. es \in L1Entries /\ es.CacheState = s /\ es.liveUntilTime = e.liveUntilTime
    BY EntryStateUpdate, Zenon
  <1>3. /\ ts \in L1TBEs /\ ts.TBEState = s /\ ts.liveUntilTime = t.liveUntilTime
        /\ ts.pendingReads = t.pendingReads /\ ts.pendingWrites = t.pendingWrites
    BY TBEStateUpdate, Zenon
  <1> HIDE DEF es, ts
  <1>4. /\ e2 \in L1Entries /\ e2.liveUntilTime = e.liveUntilTime
        /\ e2.CacheState = IF e.CacheState = "NotPresent" THEN "NotPresent" ELSE s
    BY <1>2, Zenon
  <1>5. /\ t2 \in L1TBEs /\ t2.TBEState = IF t.TBEState = "NoTBE" THEN "NoTBE" ELSE s
        /\ t2.liveUntilTime = t.liveUntilTime
        /\ t2.pendingReads = t.pendingReads /\ t2.pendingWrites = t.pendingWrites
    BY <1>3, Zenon
  <1>6. L1Leaves(s, e, t, e2, t2) BY <1>4, <1>5, Zenon DEF L1Leaves
  <1> HIDE DEF e2, t2
  <1>7. QED BY <1>1, <1>4, <1>5, <1>6, Zenon

-----------------------------------------------------------------------------
(* The steps of the cores, the L1s, the network and the clock. *)

\* A request at the head of a mandatory queue.
LEMMA CoreRequest ==
  ASSUME LeaseStrongInv, NEW c \in L1s, mandatoryQueue[c].type \in {"LD", "ST", "ATOMIC"}
  PROVE  /\ mandatoryQueue[c].addr \in Addrs
         /\ mandatoryQueue[c].type = "LD" =>
              L1_TBEs[c][mandatoryQueue[c].addr].pendingReads = 0
  <1>1. mandatoryQueue[c] \in CoreRequests BY Zenon DEF LeaseStrongInv, TypeOK
  <1>2. mandatoryQueue[c] \in [type : Requests, addr : Addrs] BY <1>1 DEF CoreRequests, NoRequest
  <1>3. L1BlockInv(c, mandatoryQueue[c].addr) BY <1>2, Zenon DEF LeaseStrongInv
  <1>4. QED BY <1>2, <1>3, Zenon DEF L1BlockInv

\* Load
LEMMA LoadStep ==
  ASSUME CountingLaws, LeaseStrongInv, NEW c \in L1s, L1_Load(c)
  PROVE  LeaseStrongInv'
  <1> DEFINE a == mandatoryQueue[c].addr
             st == L1getState(c, a)
             e == L1cache[c][a]
             t == L1_TBEs[c][a]
             m == [type |-> "GETS", addr |-> a, src |-> c, live |-> 0]
  <1>0. TypeOK BY Zenon DEF LeaseStrongInv
  <1>1. a \in Addrs /\ t.pendingReads = 0
    BY CoreRequest, Zenon DEF L1_Load
  <1>2. e \in L1Entries /\ t \in L1TBEs /\ L1BlockInv(c, a)
    BY <1>1 DEF LeaseStrongInv, TypeOK
  <1>3. m \in RequestMsgs /\ m.addr = a /\ m.src = c /\ m.type = "GETS"
    BY <1>1, Zenon DEF RequestMsgs
  <1>4. st = L1getState(c, a) BY Zenon
  <1>5. /\ mandatoryQueue' = [mandatoryQueue EXCEPT ![c] = NoRequest]
        /\ UNCHANGED <<issued, now, l2Vars, L1RequestToL2Cache, responseToL1Cache>>
    BY Zenon DEF L1_Load, k_popMandatoryQueue, L1LeavesAlone
  <1>6. \/ st = "S" /\ UNCHANGED <<l1Vars, requestFromL1Cache>>
        \/ /\ st = "I" /\ SendRequest(c, "GETS", a, 0)
           /\ L1setState(c, a, "I_S", [e EXCEPT !.CacheState = "I"],
                         pr_incPendingRead(i_allocateTBE(0)))
        \/ /\ st \in {"I_I", "SM"} /\ SendRequest(c, "GETS", a, 0)
           /\ L1setState(c, a, st, e, pr_incPendingRead(t))
    BY Zenon DEF L1_Load
  <1>7. SendRequest(c, "GETS", a, 0) =>
          requestFromL1Cache' = [requestFromL1Cache EXCEPT ![c] = Append(@, m)]
    BY Zenon DEF SendRequest
  <1> HIDE DEF a, st, m
  <1>8. CASE st = "S" /\ UNCHANGED <<l1Vars, requestFromL1Cache>>
    <2>1. /\ mandatoryQueue' \in [L1s -> CoreRequests]
          /\ \A d \in L1s : mandatoryQueue'[d] \in {mandatoryQueue[d], NoRequest}
      BY <1>0, <1>5, Zenon DEF TypeOK, CoreRequests
    <2>2. TypeOK'
      BY <1>0, <1>5, <1>8, <2>1, Zenon DEF TypeOK, l1Vars, l2Vars
    <2>3. UNCHANGED <<L1cache, L1_TBEs>> BY <1>8, Zenon DEF l1Vars
    <2>4. ASSUME NEW d \in L1s, NEW b \in Addrs PROVE L1BlockInv(d, b)'
      <3>1. L1BlockInv(d, b) BY Zenon DEF LeaseStrongInv
      <3>2. QED BY <2>1, <2>3, <3>1 DEF L1BlockInv, NoRequest
    <2>5. QED BY <1>5, <1>8, <2>2, <2>3, <2>4, L1Quiet, Zenon
  <1>9. CASE /\ st = "I" /\ SendRequest(c, "GETS", a, 0)
             /\ L1setState(c, a, "I_S", [e EXCEPT !.CacheState = "I"],
                           pr_incPendingRead(i_allocateTBE(0)))
    <2> DEFINE e1 == [e EXCEPT !.CacheState = "I"]
               t0 == i_allocateTBE(0)
               t1 == pr_incPendingRead(t0)
    <2>1. e1 \in L1Entries /\ e1.CacheState = "I"
      BY <1>2, EntryStateUpdate, Zenon DEF L1States
    <2>2. t0 \in L1TBEs /\ t0.TBEState = "I" /\ t0.pendingReads = 0 /\ t0.pendingWrites = 0
      BY FreshTBE, Zenon
    <2> HIDE DEF t0
    <2>3. /\ t1 \in L1TBEs /\ t1.TBEState = t0.TBEState
          /\ t1.pendingReads = t0.pendingReads + 1 /\ t1.pendingWrites = t0.pendingWrites
      BY <2>2, TBECountsUp, Zenon
    <2>4. L1setState(c, a, "I_S", e1, t1) BY <1>9, Zenon DEF t0
    <2> HIDE DEF e1, t1
    <2>5a. PICK e2 \in L1Entries, t2 \in L1TBEs :
            L1Changes(c, a, e2, t2) /\ L1Leaves("I_S", e1, t1, e2, t2)
      BY <1>1, <2>1, <2>2, <2>3, <2>4, L1SetState, Zenon DEF L1States
    <2>5. /\ L1Changes(c, a, e2, t2)
          /\ e2.CacheState = "I_S" /\ t2.TBEState = "I_S"
          /\ t2.pendingReads = 1 /\ t2.pendingWrites = 0
      BY <1>1, <2>1, <2>2, <2>3, <2>4, <2>5a DEF L1Leaves
    <2>6. Coupled(e2, t2)
      BY <2>5 DEF Coupled
    <2>7. t.TBEState = "NoTBE"
      BY <1>1, <1>4, <1>9, L1StateFacts, Zenon
    <2>8. t.pendingWrites = 0
      BY <1>1, <2>7, IdleBlock
    <2>9. t2.pendingReads = t.pendingReads + 1 /\ t2.pendingWrites = t.pendingWrites + 0
      BY <1>1, <2>5, <2>8
    <2>10. QED BY <1>1, <1>3, <1>5, <1>7, <1>9, <2>5, <2>6, <2>9, L1Sent, Zenon
  <1>10. CASE /\ st \in {"I_I", "SM"} /\ SendRequest(c, "GETS", a, 0)
              /\ L1setState(c, a, st, e, pr_incPendingRead(t))
    <2> DEFINE t1 == pr_incPendingRead(t)
    <2>1. /\ t.TBEState \in {"I_I", "SM"}
          /\ st = "SM" => t.TBEState = "SM"
      BY <1>1, <1>4, <1>10, L1StateFacts, Zenon
    <2>2. /\ t1 \in L1TBEs /\ t1.TBEState = t.TBEState /\ t1.liveUntilTime = t.liveUntilTime
          /\ t1.pendingReads = t.pendingReads + 1 /\ t1.pendingWrites = t.pendingWrites
      BY <1>2, TBECountsUp, Zenon
    <2>3. L1setState(c, a, st, e, t1) /\ st \in L1States BY <1>10, Zenon DEF L1States
    <2> HIDE DEF t1
    <2>4a. PICK e2 \in L1Entries, t2 \in L1TBEs :
            L1Changes(c, a, e2, t2) /\ L1Leaves(st, e, t1, e2, t2)
      BY <1>1, <1>2, <2>1, <2>2, <2>3, L1SetState, Zenon
    <2>4. /\ L1Changes(c, a, e2, t2)
          /\ e2.CacheState = IF e.CacheState = "NotPresent" THEN "NotPresent" ELSE st
          /\ e2.liveUntilTime = e.liveUntilTime
          /\ t2.TBEState = st /\ t2.liveUntilTime = t.liveUntilTime
          /\ t2.pendingReads = 1 /\ t2.pendingWrites = t.pendingWrites
      <3>1. t.pendingReads + 1 = 1 BY <1>1
      <3>2. QED BY <1>2, <2>1, <2>2, <2>3, <2>4a, <3>1, Zenon DEF L1Leaves
    <2>5. Coupled(e2, t2)
      <3>1. PICK n \in Nat : n = t.pendingWrites BY <1>2, Zenon DEF L1TBEs
      <3>2. 1 + n > 0 /\ 1 <= 1 BY OnePending, Zenon
      <3>3. QED BY <1>2, <1>10, <2>1, <2>4, <3>1, <3>2, Zenon DEF Coupled, L1BlockInv
    <2>6. e2.CacheState \in {"S", "SM"} => e2.liveUntilTime \in Stamps(c, a)
      <3>1. e2.CacheState \in {"S", "SM"} => e.CacheState = "SM"
        BY <1>2, <1>10, <2>1, <2>4, Zenon DEF L1BlockInv
      <3>2. QED BY <1>1, <2>4, <3>1, StampRule, Zenon
    <2>7. t2.TBEState = "SM" => t.TBEState = "SM" /\ t2.liveUntilTime = t.liveUntilTime
                                /\ t2.liveUntilTime \in Stamps(c, a)
      BY <1>1, <2>1, <2>4, StampRule, Zenon
    <2>8. t2.pendingReads = t.pendingReads + 1 /\ t2.pendingWrites = t.pendingWrites + 0
      BY <1>1, <1>2, <2>4 DEF L1TBEs
    <2>9. QED BY <1>1, <1>3, <1>5, <1>7, <1>10, <2>4, <2>5, <2>6, <2>7, <2>8, L1Sent, Zenon
  <1>11. QED BY <1>6, <1>8, <1>9, <1>10, Zenon

\* The TBE a write uses.
LEMMA WriteTBE ==
  ASSUME CountingLaws, LeaseStrongInv, NEW c \in L1s, NEW a \in Addrs
  PROVE  LET t == TBEForWrite(c, a)
         IN /\ t \in L1TBEs /\ t.TBEState # "NoTBE"
            /\ t.pendingReads = L1_TBEs[c][a].pendingReads
            /\ t.pendingWrites = L1_TBEs[c][a].pendingWrites
            /\ L1getState(c, a) = "S" => t.liveUntilTime = L1cache[c][a].liveUntilTime
            /\ L1getState(c, a) = "SM" => t.liveUntilTime = L1_TBEs[c][a].liveUntilTime
  <1>1. L1cache[c][a] \in L1Entries /\ L1_TBEs[c][a] \in L1TBEs
    BY Zenon DEF LeaseStrongInv, TypeOK
  <1>2. CASE L1getState(c, a) = "I"
    <2>1. L1_TBEs[c][a].TBEState = "NoTBE" BY <1>2, L1StateFacts, Zenon
    <2>2. L1_TBEs[c][a].pendingReads = 0 /\ L1_TBEs[c][a].pendingWrites = 0
      BY <2>1, IdleBlock, Zenon
    <2>3. TBEForWrite(c, a) = i_allocateTBE(0) BY <1>2, Zenon DEF TBEForWrite
    <2>4. QED BY <1>2, <2>2, <2>3, FreshTBE, Zenon
  <1>3. CASE L1getState(c, a) = "S"
    <2>1. L1_TBEs[c][a].TBEState = "NoTBE" BY <1>3, L1StateFacts, Zenon
    <2>2. L1_TBEs[c][a].pendingReads = 0 /\ L1_TBEs[c][a].pendingWrites = 0
      BY <2>1, IdleBlock, Zenon
    <2>3. TBEForWrite(c, a) = i_allocateTBE(L1cache[c][a].liveUntilTime)
      BY <1>3, Zenon DEF TBEForWrite
    <2>4. L1cache[c][a].liveUntilTime \in Nat BY <1>1, Zenon DEF L1Entries
    <2>5. QED BY <1>3, <2>2, <2>3, <2>4, FreshTBE
  <1>4. CASE L1getState(c, a) \notin {"I", "S"}
    <2>1. L1_TBEs[c][a].TBEState # "NoTBE" BY <1>4, L1StateFacts, Zenon
    <2>2. TBEForWrite(c, a) = L1_TBEs[c][a]
      BY <1>4, Zenon DEF TBEForWrite
    <2>3. QED BY <1>1, <1>4, <2>1, <2>2, Zenon
  <1>5. QED BY <1>2, <1>3, <1>4, Zenon

\* A write through to the L2.
LEMMA WriteThroughStep ==
  ASSUME CountingLaws, LeaseStrongInv, NEW c \in L1s, NEW a \in Addrs, NEW s, NEW type,
         \/ s = "SM" /\ type = "DATA_UPGRADE" /\ L1getState(c, a) \in {"S", "SM"}
         \/ s = "I_I" /\ type \in {"DATA", "DATA_ATOMIC"},
         L1WriteThrough(c, a, s, type)
  PROVE  LeaseStrongInv'
  <1> DEFINE e == L1cache[c][a]
             t0 == TBEForWrite(c, a)
             t1 == [t0 EXCEPT !.pendingWrites = @ + 1]
             m == [type |-> type, addr |-> a, src |-> c,
                   live |-> IF type = "DATA_UPGRADE" THEN t0.liveUntilTime ELSE 0]
  <1>1. e \in L1Entries /\ L1_TBEs[c][a] \in L1TBEs /\ L1BlockInv(c, a)
    BY Zenon DEF LeaseStrongInv, TypeOK
  <1>2. /\ t0 \in L1TBEs /\ t0.TBEState # "NoTBE"
        /\ t0.pendingReads = L1_TBEs[c][a].pendingReads
        /\ t0.pendingWrites = L1_TBEs[c][a].pendingWrites
        /\ L1getState(c, a) = "S" => t0.liveUntilTime = e.liveUntilTime
        /\ L1getState(c, a) = "SM" => t0.liveUntilTime = L1_TBEs[c][a].liveUntilTime
    BY WriteTBE, Zenon
  <1>3. /\ L1setState(c, a, s, e, t1)
        /\ requestFromL1Cache' = [requestFromL1Cache EXCEPT ![c] = Append(@, m)]
        /\ mandatoryQueue' = [mandatoryQueue EXCEPT ![c] = NoRequest]
        /\ UNCHANGED <<issued, now, l2Vars, L1RequestToL2Cache, responseToL1Cache>>
    BY Zenon DEF L1WriteThrough, SendRequest, k_popMandatoryQueue, L1LeavesAlone
  <1> HIDE DEF t0
  <1>4. /\ t1 \in L1TBEs /\ t1.TBEState = t0.TBEState /\ t1.liveUntilTime = t0.liveUntilTime
        /\ t1.pendingReads = t0.pendingReads /\ t1.pendingWrites = t0.pendingWrites + 1
    BY <1>2, TBECountsUp, Zenon
  <1>5. /\ m \in RequestMsgs /\ m.addr = a /\ m.src = c /\ m.type = type
        /\ type = "DATA_UPGRADE" => m.live = t0.liveUntilTime
    BY <1>2, Zenon DEF RequestMsgs, L1TBEs
  <1>6. s \in L1States BY Zenon DEF L1States
  <1> HIDE DEF t1, m
  <1>7a. PICK e2 \in L1Entries, t2 \in L1TBEs :
          L1Changes(c, a, e2, t2) /\ L1Leaves(s, e, t1, e2, t2)
    BY <1>1, <1>2, <1>3, <1>4, <1>6, L1SetState, Zenon
  <1>7. /\ L1Changes(c, a, e2, t2)
        /\ e2.CacheState = IF e.CacheState = "NotPresent" THEN "NotPresent" ELSE s
        /\ e2.liveUntilTime = e.liveUntilTime
        /\ t2.TBEState = s /\ t2.liveUntilTime = t0.liveUntilTime
        /\ t2.pendingReads = L1_TBEs[c][a].pendingReads
        /\ t2.pendingWrites = L1_TBEs[c][a].pendingWrites + 1
    BY <1>1, <1>2, <1>3, <1>4, <1>6, <1>7a, Zenon DEF L1Leaves
  <1>8. /\ t2.pendingReads = L1_TBEs[c][a].pendingReads + 0
        /\ t2.pendingReads <= 1 /\ t2.pendingReads + t2.pendingWrites > 0
    BY <1>1, <1>7 DEF L1TBEs, L1BlockInv
  <1>9. CASE s = "SM" /\ type = "DATA_UPGRADE" /\ L1getState(c, a) \in {"S", "SM"}
    <2>1. /\ e.CacheState \in {"S", "SM"}
          /\ L1getState(c, a) = "S" => L1_TBEs[c][a].TBEState = "NoTBE"
          /\ L1getState(c, a) = "SM" => L1_TBEs[c][a].TBEState = "SM"
      BY <1>1, <1>9, L1StateFacts, Zenon DEF L1BlockInv
    <2>2. e.liveUntilTime \in Stamps(c, a) BY <2>1, StampRule, Zenon
    <2>3. t0.liveUntilTime \in Stamps(c, a) BY <1>2, <1>9, <2>1, <2>2, StampRule, Zenon
    <2>4. Coupled(e2, t2) BY <1>7, <1>8, <1>9, <2>1, Zenon DEF Coupled
    <2>5. L1_TBEs[c][a].TBEState = "SM" => t2.liveUntilTime = L1_TBEs[c][a].liveUntilTime
      BY <1>2, <1>7, <1>9, <2>1, Zenon
    <2>6. QED BY <1>3, <1>5, <1>7, <1>8, <1>9, <2>1, <2>2, <2>3, <2>4, <2>5, L1Sent, Zenon
  <1>10. CASE s = "I_I" /\ type \in {"DATA", "DATA_ATOMIC"}
    <2>1. Coupled(e2, t2) BY <1>7, <1>8, <1>10, Zenon DEF Coupled
    <2>2. t2.TBEState # "SM" /\ e2.CacheState \notin {"S", "SM"} BY <1>7, <1>10, Zenon
    <2>3. QED BY <1>3, <1>5, <1>7, <1>8, <1>10, <2>1, <2>2, L1Sent, Zenon
  <1>11. QED BY <1>9, <1>10, Zenon

\* L1_WThru
LEMMA WThruStep ==
  ASSUME CountingLaws, LeaseStrongInv, NEW c \in L1s, L1_WThru(c)
  PROVE  LeaseStrongInv'
  <1> DEFINE a == mandatoryQueue[c].addr
  <1>1. a \in Addrs BY CoreRequest, Zenon DEF L1_WThru
  <1>2. \/ L1getState(c, a) \in {"S", "SM"} /\ L1WriteThrough(c, a, "SM", "DATA_UPGRADE")
        \/ L1WriteThrough(c, a, "I_I", "DATA")
    BY Zenon DEF L1_WThru
  <1>3. QED BY <1>1, <1>2, WriteThroughStep, Zenon

\* L1_Atomic
LEMMA AtomicStep ==
  ASSUME CountingLaws, LeaseStrongInv, NEW c \in L1s, L1_Atomic(c)
  PROVE  LeaseStrongInv'
  <1> DEFINE a == mandatoryQueue[c].addr
  <1>1. a \in Addrs BY CoreRequest, Zenon DEF L1_Atomic
  <1>2. L1WriteThrough(c, a, "I_I", "DATA_ATOMIC") BY Zenon DEF L1_Atomic
  <1>3. QED BY <1>1, <1>2, WriteThroughStep, Zenon

\* L1_Replacement
LEMMA L1ReplacementStep ==
  ASSUME LeaseStrongInv, NEW c \in L1s, L1_Replacement(c)
  PROVE  LeaseStrongInv'
  <1>1. PICK v \in Addrs : /\ L1getState(c, v) \in {"I", "S"}
                           /\ L1cache' = [L1cache EXCEPT ![c][v] = NoL1Entry]
    BY Zenon DEF L1_Replacement, L1Tags
  <1>2. UNCHANGED <<coreVars, now, L1_TBEs, l2Vars, requestFromL1Cache, L1RequestToL2Cache,
                    responseToL1Cache>>
    BY Zenon DEF L1_Replacement, L1LeavesAlone
  <1>3. TypeOK BY Zenon DEF LeaseStrongInv
  <1>4. NoL1Entry \in L1Entries BY Zenon DEF NoL1Entry, L1Entries
  <1>5. /\ L1cache' \in [L1s -> [Addrs -> L1Entries]]
        /\ L1cache'[c][v] = NoL1Entry
        /\ \A d \in L1s, b \in Addrs : d # c \/ b # v => L1cache'[d][b] = L1cache[d][b]
    BY <1>1, <1>3, <1>4, NestedUpdate DEF TypeOK
  <1>6. TypeOK' BY <1>2, <1>3, <1>5, Zenon DEF TypeOK, l2Vars, coreVars
  <1>7. ASSUME NEW d \in L1s, NEW b \in Addrs PROVE L1BlockInv(d, b)'
    <2>1. L1BlockInv(d, b) BY Zenon DEF LeaseStrongInv
    <2>2. UNCHANGED <<L1_TBEs, mandatoryQueue>> BY <1>2, Zenon DEF coreVars
    <2>3. CASE d = c /\ b = v
      <3>1. L1_TBEs[c][v].TBEState = "NoTBE" BY <1>1, L1StateFacts, Zenon
      <3>2. QED BY <1>5, <2>1, <2>2, <2>3, <3>1 DEF L1BlockInv, NoL1Entry
    <2>4. CASE d # c \/ b # v
      BY <1>5, <2>1, <2>2, <2>4, Zenon DEF L1BlockInv
    <2>5. QED BY <2>3, <2>4, Zenon
  <1>8. QED BY <1>2, <1>5, <1>6, <1>7, L1Quiet, Zenon

\* A core makes a request.
LEMMA IssueStep ==
  ASSUME LeaseStrongInv, NEW c \in L1s, NEW type \in Requests, NEW a \in Addrs,
         Issue(c, type, a)
  PROVE  LeaseStrongInv'
  <1> DEFINE r == [type |-> type, addr |-> a]
  <1>1. TypeOK BY Zenon DEF LeaseStrongInv
  <1>2. r \in CoreRequests BY Zenon DEF CoreRequests
  <1>3. /\ mandatoryQueue' \in [L1s -> CoreRequests]
        /\ mandatoryQueue'[c] = r
        /\ \A d \in L1s \ {c} : mandatoryQueue'[d] = mandatoryQueue[d]
    BY <1>1, <1>2, Zenon DEF TypeOK, Issue
  <1>4. issued' \in 0..MaxRequests
    BY <1>1, SizeAssumption DEF TypeOK, Issue
  <1>5. TypeOK' BY <1>1, <1>3, <1>4, Zenon DEF TypeOK, Issue, l1Vars, l2Vars
  <1>6. UNCHANGED <<L1cache, L1_TBEs>> BY Zenon DEF Issue, l1Vars
  <1>7. ASSUME NEW d \in L1s, NEW b \in Addrs PROVE L1BlockInv(d, b)'
    <2>1. L1BlockInv(d, b) BY Zenon DEF LeaseStrongInv
    <2>2. mandatoryQueue'[d] = [type |-> "LD", addr |-> b] => L1_TBEs[d][b].pendingReads = 0
      BY <1>3, <2>1, Zenon DEF Issue, L1BlockInv
    <2>3. QED BY <1>6, <2>1, <2>2, Zenon DEF L1BlockInv
  <1>8. QED BY <1>5, <1>6, <1>7, L1Quiet, Zenon DEF Issue

\* The last response: the TBE is freed.
LEMMA LastResponse ==
  ASSUME CountingLaws, LeaseStrongInv, NEW c \in L1s, responseToL1Cache[c] # <<>>,
         NEW m, m = Head(responseToL1Cache[c]), NEW a, a = m.addr,
         NEW s \in {"I", "S"}, NEW e \in L1Entries,
         L1setState(c, a, s, e, NoL1TBE), o_popIncomingResponseQueue(c),
         L1_TBEs[c][a].pendingReads = (IF m.type = "DATA" THEN 1 ELSE 0),
         L1_TBEs[c][a].pendingWrites = (IF m.type = "DATA" THEN 0 ELSE 1),
         s = "S" => e.liveUntilTime \in Stamps(c, a)
  PROVE  LeaseStrongInv'
  <1>1. a \in Addrs BY ResponseFacts, Zenon
  <1>2. /\ NoL1TBE \in L1TBEs /\ NoL1TBE.TBEState = "NoTBE"
        /\ NoL1TBE.pendingReads = 0 /\ NoL1TBE.pendingWrites = 0
    BY Zenon DEF NoL1TBE, L1TBEs
  <1>3a. PICK e2 \in L1Entries, t2 \in L1TBEs :
          L1Changes(c, a, e2, t2) /\ L1Leaves(s, e, NoL1TBE, e2, t2)
    <2>1. s \in L1States BY Zenon DEF L1States
    <2>2. QED BY <1>1, <1>2, <2>1, L1SetState, Zenon
  <1>3. /\ L1Changes(c, a, e2, t2)
        /\ e2.CacheState = IF e.CacheState = "NotPresent" THEN "NotPresent" ELSE s
        /\ e2.liveUntilTime = e.liveUntilTime
        /\ t2.TBEState = "NoTBE" /\ t2.pendingReads = 0 /\ t2.pendingWrites = 0
    BY <1>1, <1>2, <1>3a, Zenon DEF L1Leaves
  <1>4. Coupled(e2, t2)
    <2>1. e2.CacheState \in {"NotPresent", "I", "S"} BY <1>3, Zenon
    <2>2. QED BY <1>3, <2>1, NothingPending, Zenon DEF Coupled
  <1>5. e2.CacheState \in {"S", "SM"} => e2.liveUntilTime \in Stamps(c, a)
    BY <1>3, Zenon
  <1>6. /\ t2.pendingReads = L1_TBEs[c][a].pendingReads - (IF m.type = "DATA" THEN 1 ELSE 0)
        /\ t2.pendingWrites = L1_TBEs[c][a].pendingWrites - (IF m.type = "DATA" THEN 0 ELSE 1)
    <2>1. CASE m.type = "DATA" BY <1>3, <2>1, NothingPending, Zenon
    <2>2. CASE m.type # "DATA" BY <1>3, <2>2, NothingPending, Zenon
    <2>3. QED BY <2>1, <2>2, Zenon
  <1>7. /\ responseToL1Cache' = [responseToL1Cache EXCEPT ![c] = Tail(@)]
        /\ UNCHANGED <<now, coreVars, l2Vars, requestFromL1Cache, L1RequestToL2Cache>>
    BY Zenon DEF o_popIncomingResponseQueue
  <1>8. QED BY <1>1, <1>3, <1>4, <1>5, <1>6, <1>7, L1Received, Zenon

\* A response that leaves something pending.
LEMMA EarlyResponse ==
  ASSUME CountingLaws, LeaseStrongInv, NEW c \in L1s, responseToL1Cache[c] # <<>>,
         NEW m, m = Head(responseToL1Cache[c]), NEW a, a = m.addr,
         NEW st \in {"I_I", "SM"}, st = L1getState(c, a),
         NEW e \in L1Entries, NEW t \in L1TBEs,
         L1setState(c, a, st, e, t), o_popIncomingResponseQueue(c),
         e.CacheState = L1cache[c][a].CacheState,
         st = "SM" => e.liveUntilTime \in Stamps(c, a),
         t.TBEState = L1_TBEs[c][a].TBEState,
         t.liveUntilTime = L1_TBEs[c][a].liveUntilTime,
         t.pendingReads = L1_TBEs[c][a].pendingReads - (IF m.type = "DATA" THEN 1 ELSE 0),
         t.pendingWrites = L1_TBEs[c][a].pendingWrites - (IF m.type = "DATA" THEN 0 ELSE 1),
         t.pendingReads <= 1, t.pendingReads + t.pendingWrites > 0
  PROVE  LeaseStrongInv'
  <1>1. a \in Addrs BY ResponseFacts, Zenon
  <1>2. L1BlockInv(c, a)
    BY <1>1, Zenon DEF LeaseStrongInv
  <1>3. /\ L1_TBEs[c][a].TBEState \in {"I_I", "SM"}
        /\ st = "SM" => L1_TBEs[c][a].TBEState = "SM"
    BY <1>1, L1StateFacts, Zenon
  <1>4. t.TBEState # "NoTBE" BY <1>3, Zenon
  <1>5. st \in L1States BY Zenon DEF L1States
  <1>6. PICK e2 \in L1Entries, t2 \in L1TBEs :
          L1Changes(c, a, e2, t2) /\ L1Leaves(st, e, t, e2, t2)
    BY <1>1, <1>5, L1SetState, Zenon
  <1>7. Coupled(e2, t2)
    <2>1. t2.pendingReads <= 1 /\ t2.pendingReads + t2.pendingWrites > 0 BY <1>6, Zenon DEF L1Leaves
    <2>2. st = "SM" => e2.CacheState = "SM" BY <1>2, <1>3, <1>6, Zenon DEF L1BlockInv, L1Leaves
    <2>3. t2.TBEState = st BY <1>4, <1>6, Zenon DEF L1Leaves
    <2>4. e2.CacheState \in {"NotPresent", st} BY <1>6, Zenon DEF L1Leaves
    <2>5. QED BY <2>1, <2>2, <2>3, <2>4, Zenon DEF Coupled
  <1>8. e2.CacheState \in {"S", "SM"} => e2.liveUntilTime \in Stamps(c, a)
    BY <1>6, Zenon DEF L1Leaves
  <1>9. t2.TBEState = "SM" => /\ L1_TBEs[c][a].TBEState = "SM"
                              /\ t2.liveUntilTime = L1_TBEs[c][a].liveUntilTime
    BY <1>3, <1>4, <1>6, Zenon DEF L1Leaves
  <1>10. /\ t2.pendingReads = L1_TBEs[c][a].pendingReads - (IF m.type = "DATA" THEN 1 ELSE 0)
         /\ t2.pendingWrites = L1_TBEs[c][a].pendingWrites - (IF m.type = "DATA" THEN 0 ELSE 1)
    BY <1>6, Zenon DEF L1Leaves
  <1>11. /\ responseToL1Cache' = [responseToL1Cache EXCEPT ![c] = Tail(@)]
         /\ UNCHANGED <<now, coreVars, l2Vars, requestFromL1Cache, L1RequestToL2Cache>>
    BY Zenon DEF o_popIncomingResponseQueue
  <1>12. QED BY <1>1, <1>6, <1>7, <1>8, <1>9, <1>10, <1>11, L1Received, Zenon

\* Data
LEMMA DataStep ==
  ASSUME CountingLaws, LeaseStrongInv, NEW c \in L1s, L1_Data(c)
  PROVE  LeaseStrongInv'
  <1> DEFINE m == Head(responseToL1Cache[c])
             a == m.addr
             st == L1getState(c, a)
             e == L1cache[c][a]
             t == L1_TBEs[c][a]
  <1>1. responseToL1Cache[c] # <<>> /\ m.type = "DATA" /\ o_popIncomingResponseQueue(c)
    BY Zenon DEF L1_Data
  <1>2. \/ /\ t.pendingWrites > 0 /\ st \in {"I_I", "SM"}
           /\ L1setState(c, a, st, e, [t EXCEPT !.pendingReads = @ - 1])
        \/ /\ t.pendingWrites = 0 /\ st \in {"I_S", "SM"}
           /\ L1setState(c, a, "S", t_updateL1Lifetime(e, m), NoL1TBE)
        \/ /\ t.pendingWrites = 0 /\ st = "I_I"
           /\ L1setState(c, a, "I", e, NoL1TBE)
    BY Zenon DEF L1_Data
  <1>3. /\ m \in ResponseMsgs /\ m \in Elements(responseToL1Cache[c]) /\ a \in Addrs
        /\ t.pendingReads = 1
    BY <1>1, ResponseFacts, Zenon
  <1>4. a = m.addr /\ m = Head(responseToL1Cache[c]) /\ st = L1getState(c, a) BY Zenon
  <1> HIDE DEF m, a, st
  <1>5. e \in L1Entries /\ t \in L1TBEs BY <1>3 DEF LeaseStrongInv, TypeOK
  <1>6. CASE /\ t.pendingWrites > 0 /\ st \in {"I_I", "SM"}
             /\ L1setState(c, a, st, e, [t EXCEPT !.pendingReads = @ - 1])
    <2> DEFINE t1 == [t EXCEPT !.pendingReads = @ - 1]
    <2>1. t.pendingReads > 0 BY <1>3
    <2>2. /\ t1 \in L1TBEs /\ t1.TBEState = t.TBEState /\ t1.liveUntilTime = t.liveUntilTime
          /\ t1.pendingReads = t.pendingReads - 1 /\ t1.pendingWrites = t.pendingWrites
      BY <1>5, <2>1, TBEReadsDown, Zenon
    <2>3. L1setState(c, a, st, e, t1) BY <1>6, Zenon
    <2> HIDE DEF t1
    <2>4. /\ t1.pendingWrites = t.pendingWrites - 0 /\ t1.pendingReads <= 1
          /\ t1.pendingReads + t1.pendingWrites > 0
      BY <1>3, <1>5, <1>6, <2>2 DEF L1TBEs
    <2>5. st = "SM" => e.liveUntilTime \in Stamps(c, a)
      <3>1. st = "SM" => t.TBEState = "SM" BY <1>3, <1>4, L1StateFacts, Zenon
      <3>2. st = "SM" => e.CacheState = "SM" BY <1>3, <3>1, Zenon DEF LeaseStrongInv, L1BlockInv
      <3>3. QED BY <1>3, <3>2, StampRule, Zenon
    <2>6. QED BY <1>1, <1>4, <1>5, <1>6, <2>2, <2>3, <2>4, <2>5, EarlyResponse, Zenon
  <1>7. CASE /\ t.pendingWrites = 0 /\ st \in {"I_S", "SM"}
             /\ L1setState(c, a, "S", t_updateL1Lifetime(e, m), NoL1TBE)
    <2> DEFINE e1 == t_updateL1Lifetime(e, m)
    <2>1. m.live \in Nat BY <1>3, Zenon DEF ResponseMsgs
    <2>2. e1 \in L1Entries /\ e1.liveUntilTime = m.live
      BY <1>5, <2>1, EntryTimeUpdate, Zenon DEF t_updateL1Lifetime
    <2>3. m.live \in Stamps(c, a) BY <1>1, <1>3, <1>4, StampRule
    <2>4. L1setState(c, a, "S", e1, NoL1TBE) BY <1>7, Zenon
    <2> HIDE DEF e1
    <2>5. QED BY <1>1, <1>3, <1>4, <1>7, <2>2, <2>3, <2>4, LastResponse, Zenon
  <1>8. CASE /\ t.pendingWrites = 0 /\ st = "I_I"
             /\ L1setState(c, a, "I", e, NoL1TBE)
    BY <1>1, <1>3, <1>4, <1>5, <1>8, LastResponse, Zenon
  <1>9. QED BY <1>2, <1>6, <1>7, <1>8, Zenon

\* Ack
LEMMA AckStep ==
  ASSUME CountingLaws, LeaseStrongInv, NEW c \in L1s, L1_Ack(c)
  PROVE  LeaseStrongInv'
  <1> DEFINE m == Head(responseToL1Cache[c])
             a == m.addr
             st == L1getState(c, a)
             t == L1_TBEs[c][a]
             e == IF st = "SM" THEN t_updateL1Lifetime(L1cache[c][a], m) ELSE L1cache[c][a]
             t1 == [t EXCEPT !.pendingWrites = @ - 1]
  <1>1. /\ responseToL1Cache[c] # <<>> /\ m.type = "ACK" /\ st \in {"I_I", "SM"}
        /\ o_popIncomingResponseQueue(c)
    BY Zenon DEF L1_Ack
  <1>2. IF LastWrite(t)
        THEN L1setState(c, a, IF st = "SM" THEN "S" ELSE "I", e, NoL1TBE)
        ELSE L1setState(c, a, st, e, t1)
    BY Zenon DEF L1_Ack
  <1>3. /\ m \in ResponseMsgs /\ m \in Elements(responseToL1Cache[c]) /\ a \in Addrs
        /\ t.pendingWrites > 0
    BY <1>1, ResponseFacts, Zenon
  <1>4. a = m.addr /\ m = Head(responseToL1Cache[c]) /\ st = L1getState(c, a) BY Zenon
  <1> HIDE DEF m, a, st
  <1>5. L1cache[c][a] \in L1Entries /\ t \in L1TBEs BY <1>3, Zenon DEF LeaseStrongInv, TypeOK
  <1>6. m.live \in Nat BY <1>3, Zenon DEF ResponseMsgs
  <1>7. st = "SM" => m.live \in Stamps(c, a) BY <1>1, <1>3, <1>4, StampRule
  <1>8. LET u == t_updateL1Lifetime(L1cache[c][a], m)
        IN u \in L1Entries /\ u.CacheState = L1cache[c][a].CacheState /\ u.liveUntilTime = m.live
    BY <1>5, <1>6, EntryTimeUpdate, Zenon DEF t_updateL1Lifetime
  <1>9. /\ e \in L1Entries /\ e.CacheState = L1cache[c][a].CacheState
        /\ st = "SM" => e.liveUntilTime = m.live
    BY <1>5, <1>8, Zenon
  <1> HIDE DEF e
  <1>10. /\ t1 \in L1TBEs /\ t1.TBEState = t.TBEState /\ t1.liveUntilTime = t.liveUntilTime
         /\ t1.pendingReads = t.pendingReads /\ t1.pendingWrites = t.pendingWrites - 1
    BY <1>3, <1>5, TBEWritesDown, Zenon
  <1> HIDE DEF t1
  <1>11. CASE LastWrite(t)
    <2>1. t.pendingReads = 0 /\ t.pendingWrites = 1 BY <1>11, Zenon DEF LastWrite
    <2>2. PICK s \in {"I", "S"} : L1setState(c, a, s, e, NoL1TBE) /\ (s = "S" => st = "SM")
      BY <1>1, <1>2, <1>11, Zenon
    <2>3. QED BY <1>1, <1>4, <1>7, <1>9, <2>1, <2>2, LastResponse, Zenon
  <1>12. CASE ~LastWrite(t)
    <2>1. /\ t1.pendingReads = t.pendingReads - 0 /\ t1.pendingReads <= 1
          /\ t1.pendingReads + t1.pendingWrites > 0
      <3>1. /\ t.pendingReads \in Nat /\ t.pendingWrites \in Nat /\ t.pendingReads <= 1
        BY <1>3, <1>5, Zenon DEF L1TBEs, LeaseStrongInv, L1BlockInv
      <3>2. t.pendingReads # 0 \/ t.pendingWrites # 1 BY <1>12, Zenon DEF LastWrite
      <3>3. QED BY <1>3, <1>10, <3>1, <3>2
    <2>2. L1setState(c, a, st, e, t1) BY <1>2, <1>12, Zenon
    <2>3. QED BY <1>1, <1>4, <1>7, <1>9, <1>10, <2>1, <2>2, EarlyResponse, Zenon
  <1>13. QED BY <1>11, <1>12, Zenon

\* DataAtomic
LEMMA DataAtomicStep ==
  ASSUME CountingLaws, LeaseStrongInv, NEW c \in L1s, L1_DataAtomic(c)
  PROVE  LeaseStrongInv'
  <1> DEFINE m == Head(responseToL1Cache[c])
             a == m.addr
             e == L1cache[c][a]
             t == L1_TBEs[c][a]
             t1 == [t EXCEPT !.pendingWrites = @ - 1]
  <1>1. /\ responseToL1Cache[c] # <<>> /\ m.type = "DATA_ATOMIC" /\ L1getState(c, a) = "I_I"
        /\ o_popIncomingResponseQueue(c)
    BY Zenon DEF L1_DataAtomic
  <1>2. IF LastWrite(t)
        THEN L1setState(c, a, "I", e, NoL1TBE)
        ELSE L1setState(c, a, "I_I", e, t1)
    BY Zenon DEF L1_DataAtomic
  <1>3. a \in Addrs /\ t.pendingWrites > 0
    BY <1>1, ResponseFacts, Zenon
  <1>4. a = m.addr /\ m = Head(responseToL1Cache[c]) BY Zenon
  <1> HIDE DEF m, a
  <1>5. e \in L1Entries /\ t \in L1TBEs BY <1>3, Zenon DEF LeaseStrongInv, TypeOK
  <1>6. /\ t1 \in L1TBEs /\ t1.TBEState = t.TBEState /\ t1.liveUntilTime = t.liveUntilTime
        /\ t1.pendingReads = t.pendingReads /\ t1.pendingWrites = t.pendingWrites - 1
    BY <1>3, <1>5, TBEWritesDown, Zenon
  <1> HIDE DEF t1
  <1>7. CASE LastWrite(t)
    <2>1. t.pendingReads = 0 /\ t.pendingWrites = 1 BY <1>7, Zenon DEF LastWrite
    <2>2. L1setState(c, a, "I", e, NoL1TBE) BY <1>2, <1>7, Zenon
    <2>3. QED BY <1>1, <1>4, <1>5, <2>1, <2>2, LastResponse, Zenon
  <1>8. CASE ~LastWrite(t)
    <2>1. /\ t1.pendingReads = t.pendingReads - 0 /\ t1.pendingReads <= 1
          /\ t1.pendingReads + t1.pendingWrites > 0
      <3>1. /\ t.pendingReads \in Nat /\ t.pendingWrites \in Nat /\ t.pendingReads <= 1
        BY <1>3, <1>5, Zenon DEF L1TBEs, LeaseStrongInv, L1BlockInv
      <3>2. t.pendingReads # 0 \/ t.pendingWrites # 1 BY <1>8, Zenon DEF LastWrite
      <3>3. QED BY <1>3, <1>6, <3>1, <3>2
    <2>2. L1setState(c, a, "I_I", e, t1) BY <1>2, <1>8, Zenon
    <2>3. QED BY <1>1, <1>4, <1>5, <1>6, <2>1, <2>2, EarlyResponse, Zenon
  <1>9. QED BY <1>7, <1>8, Zenon

\* The network hands a request over to the L2.
LEMMA DeliverStep ==
  ASSUME CountingLaws, LeaseStrongInv, NEW c \in L1s, Deliver(c)
  PROVE  LeaseStrongInv'
  <1> DEFINE m == Head(requestFromL1Cache[c])
  <1>0. TypeOK BY Zenon DEF LeaseStrongInv
  <1>1. /\ requestFromL1Cache[c] # <<>>
        /\ L1RequestToL2Cache' = Append(L1RequestToL2Cache, m)
        /\ requestFromL1Cache' = [requestFromL1Cache EXCEPT ![c] = Tail(@)]
        /\ UNCHANGED <<now, coreVars, L1cache, L1_TBEs, l2Vars, responseToL1Cache>>
    BY Zenon DEF Deliver, l1Vars
  <1>2. requestFromL1Cache[c] \in Seq(RequestMsgs) /\ L1RequestToL2Cache \in Seq(RequestMsgs)
    BY <1>0, Zenon DEF TypeOK
  <1>3. /\ Tail(requestFromL1Cache[c]) \in Seq(RequestMsgs)
        /\ m \in RequestMsgs /\ m \in Elements(requestFromL1Cache[c])
        /\ Elements(Tail(requestFromL1Cache[c])) \subseteq Elements(requestFromL1Cache[c])
    BY <1>1, <1>2, Dequeued
  <1>4. m.src = c BY <1>3, Zenon DEF LeaseStrongInv, SourceInv
  <1> HIDE DEF m
  <1>5. /\ L1RequestToL2Cache' \in Seq(RequestMsgs)
        /\ Elements(L1RequestToL2Cache') = Elements(L1RequestToL2Cache) \cup {m}
    BY <1>1, <1>2, <1>3, Enqueued, Zenon
  <1>6. /\ requestFromL1Cache' \in [L1s -> Seq(RequestMsgs)]
        /\ requestFromL1Cache'[c] = Tail(requestFromL1Cache[c])
        /\ \A d \in L1s \ {c} : requestFromL1Cache'[d] = requestFromL1Cache[d]
    BY <1>0, <1>1, <1>3, Zenon DEF TypeOK
  <1>7. \A d \in L1s : Elements(requestFromL1Cache'[d]) \subseteq Elements(requestFromL1Cache[d])
    BY <1>3, <1>6, Zenon
  <1>8. TypeOK'
    BY <1>0, <1>1, <1>5, <1>6, Zenon DEF TypeOK, l2Vars, coreVars
  <1>9. SourceInv'
    BY <1>7, Zenon DEF LeaseStrongInv, SourceInv
  <1>10. ASSUME NEW d \in L1s, NEW b \in Addrs PROVE L1BlockInv(d, b)'
    <2>1. UNCHANGED <<mandatoryQueue, L1cache, L1_TBEs>> BY <1>1, Zenon DEF coreVars
    <2>2. L1BlockInv(d, b) BY Zenon DEF LeaseStrongInv
    <2>3. QED BY <2>1, <2>2, Zenon DEF L1BlockInv
  <1>11. ASSUME NEW d \in L1s, NEW b \in Addrs PROVE CountInv(d, b)'
    <2>1. ReadsMatch(d, b) /\ WritesMatch(d, b) BY Zenon DEF LeaseStrongInv, CountInv
    <2>2. UNCHANGED <<L1_TBEs, L2_TBEs, responseToL1Cache>> BY <1>1, Zenon DEF l2Vars
    <2>3. /\ InFlight(L1RequestToL2Cache', Reads(d, b)) =
               InFlight(L1RequestToL2Cache, Reads(d, b)) + (IF m \in Reads(d, b) THEN 1 ELSE 0)
          /\ InFlight(L1RequestToL2Cache', Writes(d, b)) =
               InFlight(L1RequestToL2Cache, Writes(d, b)) + (IF m \in Writes(d, b) THEN 1 ELSE 0)
      BY <1>1, <1>2, <1>3, Enqueued
    <2>4. /\ InFlight(requestFromL1Cache[d], Reads(d, b)) =
               InFlight(requestFromL1Cache'[d], Reads(d, b)) + (IF m \in Reads(d, b) THEN 1 ELSE 0)
          /\ InFlight(requestFromL1Cache[d], Writes(d, b)) =
               InFlight(requestFromL1Cache'[d], Writes(d, b)) + (IF m \in Writes(d, b) THEN 1 ELSE 0)
      <3>1. CASE d = c
        BY <1>1, <1>2, <1>6, <3>1, Dequeued DEF m
      <3>2. CASE d # c
        <4>1. m \notin Reads(d, b) /\ m \notin Writes(d, b)
          BY <1>4, <3>2, Zenon DEF Reads, Writes
        <4>2. /\ InFlight(requestFromL1Cache[d], Reads(d, b)) \in Nat
              /\ InFlight(requestFromL1Cache[d], Writes(d, b)) \in Nat
          BY <1>0, CountPositive, Zenon DEF TypeOK
        <4>3. QED BY <1>6, <3>2, <4>1, <4>2
      <3>3. QED BY <3>1, <3>2, Zenon
    <2>5. /\ InFlight(requestFromL1Cache'[d], Reads(d, b)) \in Nat
          /\ InFlight(requestFromL1Cache'[d], Writes(d, b)) \in Nat
          /\ InFlight(L1RequestToL2Cache, Reads(d, b)) \in Nat
          /\ InFlight(L1RequestToL2Cache, Writes(d, b)) \in Nat
          /\ InFlight(responseToL1Cache[d], Fills(b)) \in Nat
          /\ InFlight(responseToL1Cache[d], Acks(b)) \in Nat
      BY <1>0, <1>6, CountPositive, Zenon DEF TypeOK
    <2>6. /\ Cardinality({d} \cap L2_TBEs[b].L1_GetS_IDs) \in Nat
          /\ Cardinality({d} \cap {L2_TBEs[b].L1_WBAck_ID}) \in Nat
      BY OneIfMember
    <2>7. ReadsMatch(d, b)'
      <3>1. PICK x, y, z, u, v, w, k :
              /\ x = InFlight(requestFromL1Cache[d], Reads(d, b))
              /\ y = InFlight(L1RequestToL2Cache, Reads(d, b))
              /\ v = InFlight(requestFromL1Cache'[d], Reads(d, b))
              /\ w = InFlight(L1RequestToL2Cache', Reads(d, b))
              /\ z = Cardinality({d} \cap L2_TBEs[b].L1_GetS_IDs)
              /\ u = InFlight(responseToL1Cache[d], Fills(b))
              /\ k = IF m \in Reads(d, b) THEN 1 ELSE 0
        BY Zenon
      <3>2. v \in Nat /\ y \in Nat /\ z \in Nat /\ u \in Nat /\ x = v + k /\ w = y + k
        BY <2>3, <2>4, <2>5, <2>6, <3>1, Zenon
      <3>3. k \in Nat BY <3>1
      <3>4. L1_TBEs'[d][b].pendingReads = x + y + z + u BY <2>1, <2>2, <3>1, Zenon DEF ReadsMatch
      <3>5. L1_TBEs'[d][b].pendingReads = v + w + z + u BY <3>2, <3>3, <3>4
      <3>6. QED BY <2>2, <3>1, <3>5, Zenon DEF ReadsMatch, Reads, Fills
    <2>8. WritesMatch(d, b)'
      <3>1. PICK x, y, z, u, v, w, k :
              /\ x = InFlight(requestFromL1Cache[d], Writes(d, b))
              /\ y = InFlight(L1RequestToL2Cache, Writes(d, b))
              /\ v = InFlight(requestFromL1Cache'[d], Writes(d, b))
              /\ w = InFlight(L1RequestToL2Cache', Writes(d, b))
              /\ z = Cardinality({d} \cap {L2_TBEs[b].L1_WBAck_ID})
              /\ u = InFlight(responseToL1Cache[d], Acks(b))
              /\ k = IF m \in Writes(d, b) THEN 1 ELSE 0
        BY Zenon
      <3>2. v \in Nat /\ y \in Nat /\ z \in Nat /\ u \in Nat /\ x = v + k /\ w = y + k
        BY <2>3, <2>4, <2>5, <2>6, <3>1, Zenon
      <3>3. k \in Nat BY <3>1
      <3>4. L1_TBEs'[d][b].pendingWrites = x + y + z + u BY <2>1, <2>2, <3>1, Zenon DEF WritesMatch
      <3>5. L1_TBEs'[d][b].pendingWrites = v + w + z + u BY <3>2, <3>3, <3>4
      <3>6. QED BY <2>2, <3>1, <3>5, Zenon DEF WritesMatch, Writes, Acks
    <2>9. QED BY <2>7, <2>8, Zenon DEF CountInv
  <1>12. ASSUME NEW d \in L1s, NEW b \in Addrs PROVE AtomicInv(d, b)'
    <2>1. AtomicInv(d, b) BY Zenon DEF LeaseStrongInv
    <2>2. UNCHANGED <<L1_TBEs, L2_TBEs, responseToL1Cache>> BY <1>1, Zenon DEF l2Vars
    <2>3. L1_TBEs[d][b].TBEState = "SM" =>
            \A x \in Elements(L1RequestToL2Cache') :
              x.addr = b /\ x.src = d => x.type # "DATA_ATOMIC"
      BY <1>3, <1>4, <1>5, <2>1, Zenon DEF AtomicInv
    <2>4. L1_TBEs[d][b].TBEState = "SM" =>
            \A x \in Elements(requestFromL1Cache'[d]) : x.addr = b => x.type # "DATA_ATOMIC"
      BY <1>7, <2>1, Zenon DEF AtomicInv
    <2>5. QED BY <2>1, <2>2, <2>3, <2>4, Zenon DEF AtomicInv
  <1>13. ASSUME NEW d \in L1s, NEW b \in Addrs PROVE Stamps(d, b)' \subseteq Stamps(d, b)
    <2> SUFFICES ASSUME NEW x \in Stamps(d, b)' PROVE x \in Stamps(d, b)
      BY Zenon
    <2>1. UNCHANGED <<now, L1cache, L1_TBEs, responseToL1Cache>> BY <1>1, Zenon
    <2>2. L1getState(d, b)' = L1getState(d, b)
      BY <2>1, Zenon DEF L1getState, L1_TBEs_isPresent, isL1CacheTagPresent
    <2>3. \A y \in Elements(L1RequestToL2Cache') :
            y.addr = b /\ y.src = d /\ y.type = "DATA_UPGRADE" => y.live \in Stamps(d, b)
      <3>1. /\ \A y \in Elements(L1RequestToL2Cache) :
                 y.addr = b /\ y.src = d /\ y.type = "DATA_UPGRADE" => y.live \in Stamps(d, b)
            /\ \A y \in Elements(requestFromL1Cache[d]) :
                 y.addr = b /\ y.type = "DATA_UPGRADE" => y.live \in Stamps(d, b)
        BY StampRule, Zenon
      <3>2. QED BY <1>3, <1>4, <1>5, <3>1, Zenon
    <2>4. \A y \in Elements(requestFromL1Cache'[d]) :
            y.addr = b /\ y.type = "DATA_UPGRADE" => y.live \in Stamps(d, b)
      BY <1>7, StampRule, Zenon
    <2>5. QED BY <2>1, <2>2, <2>3, <2>4, StampRule, StampRuleNext
  <1>14. QED
    BY <1>1, <1>8, <1>9, <1>10, <1>11, <1>12, <1>13, L2Frame, Zenon DEF LeaseStrongInv

\* The clock advances.
LEMMA TickStep ==
  ASSUME LeaseStrongInv, Tick
  PROVE  LeaseStrongInv'
  <1>0. TypeOK BY Zenon DEF LeaseStrongInv
  <1>1. /\ now' = now + 1 /\ now \in Nat
        /\ UNCHANGED <<issued, mandatoryQueue, L1cache, L1_TBEs, L2cache, L2_TBEs,
                       L2ExpireTriggerQueue, GpusimDramBuffer, unwritten,
                       requestFromL1Cache, L1RequestToL2Cache, responseToL1Cache>>
    BY <1>0, Zenon DEF Tick, coreVars, l1Vars, l2Vars, TypeOK
  <1>2. TypeOK' /\ now' > 0
    BY <1>0, <1>1 DEF TypeOK
  <1>3. SourceInv' /\ L2QueueInv' /\ WritesKept'
    BY <1>1, Zenon DEF LeaseStrongInv, SourceInv, L2QueueInv, WritesKept, L2_TBEs_isPresent
  <1>4. ASSUME NEW c \in L1s, NEW a \in Addrs PROVE L1BlockInv(c, a)' /\ AtomicInv(c, a)'
    <2>1. L1BlockInv(c, a) /\ AtomicInv(c, a) BY Zenon DEF LeaseStrongInv
    <2>2. L1BlockInv(c, a)' BY <1>1, <2>1, Zenon DEF L1BlockInv
    <2>3. AtomicInv(c, a)' BY <1>1, <2>1, Zenon DEF AtomicInv
    <2>4. QED BY <2>2, <2>3, Zenon
  <1>5. \A c \in L1s, a \in Addrs : CountInv(c, a)'
    BY <1>1, Zenon DEF LeaseStrongInv, CountInv, ReadsMatch, WritesMatch
  <1>6. ASSUME NEW a \in Addrs PROVE L2BlockInv(a)' /\ LeaseInv(a)' /\ SingleInv(a)'
    <2>1. L2cache[a] \in L2Entries /\ L2_TBEs[a] \in L2TBEs BY <1>0, Zenon DEF TypeOK
    <2>2. L2BlockInv(a)' BY <1>1, Zenon DEF LeaseStrongInv, L2BlockInv
    <2>3. /\ L2getState(a)' = L2getState(a) \/ (L2getState(a) \in {"S", "SS"} /\ L2getState(a)' = "E")
      BY <1>1, <2>1 DEF L2getState, L2_TBEs_isPresent, isL2CacheTagPresent, L2isLive, L2Entries
    <2>4. Promised(a)' = Promised(a) BY <1>1, <2>3, Zenon DEF Promised
    <2>5. ASSUME NEW c \in L1s PROVE Stamps(c, a)' \subseteq Stamps(c, a)
      <3>1. L1_TBEs[c][a] \in L1TBEs /\ L1cache[c][a] \in L1Entries BY <1>0, Zenon DEF TypeOK
      <3>2. L1BlockInv(c, a) BY Zenon DEF LeaseStrongInv
      <3>3. L1getState(c, a)' = "SM" => L1getState(c, a) = "SM"
        <4>1. PICK l \in Nat : l = L1_TBEs[c][a].liveUntilTime BY <3>1, Zenon DEF L1TBEs
        <4>2. l < now => l < now' BY <1>1, <4>1
        <4>3. ~L1_TBEs_isPresent(c, a) => L1cache[c][a].CacheState # "SM"
          BY <3>2, Zenon DEF L1BlockInv, L1_TBEs_isPresent
        <4>4. QED
          BY <1>1, <4>1, <4>2, <4>3, Zenon DEF L1getState, L1_TBEs_isPresent, isL1CacheTagPresent
      <3>4. ASSUME NEW x \in Stamps(c, a)' PROVE x \in Stamps(c, a)
        <4>1. UNCHANGED <<L1cache, L1_TBEs, requestFromL1Cache, L1RequestToL2Cache,
                          responseToL1Cache>>
          BY <1>1, Zenon
        <4>2. QED BY <3>3, <4>1, StampRule, StampRuleNext
      <3>5. QED BY <3>4, Zenon
    <2>6. \A c \in L1s : \A t \in Stamps(c, a)' : t \in Nat /\ t \in Stamps(c, a)
      BY <1>0, <2>5, StampsType, Zenon
    <2>7. LeaseInv(a)'
      <3>1. LeaseInv(a) BY Zenon DEF LeaseStrongInv
      <3>2. PICK l \in Nat : l = L2cache[a].liveUntilTime BY <2>1, Zenon DEF L2Entries
      <3>3. l <= now => l <= now' BY <1>1
      <3>4. \A c \in L1s : \A t \in Stamps(c, a)' : t >= now' => t >= now BY <1>1, <2>6
      <3>5. QED BY <1>1, <2>4, <2>6, <3>1, <3>2, <3>3, <3>4, Zenon DEF LeaseInv
    <2>8. Live(a)' \subseteq Live(a)
      BY <1>1, <2>6 DEF Live
    <2>9. SingleInv(a)'
      BY <2>3, <2>8, Zenon DEF LeaseStrongInv, SingleInv
    <2>10. QED BY <2>2, <2>7, <2>9, Zenon
  <1>7. QED BY <1>2, <1>3, <1>4, <1>5, <1>6, Zenon DEF LeaseStrongInv

=============================================================================
