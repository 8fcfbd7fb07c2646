------------------------- MODULE CacheLease2L2Steps -------------------------
(***************************************************************************)
(* The steps of the L2 preserve the inductive invariant of the TC-Strong   *)
(* protocol.                                                               *)
(***************************************************************************)
EXTENDS CacheLease2Invariant

-----------------------------------------------------------------------------
(* Facts about the L2's tables and queues. *)

\* What getState of the L2 says about its entry and its TBE, and the time the L2
\* holds writes back until.
LEMMA L2StateFacts ==
  ASSUME LeaseStrongInv, NEW a \in Addrs
  PROVE  /\ L2cache[a] \in L2Entries /\ L2_TBEs[a] \in L2TBEs
         /\ L2getState(a) \in {"NP", "E", "S", "SS"} <=> L2_TBEs[a] = NoL2TBE
         /\ L2getState(a) = "NP" => L2cache[a].CacheState = "NotPresent" /\ Promised(a) = 0
         /\ L2getState(a) \in {"E", "S", "SS"} =>
              /\ L2cache[a].CacheState \in {"E", "S", "SS"}
              /\ Promised(a) = L2cache[a].liveUntilTime
         /\ L2getState(a) \in {"S", "SS"} =>
              /\ L2cache[a].CacheState = L2getState(a)
              /\ L2cache[a].liveUntilTime >= now
         /\ L2getState(a) = "E" =>
              L2cache[a].CacheState = "E" \/ L2cache[a].liveUntilTime < now
         /\ L2getState(a) \in {"IS", "IM", "IMA"} =>
              L2_TBEs[a].TBEState = L2getState(a) /\ Promised(a) = 0
         /\ L2_TBEs[a].TBEState # "NoTBE" => L2getState(a) = L2_TBEs[a].TBEState
         /\ L2getState(a) = "MI" => Promised(a) = L2_TBEs[a].liveUntilTime
         /\ L2getState(a) \in {"NP", "E", "S", "SS", "IS", "IM", "IMA", "MI"}
  <1>1. L2cache[a] \in L2Entries /\ L2_TBEs[a] \in L2TBEs /\ now \in Nat
    BY Zenon DEF LeaseStrongInv, TypeOK
  <1>2. L2BlockInv(a) BY Zenon DEF LeaseStrongInv
  <1>3. NoL2TBE.TBEState = "NoTBE" BY Zenon DEF NoL2TBE
  <1>4. L2_TBEs[a].TBEState = "NoTBE" <=> L2_TBEs[a] = NoL2TBE BY <1>2, <1>3, Zenon DEF L2BlockInv
  <1>5. L2_TBEs[a].TBEState # "NoTBE" =>
          L2getState(a) = L2_TBEs[a].TBEState /\ L2_TBEs[a].TBEState \in {"IS", "IM", "IMA", "MI"}
    BY <1>2, Zenon DEF L2BlockInv, L2getState, L2_TBEs_isPresent
  <1>6. L2_TBEs[a].TBEState = "NoTBE" =>
          /\ L2getState(a) \in {"NP", "E", "S", "SS"}
          /\ L2getState(a) = "NP" => L2cache[a].CacheState = "NotPresent"
          /\ L2getState(a) \in {"E", "S", "SS"} => L2cache[a].CacheState \in {"E", "S", "SS"}
          /\ L2getState(a) \in {"S", "SS"} =>
               L2cache[a].CacheState = L2getState(a) /\ L2cache[a].liveUntilTime >= now
          /\ L2getState(a) = "E" =>
               L2cache[a].CacheState = "E" \/ L2cache[a].liveUntilTime < now
    BY <1>1, <1>2 DEF L2BlockInv, L2getState, L2_TBEs_isPresent, isL2CacheTagPresent, L2isLive,
       L2Entries
  <1>7. QED BY <1>1, <1>4, <1>5, <1>6, Zenon DEF Promised

\* In a state other than S, SS and MI every time stamp has run out.
LEMMA NoneLive ==
  ASSUME LeaseStrongInv, NEW a \in Addrs,
         \/ L2getState(a) \notin {"S", "SS", "MI"}
         \/ Promised(a) < now
  PROVE  \A c \in L1s : \A t \in Stamps(c, a) : t \in Nat /\ t < now
  <1> SUFFICES ASSUME NEW c \in L1s, NEW t \in Stamps(c, a) PROVE t \in Nat /\ t < now
    BY Zenon
  <1>1. t \in Nat /\ now \in Nat /\ now > 0 BY StampsType, Zenon DEF LeaseStrongInv, TypeOK
  <1>2. LeaseInv(a) BY Zenon DEF LeaseStrongInv
  <1>3. L2cache[a].liveUntilTime \in Nat BY L2StateFacts, Zenon DEF L2Entries
  <1>4. CASE Promised(a) < now
    <2>1. Promised(a) \in Nat
      BY L2StateFacts, Zenon DEF Promised, L2Entries, L2TBEs
    <2>2. QED BY <1>1, <1>2, <1>4, <2>1 DEF LeaseInv
  <1>5. CASE L2getState(a) \notin {"S", "SS", "MI", "E"}
    <2>1. Promised(a) = 0 BY <1>5, L2StateFacts, Zenon
    <2>2. QED BY <1>1, <1>2, <2>1 DEF LeaseInv
  <1>6. CASE L2getState(a) = "E"
    <2>1. Promised(a) = L2cache[a].liveUntilTime BY <1>6, L2StateFacts, Zenon
    <2>2. CASE L2cache[a].CacheState = "E"
      <3>1. L2cache[a].liveUntilTime <= now /\ t < L2cache[a].liveUntilTime
        BY <1>2, <2>2, Zenon DEF LeaseInv
      <3>2. QED BY <1>1, <1>3, <3>1
    <2>3. CASE L2cache[a].CacheState # "E"
      <3>1. L2cache[a].liveUntilTime < now BY <1>6, <2>3, L2StateFacts, Zenon
      <3>2. t >= now => t <= L2cache[a].liveUntilTime BY <1>2, <2>1, Zenon DEF LeaseInv
      <3>3. QED BY <1>1, <1>3, <3>1, <3>2
    <2>4. QED BY <2>2, <2>3, Zenon
  <1>7. QED BY <1>4, <1>5, <1>6, Zenon

\* A step that leaves what the L1 knows alone, and of what is in flight or at the L2
\* leaves the number.
LEMMA CountFrame ==
  ASSUME CountingLaws, LeaseStrongInv, TypeOK', UNCHANGED <<L1_TBEs, requestFromL1Cache>>,
         NEW d \in L1s, NEW b \in Addrs,
         InFlight(L1RequestToL2Cache', Reads(d, b))
           + Cardinality({d} \cap L2_TBEs'[b].L1_GetS_IDs)
           + InFlight(responseToL1Cache'[d], Fills(b))
         = InFlight(L1RequestToL2Cache, Reads(d, b))
           + Cardinality({d} \cap L2_TBEs[b].L1_GetS_IDs)
           + InFlight(responseToL1Cache[d], Fills(b)),
         InFlight(L1RequestToL2Cache', Writes(d, b))
           + Cardinality({d} \cap {L2_TBEs'[b].L1_WBAck_ID})
           + InFlight(responseToL1Cache'[d], Acks(b))
         = InFlight(L1RequestToL2Cache, Writes(d, b))
           + Cardinality({d} \cap {L2_TBEs[b].L1_WBAck_ID})
           + InFlight(responseToL1Cache[d], Acks(b))
  PROVE  CountInv(d, b)'
  <1>0. TypeOK BY Zenon DEF LeaseStrongInv
  <1>1. ReadsMatch(d, b) /\ WritesMatch(d, b) BY Zenon DEF LeaseStrongInv, CountInv
  <1>2. /\ InFlight(requestFromL1Cache[d], Reads(d, b)) \in Nat
        /\ InFlight(requestFromL1Cache[d], Writes(d, b)) \in Nat
        /\ InFlight(L1RequestToL2Cache, Reads(d, b)) \in Nat
        /\ InFlight(L1RequestToL2Cache, Writes(d, b)) \in Nat
        /\ InFlight(responseToL1Cache[d], Fills(b)) \in Nat
        /\ InFlight(responseToL1Cache[d], Acks(b)) \in Nat
    BY <1>0, CountPositive, Zenon DEF TypeOK
  <1>3. /\ InFlight(L1RequestToL2Cache', Reads(d, b)) \in Nat
        /\ InFlight(L1RequestToL2Cache', Writes(d, b)) \in Nat
        /\ InFlight(responseToL1Cache'[d], Fills(b)) \in Nat
        /\ InFlight(responseToL1Cache'[d], Acks(b)) \in Nat
    BY CountPositive, Zenon DEF TypeOK
  <1>4. /\ Cardinality({d} \cap L2_TBEs[b].L1_GetS_IDs) \in Nat
        /\ Cardinality({d} \cap {L2_TBEs[b].L1_WBAck_ID}) \in Nat
        /\ Cardinality({d} \cap L2_TBEs'[b].L1_GetS_IDs) \in Nat
        /\ Cardinality({d} \cap {L2_TBEs'[b].L1_WBAck_ID}) \in Nat
    BY OneIfMember
  <1>5. ReadsMatch(d, b)'
    BY <1>1, <1>2, <1>3, <1>4 DEF ReadsMatch, Reads, Fills
  <1>6. WritesMatch(d, b)'
    BY <1>1, <1>2, <1>3, <1>4 DEF WritesMatch, Writes, Acks
  <1>7. QED BY <1>5, <1>6, Zenon DEF CountInv

\* The L2 takes the request at the head of its port.
LEMMA Popped ==
  ASSUME CountingLaws, TypeOK, L1RequestToL2Cache # <<>>
  PROVE  /\ Tail(L1RequestToL2Cache) \in Seq(RequestMsgs)
         /\ in_msg \in RequestMsgs /\ in_msg \in Elements(L1RequestToL2Cache)
         /\ in_msg.addr \in Addrs /\ in_msg.src \in L1s
         /\ Elements(Tail(L1RequestToL2Cache)) \subseteq Elements(L1RequestToL2Cache)
         /\ \A d \in L1s, b \in Addrs :
              /\ InFlight(L1RequestToL2Cache, Reads(d, b)) =
                   InFlight(Tail(L1RequestToL2Cache), Reads(d, b))
                   + (IF d = in_msg.src /\ b = in_msg.addr /\ in_msg.type = "GETS" THEN 1 ELSE 0)
              /\ InFlight(L1RequestToL2Cache, Writes(d, b)) =
                   InFlight(Tail(L1RequestToL2Cache), Writes(d, b))
                   + (IF d = in_msg.src /\ b = in_msg.addr /\ in_msg.type # "GETS" THEN 1 ELSE 0)
  <1>1. L1RequestToL2Cache \in Seq(RequestMsgs) BY Zenon DEF TypeOK
  <1>2. /\ Tail(L1RequestToL2Cache) \in Seq(RequestMsgs)
        /\ in_msg \in RequestMsgs /\ in_msg \in Elements(L1RequestToL2Cache)
        /\ Elements(Tail(L1RequestToL2Cache)) \subseteq Elements(L1RequestToL2Cache)
    BY <1>1, Dequeued DEF in_msg
  <1>3. in_msg.addr \in Addrs /\ in_msg.src \in L1s BY <1>2, Zenon DEF RequestMsgs
  <1>4. ASSUME NEW d \in L1s, NEW b \in Addrs
        PROVE  /\ InFlight(L1RequestToL2Cache, Reads(d, b)) =
                    InFlight(Tail(L1RequestToL2Cache), Reads(d, b))
                    + (IF d = in_msg.src /\ b = in_msg.addr /\ in_msg.type = "GETS" THEN 1 ELSE 0)
               /\ InFlight(L1RequestToL2Cache, Writes(d, b)) =
                    InFlight(Tail(L1RequestToL2Cache), Writes(d, b))
                    + (IF d = in_msg.src /\ b = in_msg.addr /\ in_msg.type # "GETS" THEN 1 ELSE 0)
    <2>1. /\ InFlight(L1RequestToL2Cache, Reads(d, b)) =
               InFlight(Tail(L1RequestToL2Cache), Reads(d, b))
               + (IF in_msg \in Reads(d, b) THEN 1 ELSE 0)
          /\ InFlight(L1RequestToL2Cache, Writes(d, b)) =
               InFlight(Tail(L1RequestToL2Cache), Writes(d, b))
               + (IF in_msg \in Writes(d, b) THEN 1 ELSE 0)
      BY <1>1, Dequeued DEF in_msg
    <2>2. /\ in_msg \in Reads(d, b) <=> d = in_msg.src /\ b = in_msg.addr /\ in_msg.type = "GETS"
          /\ in_msg \in Writes(d, b) <=> d = in_msg.src /\ b = in_msg.addr /\ in_msg.type # "GETS"
      BY <1>2, Zenon DEF Reads, Writes
    <2>3. QED BY <2>1, <2>2, Zenon
  <1>5. QED BY <1>2, <1>3, <1>4, Zenon

\* A response as the L2 sends it.
Answers(x, type, a, live) == x.type = type /\ x.addr = a /\ x.live = live

\* The L2 answers the L1s of cs.
Sent(cs, type, a, live, d) ==
  \E r \in ResponseMsgs :
    /\ Answers(r, type, a, live)
    /\ responseToL1Cache'[d] =
         IF d \in cs THEN Append(responseToL1Cache[d], r) ELSE responseToL1Cache[d]

\* What one L1 finds in its response queue after the L2 responds.
LEMMA ResponseSent ==
  ASSUME NEW cs, NEW type \in {"DATA", "DATA_ATOMIC", "ACK"}, NEW a \in Addrs,
         NEW live \in Nat, Respond(cs, type, a, live), NEW d \in L1s
  PROVE  Sent(cs, type, a, live, d)
  <1> DEFINE r == [type |-> type, addr |-> a, live |-> live]
  <1>1. r \in ResponseMsgs /\ Answers(r, type, a, live) BY Zenon DEF ResponseMsgs, Answers
  <1>2. responseToL1Cache'[d] =
          IF d \in cs THEN Append(responseToL1Cache[d], r) ELSE responseToL1Cache[d]
    BY Zenon DEF Respond
  <1> HIDE DEF r
  <1>3. QED BY <1>1, <1>2, Zenon DEF Sent

\* Responding keeps the response queues well typed.
LEMMA RespondedType ==
  ASSUME CountingLaws, TypeOK, NEW cs, cs \subseteq L1s, NEW type \in {"DATA", "DATA_ATOMIC",
         "ACK"},
         NEW a \in Addrs, NEW live \in Nat, Respond(cs, type, a, live)
  PROVE  responseToL1Cache' \in [L1s -> Seq(ResponseMsgs)]
  <1>1. ASSUME NEW d \in L1s PROVE responseToL1Cache'[d] \in Seq(ResponseMsgs)
    <2>0. Sent(cs, type, a, live, d) BY ResponseSent, Zenon
    <2>1. PICK r \in ResponseMsgs : responseToL1Cache'[d] =
            IF d \in cs THEN Append(responseToL1Cache[d], r) ELSE responseToL1Cache[d]
      BY <2>0, Zenon DEF Sent
    <2>2. responseToL1Cache[d] \in Seq(ResponseMsgs) BY Zenon DEF TypeOK
    <2>3. Append(responseToL1Cache[d], r) \in Seq(ResponseMsgs) BY <2>2, Enqueued, Zenon
    <2>4. QED BY <2>1, <2>2, <2>3, Zenon
  <1>2. responseToL1Cache' = [d \in L1s |-> responseToL1Cache'[d]] BY Zenon DEF Respond
  <1>3. QED BY <1>1, <1>2, Zenon

\* What has reached the L1s since is a response to one of cs.
Responded(cs, type, a, live) ==
  \A d \in L1s : \A x \in Elements(responseToL1Cache'[d]) :
    \/ x \in Elements(responseToL1Cache[d])
    \/ d \in cs /\ Answers(x, type, a, live)

\* The messages in the response queues after the L2 responds.
LEMMA RespondedElements ==
  ASSUME CountingLaws, TypeOK, NEW cs, NEW type \in {"DATA", "DATA_ATOMIC", "ACK"},
         NEW a \in Addrs, NEW live \in Nat, Respond(cs, type, a, live)
  PROVE  Responded(cs, type, a, live)
  <1> SUFFICES ASSUME NEW d \in L1s, NEW x \in Elements(responseToL1Cache'[d])
               PROVE  \/ x \in Elements(responseToL1Cache[d])
                      \/ d \in cs /\ Answers(x, type, a, live)
    BY Zenon DEF Responded
  <1>1. Sent(cs, type, a, live, d) BY ResponseSent, Zenon
  <1>2. PICK r \in ResponseMsgs :
           /\ Answers(r, type, a, live)
           /\ responseToL1Cache'[d] =
                IF d \in cs THEN Append(responseToL1Cache[d], r) ELSE responseToL1Cache[d]
    BY <1>1, Zenon DEF Sent
  <1>3. responseToL1Cache[d] \in Seq(ResponseMsgs) BY Zenon DEF TypeOK
  <1>4. Elements(Append(responseToL1Cache[d], r)) = Elements(responseToL1Cache[d]) \cup {r}
    BY <1>3, Enqueued, Zenon
  <1>5. CASE d \in cs
    <2>1. x \in Elements(responseToL1Cache[d]) \cup {r} BY <1>2, <1>4, <1>5, Zenon
    <2>2. QED BY <1>2, <1>5, <2>1, Zenon
  <1>6. CASE d \notin cs BY <1>2, <1>6, Zenon
  <1>7. QED BY <1>5, <1>6, Zenon

\* The responses on the way to d for b, once the L1s of cs have been answered.
ResponsesCounted(cs, type, a, d, b) ==
  /\ InFlight(responseToL1Cache'[d], Fills(b)) =
       IF d \in cs /\ b = a /\ type = "DATA"
       THEN InFlight(responseToL1Cache[d], Fills(b)) + 1
       ELSE InFlight(responseToL1Cache[d], Fills(b))
  /\ InFlight(responseToL1Cache'[d], Acks(b)) =
       IF d \in cs /\ b = a /\ type # "DATA"
       THEN InFlight(responseToL1Cache[d], Acks(b)) + 1
       ELSE InFlight(responseToL1Cache[d], Acks(b))

\* The messages of each kind in the response queues after the L2 responds.
LEMMA RespondedCounts ==
  ASSUME CountingLaws, TypeOK, NEW cs, cs \subseteq L1s, NEW type \in {"DATA", "DATA_ATOMIC",
         "ACK"},
         NEW a \in Addrs, NEW live \in Nat, Respond(cs, type, a, live),
         NEW d \in L1s, NEW b \in Addrs
  PROVE  ResponsesCounted(cs, type, a, d, b)
  <1>0. Sent(cs, type, a, live, d) BY ResponseSent, Zenon
  <1>1. PICK r \in ResponseMsgs :
           /\ Answers(r, type, a, live)
           /\ responseToL1Cache'[d] =
                IF d \in cs THEN Append(responseToL1Cache[d], r) ELSE responseToL1Cache[d]
    BY <1>0, Zenon DEF Sent
  <1>2. responseToL1Cache[d] \in Seq(ResponseMsgs) BY Zenon DEF TypeOK
  <1>3. /\ InFlight(responseToL1Cache[d], Fills(b)) \in Nat
        /\ InFlight(responseToL1Cache[d], Acks(b)) \in Nat
    BY <1>2, CountPositive, Zenon
  <1>4. /\ InFlight(Append(responseToL1Cache[d], r), Fills(b)) =
             InFlight(responseToL1Cache[d], Fills(b)) + (IF r \in Fills(b) THEN 1 ELSE 0)
        /\ InFlight(Append(responseToL1Cache[d], r), Acks(b)) =
             InFlight(responseToL1Cache[d], Acks(b)) + (IF r \in Acks(b) THEN 1 ELSE 0)
    BY <1>2, Enqueued
  <1>5. /\ r \in Fills(b) <=> b = a /\ type = "DATA"
        /\ r \in Acks(b) <=> b = a /\ type # "DATA"
    BY <1>1, Zenon DEF Fills, Acks, Answers
  <1>6. CASE d \notin cs BY <1>1, <1>3, <1>6, Zenon DEF ResponsesCounted
  <1>7. CASE d \in cs BY <1>1, <1>3, <1>4, <1>5, <1>7 DEF ResponsesCounted
  <1>8. QED BY <1>6, <1>7, Zenon

\* What a step of the L2 changes of the block a.
L2Changes(a, e, t) ==
  /\ L2cache' = [L2cache EXCEPT ![a] = e]
  /\ L2_TBEs' = [L2_TBEs EXCEPT ![a] = t]

\* What setState to s leaves behind of entry e and TBE t.
L2Leaves(s, e, t, e2, t2) ==
  /\ e2.CacheState = IF e.CacheState = "NotPresent" THEN "NotPresent" ELSE s
  /\ e2.liveUntilTime = e.liveUntilTime /\ e2.Dirty = e.Dirty
  /\ t.TBEState = "NoTBE" => t2 = t
  /\ t.TBEState # "NoTBE" => t2.TBEState = s
  /\ t2.L1_GetS_IDs = t.L1_GetS_IDs /\ t2.L1_WBAck_ID = t.L1_WBAck_ID
  /\ t2.liveUntilTime = t.liveUntilTime /\ t2.Dirty = t.Dirty

\* The fields of an L2 entry after its state is set.
LEMMA L2EntryUpdate ==
  ASSUME NEW e \in L2Entries, NEW s \in L2States
  PROVE  LET u == [e EXCEPT !.CacheState = s]
         IN /\ u \in L2Entries /\ u.CacheState = s
            /\ u.liveUntilTime = e.liveUntilTime /\ u.Dirty = e.Dirty
  BY Zenon DEF L2Entries

\* The fields of an L2 TBE after its state is set.
LEMMA L2TBEUpdate ==
  ASSUME NEW t \in L2TBEs, NEW s \in L2States
  PROVE  LET u == [t EXCEPT !.TBEState = s]
         IN /\ u \in L2TBEs /\ u.TBEState = s
            /\ u.L1_GetS_IDs = t.L1_GetS_IDs /\ u.L1_WBAck_ID = t.L1_WBAck_ID
            /\ u.liveUntilTime = t.liveUntilTime /\ u.Dirty = t.Dirty
  BY Zenon DEF L2TBEs

\* setState of the L2 writes the state of entry and TBE and nothing else.
LEMMA L2SetState ==
  ASSUME NEW a \in Addrs, NEW s \in L2States, NEW e \in L2Entries, NEW t \in L2TBEs,
         L2setState(a, s, e, t)
  PROVE  \E e2 \in L2Entries, t2 \in L2TBEs :
           L2Changes(a, e2, t2) /\ L2Leaves(s, e, t, e2, t2)
  <1> DEFINE es == [e EXCEPT !.CacheState = s]
             ts == [t EXCEPT !.TBEState = s]
             e2 == IF e.CacheState = "NotPresent" THEN e ELSE es
             t2 == IF t.TBEState = "NoTBE" THEN t ELSE ts
  <1>1. L2Changes(a, e2, t2) BY Zenon DEF L2Changes, L2setState
  <1>2. /\ es \in L2Entries /\ es.CacheState = s
        /\ es.liveUntilTime = e.liveUntilTime /\ es.Dirty = e.Dirty
    BY L2EntryUpdate, Zenon
  <1>3. /\ ts \in L2TBEs /\ ts.TBEState = s
        /\ ts.L1_GetS_IDs = t.L1_GetS_IDs /\ ts.L1_WBAck_ID = t.L1_WBAck_ID
        /\ ts.liveUntilTime = t.liveUntilTime /\ ts.Dirty = t.Dirty
    BY L2TBEUpdate, Zenon
  <1> HIDE DEF es, ts
  <1>4. e2 \in L2Entries /\ t2 \in L2TBEs BY <1>2, <1>3, Zenon
  <1>5. L2Leaves(s, e, t, e2, t2) BY <1>2, <1>3, Zenon DEF L2Leaves
  <1> HIDE DEF e2, t2
  <1>6. QED BY <1>1, <1>4, <1>5, Zenon

-----------------------------------------------------------------------------
(* What a step of the L2 that changes block a has to respect. *)

\* The other blocks stay as they are, and the state stays in its type.
LEMMA L2Typed ==
  ASSUME TypeOK, NEW a \in Addrs, NEW e \in L2Entries, NEW t \in L2TBEs, L2Changes(a, e, t),
         UNCHANGED <<now, coreVars, l1Vars, requestFromL1Cache>>,
         L1RequestToL2Cache' \in Seq(RequestMsgs),
         responseToL1Cache' \in [L1s -> Seq(ResponseMsgs)],
         L2ExpireTriggerQueue' \subseteq [addr : Addrs, time : Nat],
         GpusimDramBuffer' \subseteq Addrs, unwritten' \subseteq Addrs
  PROVE  /\ TypeOK'
         /\ L2cache'[a] = e /\ L2_TBEs'[a] = t
         /\ \A b \in Addrs \ {a} : L2cache'[b] = L2cache[b] /\ L2_TBEs'[b] = L2_TBEs[b]
  <1>1. /\ L2cache' \in [Addrs -> L2Entries] /\ L2_TBEs' \in [Addrs -> L2TBEs]
        /\ L2cache'[a] = e /\ L2_TBEs'[a] = t
        /\ \A b \in Addrs \ {a} : L2cache'[b] = L2cache[b] /\ L2_TBEs'[b] = L2_TBEs[b]
    BY Zenon DEF TypeOK, L2Changes
  <1>2. TypeOK' BY <1>1, Zenon DEF TypeOK, coreVars, l1Vars
  <1>3. QED BY <1>1, <1>2, Zenon

\* An L1 gets new time stamps from the L2's responses only.
LEMMA StampsGrow ==
  ASSUME UNCHANGED <<now, l1Vars, requestFromL1Cache>>,
         Elements(L1RequestToL2Cache') \subseteq Elements(L1RequestToL2Cache),
         NEW d \in L1s, NEW b \in Addrs, NEW x \in Stamps(d, b)'
  PROVE  \/ x \in Stamps(d, b)
         \/ \E y \in Elements(responseToL1Cache'[d]) :
              /\ y \notin Elements(responseToL1Cache[d])
              /\ y.addr = b /\ x = y.live
              /\ y.type = "DATA" \/ (y.type = "ACK" /\ L1getState(d, b) = "SM")
  <1>1. UNCHANGED <<now, L1cache, L1_TBEs, requestFromL1Cache>> BY Zenon DEF l1Vars
  <1>2. L1getState(d, b)' = L1getState(d, b)
    BY <1>1, Zenon DEF L1getState, L1_TBEs_isPresent, isL1CacheTagPresent
  <1>3. CASE \E y \in Elements(responseToL1Cache'[d]) :
               /\ y.addr = b /\ x = y.live
               /\ y.type = "DATA" \/ (y.type = "ACK" /\ L1getState(d, b)' = "SM")
    <2>1. PICK y \in Elements(responseToL1Cache'[d]) :
               /\ y.addr = b /\ x = y.live
               /\ y.type = "DATA" \/ (y.type = "ACK" /\ L1getState(d, b) = "SM")
      BY <1>2, <1>3, Zenon
    <2>2. CASE y \in Elements(responseToL1Cache[d]) BY <2>1, <2>2, StampRule
    <2>3. CASE y \notin Elements(responseToL1Cache[d]) BY <2>1, <2>3, Zenon
    <2>4. QED BY <2>2, <2>3, Zenon
  <1>4. CASE ~\E y \in Elements(responseToL1Cache'[d]) :
               /\ y.addr = b /\ x = y.live
               /\ y.type = "DATA" \/ (y.type = "ACK" /\ L1getState(d, b)' = "SM")
    BY <1>1, <1>4, StampRule, StampRuleNext
  <1>5. QED BY <1>3, <1>4, Zenon

\* What is left to show of a step of the L2 that changes block a.
LEMMA L2StepFrame ==
  ASSUME LeaseStrongInv, NEW a \in Addrs, TypeOK',
         UNCHANGED <<now, coreVars, l1Vars, requestFromL1Cache>>,
         \A b \in Addrs \ {a} : L2cache'[b] = L2cache[b] /\ L2_TBEs'[b] = L2_TBEs[b],
         \A d \in L1s, b \in Addrs : CountInv(d, b)' /\ AtomicInv(d, b)',
         \A d \in L1s, b \in Addrs \ {a} : Stamps(d, b)' \subseteq Stamps(d, b),
         L2BlockInv(a)', LeaseInv(a)', SingleInv(a)', L2QueueInv', WritesKept'
  PROVE  LeaseStrongInv'
  <1>1. UNCHANGED <<now, mandatoryQueue, L1cache, L1_TBEs, requestFromL1Cache>>
    BY Zenon DEF coreVars, l1Vars
  <1>2. SourceInv' BY <1>1, Zenon DEF LeaseStrongInv, SourceInv
  <1>3. ASSUME NEW d \in L1s, NEW b \in Addrs PROVE L1BlockInv(d, b)'
    <2>1. L1BlockInv(d, b) BY Zenon DEF LeaseStrongInv
    <2>2. QED BY <1>1, <2>1, Zenon DEF L1BlockInv
  <1>4. ASSUME NEW b \in Addrs \ {a} PROVE L2BlockInv(b)' /\ LeaseInv(b)' /\ SingleInv(b)'
    <2>1. L2BlockInv(b) /\ LeaseInv(b) /\ SingleInv(b) BY Zenon DEF LeaseStrongInv
    <2>2. L2cache'[b] = L2cache[b] /\ L2_TBEs'[b] = L2_TBEs[b] BY Zenon
    <2>3. L2getState(b)' = L2getState(b)
      BY <1>1, <2>2, Zenon DEF L2getState, L2_TBEs_isPresent, isL2CacheTagPresent, L2isLive
    <2>4. Promised(b)' = Promised(b) BY <2>2, <2>3, Zenon DEF Promised
    <2>5. L2BlockInv(b)' BY <2>1, <2>2, Zenon DEF L2BlockInv
    <2>6. LeaseInv(b)' BY <1>1, <2>1, <2>2, <2>4, Zenon DEF LeaseInv
    <2>7. Live(b)' \subseteq Live(b) BY <1>1, Zenon DEF Live
    <2>8. SingleInv(b)' BY <2>1, <2>3, <2>7, Zenon DEF SingleInv
    <2>9. QED BY <2>5, <2>6, <2>8, Zenon
  <1>5. \A b \in Addrs : L2BlockInv(b)' /\ LeaseInv(b)' /\ SingleInv(b)' BY <1>4, Zenon
  <1>6. now' > 0 BY <1>1, Zenon DEF LeaseStrongInv
  <1>7. QED BY <1>2, <1>3, <1>5, <1>6, Zenon DEF LeaseStrongInv

\* The L2 after a step: no time stamp of a is live and a is not in E.
LEMMA NoneLiveNext ==
  ASSUME NEW a \in Addrs, L2cache'[a].CacheState # "E",
         \A c \in L1s : \A t \in Stamps(c, a)' : t \in Nat /\ t < now',
         now' \in Nat
  PROVE  LeaseInv(a)' /\ SingleInv(a)'
  <1>1. LeaseInv(a)' BY DEF LeaseInv
  <1>2. \A c \in L1s : c \notin Live(a)' BY DEF Live
  <1>3. Live(a)' \subseteq L1s BY Zenon DEF Live
  <1>4. QED BY <1>1, <1>2, <1>3, Zenon DEF SingleInv

\* Counts that move from one place to another.
LEMMA MovedOne ==
  ASSUME NEW q \in Nat, NEW r \in Nat, NEW k \in Nat, NEW l \in Nat, NEW f \in Nat, NEW g \in Nat,
         NEW z \in BOOLEAN, q = r + (IF z THEN 1 ELSE 0), l + g = k + f + (IF z THEN 1 ELSE 0)
  PROVE  r + l + g = q + k + f
  <1>1. CASE z BY <1>1
  <1>2. CASE ~z BY <1>2
  <1>3. QED BY <1>1, <1>2, Zenon

\* An L1 waits for one fill of a block at most, so its request is not yet recorded.
LEMMA NotRecorded ==
  ASSUME CountingLaws, LeaseStrongInv, L1RequestToL2Cache # <<>>, in_msg.type = "GETS"
  PROVE  in_msg.src \notin L2_TBEs[in_msg.addr].L1_GetS_IDs
  <1> DEFINE c == in_msg.src
             a == in_msg.addr
  <1>0. TypeOK BY Zenon DEF LeaseStrongInv
  <1>1. /\ in_msg \in RequestMsgs /\ in_msg \in Elements(L1RequestToL2Cache)
        /\ a \in Addrs /\ c \in L1s
    BY <1>0, Popped, Zenon
  <1>2. in_msg \in Reads(c, a) BY <1>1, Zenon DEF Reads
  <1> HIDE DEF a, c
  <1>3. L1RequestToL2Cache \in Seq(RequestMsgs) BY <1>0, Zenon DEF TypeOK
  <1>4. /\ InFlight(L1RequestToL2Cache, Reads(c, a)) \in Nat
        /\ InFlight(L1RequestToL2Cache, Reads(c, a)) > 0
    BY <1>1, <1>2, <1>3, CountPositive, Zenon
  <1>5. /\ InFlight(requestFromL1Cache[c], Reads(c, a)) \in Nat
        /\ InFlight(responseToL1Cache[c], Fills(a)) \in Nat
    BY <1>0, <1>1, CountPositive, Zenon DEF TypeOK
  <1>6. /\ Cardinality({c} \cap L2_TBEs[a].L1_GetS_IDs) \in Nat
        /\ c \in L2_TBEs[a].L1_GetS_IDs => Cardinality({c} \cap L2_TBEs[a].L1_GetS_IDs) = 1
    BY OneIfMember
  <1>7. ReadsMatch(c, a) /\ L1_TBEs[c][a].pendingReads <= 1
    BY <1>1, Zenon DEF LeaseStrongInv, CountInv, L1BlockInv
  <1>8. Cardinality({c} \cap L2_TBEs[a].L1_GetS_IDs) # 1
    BY <1>4, <1>5, <1>6, <1>7 DEF ReadsMatch
  <1>9. QED BY <1>6, <1>8, Zenon DEF a, c

\* The L2 takes a request and records it in the TBE of a block that it fetches.
LEMMA TakeStep ==
  ASSUME CountingLaws, LeaseStrongInv, L1RequestToL2Cache # <<>>, NEW a, a = in_msg.addr,
         L2getState(a) \in {"NP", "IS"},
         NEW e \in L2Entries, NEW t \in L2TBEs, L2Changes(a, e, t),
         jj_popL1RequestQueue, UNCHANGED <<responseToL1Cache, unwritten>>,
         t.TBEState \in {"IS", "IM", "IMA"},
         e.CacheState = t.TBEState, e.liveUntilTime = 0,
         IF in_msg.type = "GETS"
         THEN /\ t.L1_GetS_IDs = L2_TBEs[a].L1_GetS_IDs \cup {in_msg.src}
              /\ t.L1_WBAck_ID = NoL1
              /\ t.TBEState = "IS"
         ELSE /\ L2getState(a) = "NP"
              /\ t.L1_GetS_IDs = {} /\ t.L1_WBAck_ID = in_msg.src /\ t.Dirty
              /\ t.TBEState \in {"IM", "IMA"}
              /\ t.TBEState = "IMA" => in_msg.type = "DATA_ATOMIC",
         GpusimDramBuffer' \subseteq GpusimDramBuffer \cup {a}
  PROVE  LeaseStrongInv'
  <1>0. TypeOK BY Zenon DEF LeaseStrongInv
  <1>1. /\ Tail(L1RequestToL2Cache) \in Seq(RequestMsgs)
        /\ in_msg \in RequestMsgs /\ in_msg \in Elements(L1RequestToL2Cache)
        /\ a \in Addrs /\ in_msg.src \in L1s
        /\ Elements(Tail(L1RequestToL2Cache)) \subseteq Elements(L1RequestToL2Cache)
    BY <1>0, Popped, Zenon
  <1>2. /\ L1RequestToL2Cache' = Tail(L1RequestToL2Cache)
        /\ UNCHANGED <<now, coreVars, l1Vars, requestFromL1Cache, L2ExpireTriggerQueue>>
    BY Zenon DEF jj_popL1RequestQueue
  <1>3. /\ TypeOK'
        /\ L2cache'[a] = e /\ L2_TBEs'[a] = t
        /\ \A b \in Addrs \ {a} : L2cache'[b] = L2cache[b] /\ L2_TBEs'[b] = L2_TBEs[b]
    <2>1. GpusimDramBuffer' \subseteq Addrs BY <1>0, <1>1, Zenon DEF TypeOK
    <2>2. /\ L2ExpireTriggerQueue' \subseteq [addr : Addrs, time : Nat]
          /\ unwritten' \subseteq Addrs
          /\ responseToL1Cache' \in [L1s -> Seq(ResponseMsgs)]
          /\ L1RequestToL2Cache' \in Seq(RequestMsgs)
      BY <1>0, <1>1, <1>2, Zenon DEF TypeOK
    <2>3. UNCHANGED <<now, coreVars, l1Vars, requestFromL1Cache>> BY <1>2, Zenon
    <2>4. QED BY <1>0, <1>1, <2>1, <2>2, <2>3, L2Typed, Zenon
  <1>4. /\ L2_TBEs[a].L1_WBAck_ID = NoL1
        /\ L2getState(a) = "NP" => L2_TBEs[a] = NoL2TBE
        /\ L2_TBEs[a].TBEState \in {"NoTBE", "IS"}
    <2>1. CASE L2getState(a) = "NP"
      <3>1. L2_TBEs[a] = NoL2TBE BY <1>1, <2>1, L2StateFacts, Zenon
      <3>2. QED BY <2>1, <3>1 DEF NoL2TBE
    <2>2. CASE L2getState(a) = "IS"
      <3>1. L2_TBEs[a].TBEState = "IS" BY <1>1, <2>2, L2StateFacts, Zenon
      <3>2. L2BlockInv(a) BY <1>1, Zenon DEF LeaseStrongInv
      <3>3. QED BY <2>2, <3>1, <3>2, Zenon DEF L2BlockInv
    <2>3. QED BY <2>1, <2>2, Zenon
  <1>5. L2getState(a) = "NP" => L2_TBEs[a].L1_GetS_IDs = {}
    BY <1>4 DEF NoL2TBE
  <1>6. ASSUME NEW d \in L1s, NEW b \in Addrs PROVE CountInv(d, b)'
    <2> DEFINE z == d = in_msg.src /\ b = a
               k == Cardinality({d} \cap L2_TBEs[b].L1_GetS_IDs)
               k2 == Cardinality({d} \cap L2_TBEs'[b].L1_GetS_IDs)
               l == Cardinality({d} \cap {L2_TBEs[b].L1_WBAck_ID})
               l2 == Cardinality({d} \cap {L2_TBEs'[b].L1_WBAck_ID})
               q == InFlight(L1RequestToL2Cache, Reads(d, b))
               q2 == InFlight(Tail(L1RequestToL2Cache), Reads(d, b))
               w == InFlight(L1RequestToL2Cache, Writes(d, b))
               w2 == InFlight(Tail(L1RequestToL2Cache), Writes(d, b))
               f == InFlight(responseToL1Cache[d], Fills(b))
               g == InFlight(responseToL1Cache[d], Acks(b))
    <2>1. /\ q \in Nat /\ q2 \in Nat /\ w \in Nat /\ w2 \in Nat /\ f \in Nat /\ g \in Nat
      BY <1>0, <1>1, CountPositive, Zenon DEF TypeOK
    <2>2. /\ k = IF d \in L2_TBEs[b].L1_GetS_IDs THEN 1 ELSE 0
          /\ k2 = IF d \in L2_TBEs'[b].L1_GetS_IDs THEN 1 ELSE 0
      BY OneIfMember, Zenon
    <2>3. /\ l = IF d \in {L2_TBEs[b].L1_WBAck_ID} THEN 1 ELSE 0
          /\ l2 = IF d \in {L2_TBEs'[b].L1_WBAck_ID} THEN 1 ELSE 0
      BY OneIfMember, Zenon
    <2>4. /\ q = q2 + (IF z /\ in_msg.type = "GETS" THEN 1 ELSE 0)
          /\ w = w2 + (IF z /\ in_msg.type # "GETS" THEN 1 ELSE 0)
      BY <1>0, Popped
    <2> HIDE DEF q, q2, w, w2, f, g, k, k2, l, l2
    <2>5. k2 + f = k + f + (IF z /\ in_msg.type = "GETS" THEN 1 ELSE 0)
      <3>1. CASE b # a BY <1>3, <2>1, <2>2, <3>1
      <3>2. CASE b = a /\ in_msg.type = "GETS"
        <4>1. in_msg.src \notin L2_TBEs[a].L1_GetS_IDs BY <3>2, NotRecorded, Zenon
        <4>2. t.L1_GetS_IDs = L2_TBEs[a].L1_GetS_IDs \cup {in_msg.src} BY <3>2, Zenon
        <4>3. CASE d = in_msg.src BY <1>3, <2>1, <2>2, <3>2, <4>1, <4>2, <4>3
        <4>4. CASE d # in_msg.src
          <5>1. k2 = k BY <1>3, <2>2, <3>2, <4>2, <4>4, Zenon
          <5>2. k \in Nat BY <2>2, Zenon
          <5>3. QED BY <2>1, <4>4, <5>1, <5>2
        <4>5. QED BY <4>3, <4>4, Zenon
      <3>3. CASE b = a /\ in_msg.type # "GETS"
        <4>1. t.L1_GetS_IDs = {} /\ L2_TBEs[a].L1_GetS_IDs = {} BY <1>5, <3>3, Zenon
        <4>2. k = 0 /\ k2 = 0 BY <1>3, <2>2, <3>3, <4>1, Zenon
        <4>3. QED BY <2>1, <3>3, <4>2
      <3>4. QED BY <3>1, <3>2, <3>3, Zenon
    <2>6. l2 + g = l + g + (IF z /\ in_msg.type # "GETS" THEN 1 ELSE 0)
      <3>1. CASE b # a BY <1>3, <2>1, <2>3, <3>1
      <3>2. CASE b = a
        <4>1. l = 0 BY <1>4, <2>3, <3>2, KindAssumption, Zenon
        <4>2. CASE in_msg.type = "GETS"
          <5>1. l2 = 0 BY <1>3, <2>3, <3>2, <4>2, KindAssumption
          <5>2. QED BY <2>1, <4>1, <4>2, <5>1
        <4>3. CASE in_msg.type # "GETS"
          <5>1. l2 = IF z THEN 1 ELSE 0 BY <1>3, <2>3, <3>2, <4>3, Zenon
          <5>2. QED BY <2>1, <4>1, <4>3, <5>1
        <4>4. QED BY <4>2, <4>3, Zenon
      <3>3. QED BY <3>1, <3>2, Zenon
    <2>7. k \in Nat /\ k2 \in Nat /\ l \in Nat /\ l2 \in Nat BY <2>2, <2>3, Zenon
    <2>8. q2 + k2 + f = q + k + f BY <2>1, <2>4, <2>5, <2>7, MovedOne
    <2>9. w2 + l2 + g = w + l + g BY <2>1, <2>4, <2>6, <2>7, MovedOne
    <2>10. QED
      BY <1>2, <1>3, <2>8, <2>9, CountFrame, Zenon DEF q, q2, w, w2, f, g, k, k2, l, l2, l1Vars
  <1>7. ASSUME NEW d \in L1s, NEW b \in Addrs PROVE AtomicInv(d, b)'
    <2>1. AtomicInv(d, b) BY Zenon DEF LeaseStrongInv
    <2>2. UNCHANGED <<L1_TBEs, requestFromL1Cache, responseToL1Cache>> BY <1>2, Zenon DEF l1Vars
    <2>3. \A x \in Elements(L1RequestToL2Cache') : x \in Elements(L1RequestToL2Cache)
      BY <1>1, <1>2, Zenon
    <2>4. L1_TBEs[d][b].TBEState = "SM" /\ L2_TBEs'[b].TBEState = "IMA" =>
            L2_TBEs'[b].L1_WBAck_ID # d
      <3>1. CASE b # a BY <1>3, <2>1, <3>1, Zenon DEF AtomicInv
      <3>2. CASE b = a BY <1>1, <1>3, <2>1, <3>2 DEF AtomicInv
      <3>3. QED BY <3>1, <3>2, Zenon
    <2>5. QED BY <2>1, <2>2, <2>3, <2>4, Zenon DEF AtomicInv
  <1>8. ASSUME NEW d \in L1s, NEW b \in Addrs PROVE Stamps(d, b)' \subseteq Stamps(d, b)
    <2>1. UNCHANGED <<now, l1Vars, requestFromL1Cache>> BY <1>2, Zenon
    <2>2. \A y \in Elements(responseToL1Cache'[d]) : y \in Elements(responseToL1Cache[d])
      BY Zenon
    <2>3. QED BY <1>1, <1>2, <2>1, <2>2, StampsGrow, Zenon
  <1>9. LeaseInv(a)' /\ SingleInv(a)'
    <2>1. \A c \in L1s : \A x \in Stamps(c, a) : x \in Nat /\ x < now
      BY <1>1, NoneLive, Zenon
    <2>2. L2cache'[a].CacheState # "E" BY <1>3, Zenon
    <2>3. now' = now /\ now \in Nat BY <1>0, <1>2, Zenon DEF TypeOK
    <2>4. QED BY <1>1, <1>8, <2>1, <2>2, <2>3, NoneLiveNext, Zenon
  <1>10. L2BlockInv(a)'
    BY <1>1, <1>3, Zenon DEF L2BlockInv
  <1>11. L2QueueInv'
    <2>1. L2QueueInv BY Zenon DEF LeaseStrongInv
    <2>2. ASSUME NEW b \in GpusimDramBuffer' PROVE L2_TBEs'[b].TBEState \in {"IS", "IM", "IMA"}
      <3>1. b \in Addrs BY <1>3, Zenon DEF TypeOK
      <3>2. QED BY <1>3, <2>1, <3>1, Zenon DEF L2QueueInv
    <2>3. ASSUME NEW x \in L2ExpireTriggerQueue'
          PROVE  L2_TBEs'[x.addr].TBEState = "MI" /\ x.time = L2_TBEs'[x.addr].liveUntilTime + 1
      <3>1. x \in L2ExpireTriggerQueue /\ x.addr \in Addrs BY <1>0, <1>2, Zenon DEF TypeOK
      <3>2. x.addr # a BY <1>4, <2>1, <3>1, Zenon DEF L2QueueInv
      <3>3. QED BY <1>3, <2>1, <3>1, <3>2 DEF L2QueueInv
    <2>4. QED BY <2>2, <2>3, Zenon DEF L2QueueInv
  <1>12. WritesKept'
    <2>1. ASSUME NEW b \in unwritten
          PROVE  /\ L2cache'[b].CacheState \in {"E", "S", "SS"}
                 /\ L2_TBEs'[b].TBEState = "NoTBE" /\ L2cache'[b].Dirty
      <3>1. /\ L2cache[b].CacheState \in {"E", "S", "SS"} /\ L2cache[b].Dirty
            /\ L2_TBEs[b].TBEState = "NoTBE" /\ b \in Addrs
        BY <1>0, Zenon DEF LeaseStrongInv, WritesKept, L2_TBEs_isPresent, TypeOK
      <3>2. b # a
        <4>1. SUFFICES ASSUME b = a PROVE FALSE BY Zenon
        <4>2. L2cache[a].CacheState \in {"NotPresent", "IS"}
          BY <1>1, L2StateFacts, Zenon DEF LeaseStrongInv, L2BlockInv
        <4>3. QED BY <3>1, <4>1, <4>2, Zenon
      <3>3. QED BY <1>3, <3>1, <3>2, Zenon
    <2>2. QED BY <2>1, Zenon DEF WritesKept, L2_TBEs_isPresent
  <1>13. UNCHANGED <<now, coreVars, l1Vars, requestFromL1Cache>> BY <1>2, Zenon
  <1>14. QED
    BY <1>1, <1>3, <1>6, <1>7, <1>8, <1>9, <1>10, <1>11, <1>12, <1>13, L2StepFrame, Zenon

\* The answer to the request at the head of the port, and the entry it leaves.
AnswersRequest(type) ==
  IF in_msg.type = "GETS"
  THEN type = "DATA"
  ELSE type # "DATA" /\ (type = "DATA_ATOMIC" => in_msg.type = "DATA_ATOMIC")

LeavesEntry(a, e) ==
  /\ e.CacheState \in {"S", "SS"} /\ e.liveUntilTime >= L2cache[a].liveUntilTime
  /\ e.CacheState = "S" => Live(a) \subseteq {in_msg.src}
  /\ unwritten' \subseteq unwritten \cup {a}
  /\ a \in unwritten' => e.Dirty

\* The L2 takes a request for a block it has, and answers it.
LEMMA AnswerStep ==
  ASSUME CountingLaws, LeaseStrongInv, L1RequestToL2Cache # <<>>, NEW a, a = in_msg.addr,
         L2getState(a) \in {"E", "S", "SS"},
         NEW e \in L2Entries, L2Changes(a, e, NoL2TBE),
         NEW type \in {"DATA", "DATA_ATOMIC", "ACK"}, NEW live \in Nat, live = e.liveUntilTime,
         Respond({in_msg.src}, type, a, live),
         jj_popL1RequestQueue, UNCHANGED GpusimDramBuffer,
         AnswersRequest(type), LeavesEntry(a, e)
  PROVE  LeaseStrongInv'
  <1> USE DEF AnswersRequest, LeavesEntry
  <1>0. TypeOK BY Zenon DEF LeaseStrongInv
  <1>1. /\ Tail(L1RequestToL2Cache) \in Seq(RequestMsgs)
        /\ in_msg \in RequestMsgs /\ in_msg \in Elements(L1RequestToL2Cache)
        /\ a \in Addrs /\ in_msg.src \in L1s
        /\ Elements(Tail(L1RequestToL2Cache)) \subseteq Elements(L1RequestToL2Cache)
    BY <1>0, Popped, Zenon
  <1>2. /\ L1RequestToL2Cache' = Tail(L1RequestToL2Cache)
        /\ UNCHANGED <<now, coreVars, l1Vars, requestFromL1Cache, L2ExpireTriggerQueue>>
    BY Zenon DEF jj_popL1RequestQueue
  <1> DEFINE cs == {in_msg.src}
  <1>3. cs \subseteq L1s /\ Respond(cs, type, a, live) /\ \A d : d \in cs <=> d = in_msg.src
    BY <1>1, Zenon
  <1> HIDE DEF cs
  <1>4. responseToL1Cache' \in [L1s -> Seq(ResponseMsgs)]
    BY <1>0, <1>1, <1>3, RespondedType, Zenon
  <1>5. ASSUME NEW d \in L1s, NEW x \in Elements(responseToL1Cache'[d])
        PROVE  \/ x \in Elements(responseToL1Cache[d])
               \/ d = in_msg.src /\ x.type = type /\ x.addr = a /\ x.live = live
    <2>1. Responded(cs, type, a, live) BY <1>0, <1>1, <1>3, RespondedElements, Zenon
    <2>2. QED BY <1>3, <2>1, Zenon DEF Responded, Answers
  <1>6. /\ TypeOK'
        /\ L2cache'[a] = e /\ L2_TBEs'[a] = NoL2TBE
        /\ \A b \in Addrs \ {a} : L2cache'[b] = L2cache[b] /\ L2_TBEs'[b] = L2_TBEs[b]
    <2>1. /\ L2ExpireTriggerQueue' \subseteq [addr : Addrs, time : Nat]
          /\ unwritten' \subseteq Addrs
          /\ GpusimDramBuffer' \subseteq Addrs
          /\ L1RequestToL2Cache' \in Seq(RequestMsgs)
      BY <1>0, <1>1, <1>2, Zenon DEF TypeOK
    <2>2. UNCHANGED <<now, coreVars, l1Vars, requestFromL1Cache>> BY <1>2, Zenon
    <2>3. \E t \in L2TBEs : t = NoL2TBE BY Zenon DEF NoL2TBE, L2TBEs
    <2>4. PICK t \in L2TBEs : t = NoL2TBE BY <2>3, Zenon
    <2>5. L2Changes(a, e, t) BY <2>4, Zenon
    <2>6. /\ TypeOK'
          /\ L2cache'[a] = e /\ L2_TBEs'[a] = t
          /\ \A b \in Addrs \ {a} : L2cache'[b] = L2cache[b] /\ L2_TBEs'[b] = L2_TBEs[b]
      BY <1>0, <1>1, <1>4, <2>1, <2>2, <2>5, L2Typed, Zenon
    <2>7. QED BY <2>4, <2>6, Zenon
  <1>7. L2_TBEs[a] = NoL2TBE BY <1>1, L2StateFacts, Zenon
  <1>8. \A b \in Addrs : L2_TBEs'[b] = L2_TBEs[b] BY <1>6, <1>7, Zenon
  <1>9. ASSUME NEW d \in L1s, NEW b \in Addrs PROVE CountInv(d, b)'
    <2> DEFINE z == d = in_msg.src /\ b = a
               k == Cardinality({d} \cap L2_TBEs[b].L1_GetS_IDs)
               l == Cardinality({d} \cap {L2_TBEs[b].L1_WBAck_ID})
               q == InFlight(L1RequestToL2Cache, Reads(d, b))
               q2 == InFlight(Tail(L1RequestToL2Cache), Reads(d, b))
               w == InFlight(L1RequestToL2Cache, Writes(d, b))
               w2 == InFlight(Tail(L1RequestToL2Cache), Writes(d, b))
               f == InFlight(responseToL1Cache[d], Fills(b))
               f2 == InFlight(responseToL1Cache'[d], Fills(b))
               g == InFlight(responseToL1Cache[d], Acks(b))
               g2 == InFlight(responseToL1Cache'[d], Acks(b))
    <2>1. /\ q \in Nat /\ q2 \in Nat /\ w \in Nat /\ w2 \in Nat
          /\ f \in Nat /\ g \in Nat /\ f2 \in Nat /\ g2 \in Nat
      BY <1>0, <1>1, <1>4, CountPositive, Zenon DEF TypeOK
    <2>2. k \in Nat /\ l \in Nat BY OneIfMember
    <2>3. /\ q = q2 + (IF z /\ in_msg.type = "GETS" THEN 1 ELSE 0)
          /\ w = w2 + (IF z /\ in_msg.type # "GETS" THEN 1 ELSE 0)
      BY <1>0, Popped
    <2>4. /\ f2 = IF d \in cs /\ b = a /\ type = "DATA" THEN f + 1 ELSE f
          /\ g2 = IF d \in cs /\ b = a /\ type # "DATA" THEN g + 1 ELSE g
      <3>1. ResponsesCounted(cs, type, a, d, b) BY <1>0, <1>1, <1>3, RespondedCounts, Zenon
      <3>2. QED BY <3>1, Zenon DEF ResponsesCounted
    <2> HIDE DEF q, q2, w, w2, f, g, f2, g2, k, l
    <2>5. in_msg.type = "GETS" <=> type = "DATA" BY Zenon
    <2>6. k + f2 = k + f + (IF z /\ in_msg.type = "GETS" THEN 1 ELSE 0)
      BY <1>3, <2>1, <2>2, <2>4, <2>5
    <2>7. l + g2 = l + g + (IF z /\ in_msg.type # "GETS" THEN 1 ELSE 0)
      BY <1>3, <2>1, <2>2, <2>4, <2>5
    <2>8. q2 + k + f2 = q + k + f BY <2>1, <2>2, <2>3, <2>6, MovedOne
    <2>9. w2 + l + g2 = w + l + g BY <2>1, <2>2, <2>3, <2>7, MovedOne
    <2>10. QED
      BY <1>2, <1>6, <1>8, <2>8, <2>9, CountFrame DEF q, q2, w, w2, f, g, f2, g2, k, l, l1Vars
  <1>10. ASSUME NEW d \in L1s, NEW b \in Addrs PROVE AtomicInv(d, b)'
    <2>1. AtomicInv(d, b) BY Zenon DEF LeaseStrongInv
    <2>2. UNCHANGED <<L1_TBEs, requestFromL1Cache>> BY <1>2, Zenon DEF l1Vars
    <2>3. \A x \in Elements(L1RequestToL2Cache') : x \in Elements(L1RequestToL2Cache)
      BY <1>1, <1>2, Zenon
    <2>4. L1_TBEs[d][b].TBEState = "SM" =>
            \A x \in Elements(responseToL1Cache'[d]) : x.addr = b => x.type # "DATA_ATOMIC"
      <3> SUFFICES ASSUME L1_TBEs[d][b].TBEState = "SM",
                          NEW x \in Elements(responseToL1Cache'[d]), x.addr = b
                   PROVE  x.type # "DATA_ATOMIC"
        BY Zenon
      <3>1. CASE x \in Elements(responseToL1Cache[d]) BY <2>1, <3>1, Zenon DEF AtomicInv
      <3>2. CASE d = in_msg.src /\ x.type = type /\ x.addr = a
        <4>1. in_msg.type # "DATA_ATOMIC" BY <1>1, <2>1, <3>2, Zenon DEF AtomicInv
        <4>2. QED BY <3>2, <4>1, Zenon
      <3>3. QED BY <1>5, <3>1, <3>2, Zenon
    <2>5. QED BY <1>8, <2>1, <2>2, <2>3, <2>4, Zenon DEF AtomicInv
  <1>11. ASSUME NEW d \in L1s, NEW b \in Addrs, NEW x \in Stamps(d, b)'
         PROVE  x \in Stamps(d, b) \/ (d = in_msg.src /\ b = a /\ x = e.liveUntilTime)
    <2>1. UNCHANGED <<now, l1Vars, requestFromL1Cache>> BY <1>2, Zenon
    <2>2. QED BY <1>1, <1>2, <1>5, <2>1, StampsGrow
  <1>12. now' = now /\ now \in Nat BY <1>0, <1>2, Zenon DEF TypeOK
  <1>13. L2getState(a)' \in {"E", e.CacheState} /\ Promised(a)' = e.liveUntilTime
    <2>1. L2getState(a)' \in {"E", e.CacheState}
      BY <1>6 DEF L2getState, L2_TBEs_isPresent, isL2CacheTagPresent, NoL2TBE
    <2>2. QED BY <1>6, <2>1, Zenon DEF Promised
  <1>14. LeaseInv(a)'
    <2> SUFFICES ASSUME NEW c \in L1s, NEW x \in Stamps(c, a)', x >= now
                 PROVE  x <= e.liveUntilTime
      BY <1>6, <1>12, <1>13, Zenon DEF LeaseInv
    <2>1. CASE x \in Stamps(c, a)
      <3>1. x \in Nat BY <1>0, <1>1, <2>1, StampsType, Zenon
      <3>2. x <= Promised(a) BY <1>1, <2>1, Zenon DEF LeaseStrongInv, LeaseInv
      <3>3. Promised(a) = L2cache[a].liveUntilTime /\ L2cache[a].liveUntilTime \in Nat
        BY <1>1, L2StateFacts, Zenon DEF L2Entries
      <3>4. QED BY <1>3, <3>1, <3>2, <3>3
    <2>2. CASE x = e.liveUntilTime BY <1>3, <2>2
    <2>3. QED BY <1>1, <1>11, <2>1, <2>2, Zenon
  <1>15. SingleInv(a)'
    <2> SUFFICES ASSUME e.CacheState = "S" PROVE Live(a)' \subseteq {in_msg.src}
      BY <1>13, Zenon DEF SingleInv
    <2>1. Live(a) \subseteq {in_msg.src} BY Zenon
    <2>2. QED BY <1>1, <1>11, <1>12, <2>1, Zenon DEF Live
  <1>16. L2BlockInv(a)'
    BY <1>6 DEF L2BlockInv, NoL2TBE
  <1>17. L2QueueInv'
    <2>1. L2QueueInv BY Zenon DEF LeaseStrongInv
    <2>2. GpusimDramBuffer \subseteq Addrs /\ \A q \in L2ExpireTriggerQueue : q.addr \in Addrs
      BY <1>0, Zenon DEF TypeOK
    <2>3. UNCHANGED <<L2ExpireTriggerQueue, GpusimDramBuffer>> BY <1>2, Zenon
    <2>4. \A b \in GpusimDramBuffer' : L2_TBEs'[b].TBEState \in {"IS", "IM", "IMA"}
      BY <1>8, <2>1, <2>2, <2>3, Zenon DEF L2QueueInv
    <2>5. \A q \in L2ExpireTriggerQueue' : L2_TBEs'[q.addr] = L2_TBEs[q.addr]
      BY <1>8, <2>2, <2>3, Zenon
    <2>6. ASSUME NEW q \in L2ExpireTriggerQueue'
          PROVE  L2_TBEs'[q.addr].TBEState = "MI" /\ q.time = L2_TBEs'[q.addr].liveUntilTime + 1
      <3>1. q \in L2ExpireTriggerQueue BY <2>3, Zenon
      <3>2. L2_TBEs[q.addr].TBEState = "MI" /\ q.time = L2_TBEs[q.addr].liveUntilTime + 1
        BY <2>1, <3>1, Zenon DEF L2QueueInv
      <3>3. QED BY <2>5, <3>2, Zenon
    <2>7. QED BY <2>4, <2>6, Zenon DEF L2QueueInv
  <1>18. WritesKept'
    <2>1. ASSUME NEW b \in unwritten'
          PROVE  /\ L2cache'[b].CacheState \in {"E", "S", "SS"}
                 /\ L2_TBEs'[b].TBEState = "NoTBE" /\ L2cache'[b].Dirty
      <3>1. CASE b = a
        <4>1. NoL2TBE.TBEState = "NoTBE" BY Zenon DEF NoL2TBE
        <4>2. QED BY <1>6, <2>1, <3>1, <4>1, Zenon
      <3>2. CASE b # a
        <4>1. /\ L2cache[b].CacheState \in {"E", "S", "SS"} /\ L2cache[b].Dirty
              /\ L2_TBEs[b].TBEState = "NoTBE" /\ b \in Addrs
          BY <1>0, <3>2, Zenon DEF LeaseStrongInv, WritesKept, L2_TBEs_isPresent, TypeOK
        <4>2. QED BY <1>6, <3>2, <4>1, Zenon
      <3>3. QED BY <3>1, <3>2, Zenon
    <2>2. QED BY <2>1, Zenon DEF WritesKept, L2_TBEs_isPresent
  <1>19. UNCHANGED <<now, coreVars, l1Vars, requestFromL1Cache>> BY <1>2, Zenon
  <1>20. \A d \in L1s, b \in Addrs \ {a} : Stamps(d, b)' \subseteq Stamps(d, b) BY <1>11, Zenon
  <1>21. QED
    BY <1>1, <1>6, <1>9, <1>10, <1>14, <1>15, <1>16, <1>17, <1>18, <1>19, <1>20, L2StepFrame, Zenon

\* The memory answers, and the L2 answers the requests that its TBE records: the
\* readers get their leases, the writer its acknowledgement.
LEMMA MemStep ==
  ASSUME CountingLaws, LeaseStrongInv, NEW a \in Addrs, L2_TBEs[a].TBEState # "NoTBE",
         NEW e \in L2Entries, NEW t \in L2TBEs, t = NoL2TBE, L2Changes(a, e, t),
         NEW cs, cs \subseteq L1s,
         NEW type \in {"DATA", "DATA_ATOMIC", "ACK"}, NEW live \in Nat, live = e.liveUntilTime,
         Respond(cs, type, a, live),
         GpusimDramBuffer' = GpusimDramBuffer \ {a},
         UNCHANGED <<now, coreVars, l1Vars, requestFromL1Cache, L1RequestToL2Cache,
                     L2ExpireTriggerQueue>>,
         IF type = "DATA"
         THEN /\ L2_TBEs[a].TBEState = "IS" /\ cs = L2_TBEs[a].L1_GetS_IDs
              /\ e.CacheState \in {"S", "SS"}
              /\ e.CacheState = "S" => \A c, d \in cs : c = d
         ELSE /\ L2_TBEs[a].TBEState \in {"IM", "IMA"} /\ cs = {L2_TBEs[a].L1_WBAck_ID}
              /\ type = "DATA_ATOMIC" => L2_TBEs[a].TBEState = "IMA"
              /\ e.CacheState = "E" /\ e.liveUntilTime = now,
         unwritten' \subseteq unwritten \cup {a}, a \in unwritten' => e.Dirty
  PROVE  LeaseStrongInv'
  <1>0. TypeOK /\ L2BlockInv(a) /\ now \in Nat BY Zenon DEF LeaseStrongInv, TypeOK
  <1>1. responseToL1Cache' \in [L1s -> Seq(ResponseMsgs)]
    BY <1>0, RespondedType, Zenon
  <1>2. ASSUME NEW d \in L1s, NEW x \in Elements(responseToL1Cache'[d])
        PROVE  \/ x \in Elements(responseToL1Cache[d])
               \/ d \in cs /\ x.type = type /\ x.addr = a /\ x.live = live
    <2>1. Responded(cs, type, a, live) BY <1>0, RespondedElements, Zenon
    <2>2. QED BY <2>1, Zenon DEF Responded, Answers
  <1>3. /\ TypeOK'
        /\ L2cache'[a] = e /\ L2_TBEs'[a] = t
        /\ \A b \in Addrs \ {a} : L2cache'[b] = L2cache[b] /\ L2_TBEs'[b] = L2_TBEs[b]
    <2>1. /\ L2ExpireTriggerQueue' \subseteq [addr : Addrs, time : Nat]
          /\ unwritten' \subseteq Addrs
          /\ GpusimDramBuffer' \subseteq Addrs
          /\ L1RequestToL2Cache' \in Seq(RequestMsgs)
      BY <1>0, Zenon DEF TypeOK
    <2>2. UNCHANGED <<now, coreVars, l1Vars, requestFromL1Cache>> BY Zenon
    <2>3. QED BY <1>0, <1>1, <2>1, <2>2, L2Typed, Zenon
  <1>4. /\ t.TBEState = "NoTBE" /\ t.L1_GetS_IDs = {} /\ t.L1_WBAck_ID = NoL1
    BY Zenon DEF NoL2TBE
  <1>5. /\ type = "DATA" => L2_TBEs[a].L1_GetS_IDs = cs /\ L2_TBEs[a].L1_WBAck_ID = NoL1
        /\ type # "DATA" => L2_TBEs[a].L1_GetS_IDs = {} /\ {L2_TBEs[a].L1_WBAck_ID} = cs
    BY <1>0, Zenon DEF L2BlockInv
  <1>6. ASSUME NEW d \in L1s, NEW b \in Addrs PROVE CountInv(d, b)'
    <2> DEFINE k == Cardinality({d} \cap L2_TBEs[b].L1_GetS_IDs)
               k2 == Cardinality({d} \cap L2_TBEs'[b].L1_GetS_IDs)
               l == Cardinality({d} \cap {L2_TBEs[b].L1_WBAck_ID})
               l2 == Cardinality({d} \cap {L2_TBEs'[b].L1_WBAck_ID})
               q == InFlight(L1RequestToL2Cache, Reads(d, b))
               w == InFlight(L1RequestToL2Cache, Writes(d, b))
               f == InFlight(responseToL1Cache[d], Fills(b))
               f2 == InFlight(responseToL1Cache'[d], Fills(b))
               g == InFlight(responseToL1Cache[d], Acks(b))
               g2 == InFlight(responseToL1Cache'[d], Acks(b))
    <2>1. q \in Nat /\ w \in Nat /\ f \in Nat /\ g \in Nat
      BY <1>0, CountPositive, Zenon DEF TypeOK
    <2>2. /\ k = IF d \in L2_TBEs[b].L1_GetS_IDs THEN 1 ELSE 0
          /\ k2 = IF d \in L2_TBEs'[b].L1_GetS_IDs THEN 1 ELSE 0
      BY OneIfMember, Zenon
    <2>3. /\ l = IF d \in {L2_TBEs[b].L1_WBAck_ID} THEN 1 ELSE 0
          /\ l2 = IF d \in {L2_TBEs'[b].L1_WBAck_ID} THEN 1 ELSE 0
      BY OneIfMember, Zenon
    <2>4. /\ f2 = IF d \in cs /\ b = a /\ type = "DATA" THEN f + 1 ELSE f
          /\ g2 = IF d \in cs /\ b = a /\ type # "DATA" THEN g + 1 ELSE g
      <3>1. ResponsesCounted(cs, type, a, d, b) BY <1>0, RespondedCounts, Zenon
      <3>2. QED BY <3>1, Zenon DEF ResponsesCounted
    <2> HIDE DEF q, w, f, f2, g, g2, k, k2, l, l2
    <2>5. k2 + f2 = k + f
      <3>1. CASE b # a BY <1>3, <2>1, <2>2, <2>4, <3>1, Zenon
      <3>2. CASE b = a /\ type = "DATA"
        <4>1. k2 = 0 BY <1>3, <1>4, <2>2, <3>2, Zenon
        <4>2. k = IF d \in cs THEN 1 ELSE 0 BY <1>5, <2>2, <3>2, Zenon
        <4>3. QED BY <2>1, <2>4, <3>2, <4>1, <4>2
      <3>3. CASE b = a /\ type # "DATA"
        <4>1. k2 = 0 /\ k = 0 BY <1>3, <1>4, <1>5, <2>2, <3>3, Zenon
        <4>2. QED BY <2>1, <2>4, <3>3, <4>1, Zenon
      <3>4. QED BY <3>1, <3>2, <3>3, Zenon
    <2>6. l2 + g2 = l + g
      <3>1. CASE b # a BY <1>3, <2>1, <2>3, <2>4, <3>1, Zenon
      <3>2. CASE b = a /\ type # "DATA"
        <4>1. l2 = 0 BY <1>3, <1>4, <2>3, <3>2, KindAssumption
        <4>2. l = IF d \in cs THEN 1 ELSE 0 BY <1>5, <2>3, <3>2, Zenon
        <4>3. QED BY <2>1, <2>4, <3>2, <4>1, <4>2
      <3>3. CASE b = a /\ type = "DATA"
        <4>1. l2 = 0 /\ l = 0 BY <1>3, <1>4, <1>5, <2>3, <3>3, KindAssumption
        <4>2. QED BY <2>1, <2>4, <3>3, <4>1, Zenon
      <3>4. QED BY <3>1, <3>2, <3>3, Zenon
    <2>7. k \in Nat /\ k2 \in Nat /\ l \in Nat /\ l2 \in Nat /\ f2 \in Nat /\ g2 \in Nat
      BY <2>1, <2>2, <2>3, <2>4
    <2>8. q + k2 + f2 = q + k + f /\ w + l2 + g2 = w + l + g BY <2>1, <2>5, <2>6, <2>7
    <2>9. UNCHANGED <<L1_TBEs, requestFromL1Cache, L1RequestToL2Cache>> BY Zenon DEF l1Vars
    <2>10. QED
      BY <1>3, <2>8, <2>9, CountFrame DEF q, w, f, f2, g, g2, k, k2, l, l2
  <1>7. ASSUME NEW d \in L1s, NEW b \in Addrs PROVE AtomicInv(d, b)'
    <2>1. AtomicInv(d, b) BY Zenon DEF LeaseStrongInv
    <2>2. UNCHANGED <<L1_TBEs, requestFromL1Cache, L1RequestToL2Cache>> BY Zenon DEF l1Vars
    <2>3. L2_TBEs'[b].TBEState = "IMA" =>
            L2_TBEs[b].TBEState = "IMA" /\ L2_TBEs[b].L1_WBAck_ID = L2_TBEs'[b].L1_WBAck_ID
      BY <1>3, <1>4, Zenon
    <2>4. L1_TBEs[d][b].TBEState = "SM" =>
            \A x \in Elements(responseToL1Cache'[d]) : x.addr = b => x.type # "DATA_ATOMIC"
      <3> SUFFICES ASSUME L1_TBEs[d][b].TBEState = "SM",
                          NEW x \in Elements(responseToL1Cache'[d]), x.addr = b
                   PROVE  x.type # "DATA_ATOMIC"
        BY Zenon
      <3>1. CASE x \in Elements(responseToL1Cache[d]) BY <2>1, <3>1, Zenon DEF AtomicInv
      <3>2. CASE d \in cs /\ x.type = type /\ x.addr = a
        <4>1. SUFFICES ASSUME type = "DATA_ATOMIC" PROVE FALSE BY <3>2, Zenon
        <4>2. L2_TBEs[a].TBEState = "IMA" /\ L2_TBEs[a].L1_WBAck_ID = d BY <3>2, <4>1, Zenon
        <4>3. QED BY <2>1, <3>2, <4>2, Zenon DEF AtomicInv
      <3>3. QED BY <1>2, <3>1, <3>2, Zenon
    <2>5. QED BY <2>1, <2>2, <2>3, <2>4, Zenon DEF AtomicInv
  <1>8. \A c \in L1s : \A x \in Stamps(c, a) : x \in Nat /\ x < now
    <2>1. L2getState(a) \notin {"S", "SS", "MI"} BY <1>0, L2StateFacts, Zenon
    <2>2. QED BY <2>1, NoneLive, Zenon
  <1>9. ASSUME NEW d \in L1s, L1getState(d, a) = "SM" PROVE FALSE
    <2>1. L1_TBEs[d][a].TBEState = "SM" /\ L1_TBEs[d][a].liveUntilTime >= now
      BY <1>9, L1StateFacts, Zenon
    <2>2. L1_TBEs[d][a].liveUntilTime \in Stamps(d, a) BY <2>1, StampRule, Zenon
    <2>3. QED BY <1>0, <1>8, <2>1, <2>2
  <1>10. ASSUME NEW d \in L1s, NEW b \in Addrs, NEW x \in Stamps(d, b)'
         PROVE  \/ x \in Stamps(d, b)
                \/ d \in cs /\ b = a /\ x = e.liveUntilTime /\ type = "DATA"
    <2>1. UNCHANGED <<now, l1Vars, requestFromL1Cache, L1RequestToL2Cache>> BY Zenon
    <2>2. Elements(L1RequestToL2Cache') \subseteq Elements(L1RequestToL2Cache) BY <2>1, Zenon
    <2>3. CASE x \in Stamps(d, b) BY <2>3, Zenon
    <2>4. CASE \E y \in Elements(responseToL1Cache'[d]) :
              /\ y \notin Elements(responseToL1Cache[d])
              /\ y.addr = b /\ x = y.live
              /\ y.type = "DATA" \/ (y.type = "ACK" /\ L1getState(d, b) = "SM")
      BY <1>2, <1>9, <2>4, Zenon
    <2>5. QED BY <2>1, <2>2, <2>3, <2>4, StampsGrow
  <1>11. now' = now BY Zenon
  <1>12. L2getState(a)' \in {"E", e.CacheState} /\ Promised(a)' = e.liveUntilTime
    <2>1. L2getState(a)' \in {"E", e.CacheState} /\ e.CacheState \in {"E", "S", "SS"}
      BY <1>3, <1>4, Zenon DEF L2getState, L2_TBEs_isPresent, isL2CacheTagPresent
    <2>2. QED BY <1>3, <2>1, Zenon DEF Promised
  <1>13. LeaseInv(a)'
    <2>1. ASSUME NEW c \in L1s, NEW x \in Stamps(c, a)'
          PROVE  /\ x >= now => x <= e.liveUntilTime
                 /\ e.CacheState = "E" => x < e.liveUntilTime
      <3>1. CASE x \in Stamps(c, a)
        <4>1. x \in Nat /\ x < now BY <1>8, <3>1, Zenon
        <4>2. ~(x >= now) BY <1>0, <4>1
        <4>3. QED BY <4>1, <4>2, Zenon
      <3>2. CASE x = e.liveUntilTime /\ type = "DATA"
        <4>1. x <= e.liveUntilTime BY <3>2
        <4>2. QED BY <3>2, <4>1, Zenon
      <3>3. QED BY <1>10, <3>1, <3>2, Zenon
    <2>2. e.CacheState = "E" => e.liveUntilTime <= now BY <1>0
    <2>3. QED BY <1>3, <1>11, <1>12, <2>1, <2>2, Zenon DEF LeaseInv
  <1>14. SingleInv(a)'
    <2> SUFFICES ASSUME e.CacheState = "S", NEW c \in Live(a)', NEW d \in Live(a)' PROVE c = d
      BY <1>12, Zenon DEF SingleInv
    <2>1. ASSUME NEW z \in Live(a)' PROVE z \in cs
      <3>1. PICK x \in Stamps(z, a)' : z \in L1s /\ x >= now BY <1>11, Zenon DEF Live
      <3>2. x \notin Stamps(z, a) BY <1>0, <1>8, <3>1
      <3>3. QED BY <1>10, <3>1, <3>2, Zenon
    <2>2. QED BY <2>1, Zenon
  <1>15. L2BlockInv(a)'
    BY <1>3, <1>4, Zenon DEF L2BlockInv
  <1>16. L2QueueInv'
    <2>1. L2QueueInv BY Zenon DEF LeaseStrongInv
    <2>2. \A b \in GpusimDramBuffer' : L2_TBEs'[b].TBEState \in {"IS", "IM", "IMA"}
      BY <1>0, <1>3, <2>1, Zenon DEF L2QueueInv, TypeOK
    <2>3. ASSUME NEW q \in L2ExpireTriggerQueue'
          PROVE  L2_TBEs'[q.addr].TBEState = "MI" /\ q.time = L2_TBEs'[q.addr].liveUntilTime + 1
      <3>1. /\ L2_TBEs[q.addr].TBEState = "MI" /\ q.time = L2_TBEs[q.addr].liveUntilTime + 1
            /\ q.addr \in Addrs
        BY <1>0, <2>1, Zenon DEF L2QueueInv, TypeOK
      <3>2. q.addr # a BY <3>1, Zenon
      <3>3. QED BY <1>3, <3>1, <3>2, Zenon
    <2>4. QED BY <2>2, <2>3, Zenon DEF L2QueueInv
  <1>17. WritesKept'
    <2>1. ASSUME NEW b \in unwritten'
          PROVE  /\ L2cache'[b].CacheState \in {"E", "S", "SS"}
                 /\ L2_TBEs'[b].TBEState = "NoTBE" /\ L2cache'[b].Dirty
      <3>1. CASE b = a BY <1>3, <1>4, <2>1, <3>1, Zenon
      <3>2. CASE b # a
        <4>1. /\ L2cache[b].CacheState \in {"E", "S", "SS"} /\ L2cache[b].Dirty
              /\ L2_TBEs[b].TBEState = "NoTBE" /\ b \in Addrs
          BY <1>0, <3>2, Zenon DEF LeaseStrongInv, WritesKept, L2_TBEs_isPresent, TypeOK
        <4>2. QED BY <1>3, <3>2, <4>1, Zenon
      <3>3. QED BY <3>1, <3>2, Zenon
    <2>2. QED BY <2>1, Zenon DEF WritesKept, L2_TBEs_isPresent
  <1>18. UNCHANGED <<now, coreVars, l1Vars, requestFromL1Cache>> BY Zenon
  <1>19. \A d \in L1s, b \in Addrs \ {a} : Stamps(d, b)' \subseteq Stamps(d, b) BY <1>10, Zenon
  <1>20. QED
    BY <1>3, <1>6, <1>7, <1>13, <1>14, <1>15, <1>16, <1>17, <1>18, <1>19, L2StepFrame, Zenon

\* The entries that the L2's actions on the block make.
LEMMA BlockTimeUpdate ==
  ASSUME NEW e \in L2Entries, now \in Nat
  PROVE  LET u == t_updateL2BlockTime(e)
         IN /\ u \in L2Entries /\ u.CacheState = e.CacheState /\ u.Dirty = e.Dirty
            /\ u.liveUntilTime >= e.liveUntilTime /\ u.liveUntilTime >= now
  BY LeaseAssumption DEF t_updateL2BlockTime, getTimeMax, L2Entries

\* The fields of an L2 entry after it is marked clean.
LEMMA CleanUpdate ==
  ASSUME NEW e \in L2Entries
  PROVE  LET u == [e EXCEPT !.Dirty = FALSE]
         IN /\ u \in L2Entries /\ u.CacheState = e.CacheState /\ u.Dirty = FALSE
            /\ u.liveUntilTime = e.liveUntilTime
  BY Zenon DEF L2Entries

\* The fields of an L2 entry after ti_incrementL2BlockTime.
LEMMA IncrementUpdate ==
  ASSUME NEW e \in L2Entries
  PROVE  LET u == ti_incrementL2BlockTime(e)
         IN /\ u \in L2Entries /\ u.CacheState = e.CacheState /\ u.Dirty = TRUE
            /\ u.liveUntilTime = e.liveUntilTime + 1
  <1> DEFINE n == e.liveUntilTime + 1
             u == [e EXCEPT !.liveUntilTime = n, !.Dirty = TRUE]
  <1>1. n \in Nat BY DEF L2Entries
  <1> HIDE DEF n
  <1>2. /\ u \in L2Entries /\ u.CacheState = e.CacheState /\ u.Dirty = TRUE
        /\ u.liveUntilTime = n
    BY <1>1, Zenon DEF L2Entries
  <1>3. ti_incrementL2BlockTime(e) = u BY Zenon DEF ti_incrementL2BlockTime, n
  <1> HIDE DEF u
  <1>4. QED BY <1>2, <1>3, Zenon DEF n

\* The fields of an L2 entry after the fill is written from its TBE.
LEMMA StoredUpdate ==
  ASSUME NEW a \in Addrs, L2cache[a] \in L2Entries, L2_TBEs[a] \in L2TBEs, now \in Nat
  PROVE  LET u == mt_writeDataToCacheFromTBE(a)
         IN /\ u \in L2Entries /\ u.CacheState = L2cache[a].CacheState
            /\ u.Dirty = L2_TBEs[a].Dirty /\ u.liveUntilTime = now
  BY Zenon DEF L2Entries, L2TBEs, mt_writeDataToCacheFromTBE

\* A set with no more than one element has no two different ones.
LEMMA AtMostOne ==
  ASSUME CountingLaws, NEW S, IsFiniteSet(S), Cardinality(S) <= 1, NEW c \in S, NEW d \in S
  PROVE  c = d
  <1> SUFFICES ASSUME c # d PROVE FALSE
    BY Zenon
  <1>1. {c, d} \subseteq S BY Zenon
  <1>2. Cardinality({c, d}) <= Cardinality(S) BY <1>1, Zenon DEF CountingLaws, SubsetLaw
  <1>3. Cardinality({c, d}) = 2
    <2>1. IsFiniteSet({c}) /\ Cardinality({c}) = 1 BY Zenon DEF CountingLaws, SingletonLaw
    <2>2. Cardinality({c} \cup {d}) = Cardinality({c}) + 1 BY <2>1, Zenon DEF CountingLaws, AddLaw
    <2>3. {c, d} = {c} \cup {d} BY Zenon
    <2>4. QED BY <2>1, <2>2, <2>3
  <1>4. Cardinality(S) \in Nat BY Zenon DEF CountingLaws, CardinalityLaw
  <1>5. QED BY <1>2, <1>3, <1>4

\* The absent L2 TBE has the type of one.
LEMMA NoTBEType == NoL2TBE \in L2TBEs /\ NoL2TBE.TBEState = "NoTBE"
  BY Zenon DEF NoL2TBE, L2TBEs

\* Data from memory keeps the invariant.
LEMMA MemDataStep ==
  ASSUME CountingLaws, LeaseStrongInv, NEW a \in Addrs, L2_Mem_Data(a)
  PROVE  LeaseStrongInv'
  <1> DEFINE tb == L2_TBEs[a]
             u == t_updateL2BlockTime(L2cache[a])
             fetched == [u EXCEPT !.Dirty = FALSE]
             stored == mt_writeDataToCacheFromTBE(a)
             s == IF Cardinality(tb.L1_GetS_IDs) > 1 THEN "SS" ELSE "S"
  <1>1. /\ L2cache[a] \in L2Entries /\ tb \in L2TBEs /\ now \in Nat
        /\ L2BlockInv(a) /\ WritesKept
    BY Zenon DEF LeaseStrongInv, TypeOK
  <1>2. /\ GpusimDramBuffer' = GpusimDramBuffer \ {a}
        /\ UNCHANGED <<now, coreVars, l1Vars, requestFromL1Cache, L1RequestToL2Cache,
                       L2ExpireTriggerQueue>>
    BY Zenon DEF L2_Mem_Data
  <1>3. \/ /\ tb.TBEState = "IS"
           /\ L2setState(a, s, fetched, NoL2TBE)
           /\ Respond(tb.L1_GetS_IDs, "DATA", a, fetched.liveUntilTime)
           /\ UNCHANGED unwritten
        \/ /\ tb.TBEState \in {"IM", "IMA"}
           /\ L2setState(a, "E", stored, NoL2TBE)
           /\ Respond({tb.L1_WBAck_ID}, IF tb.TBEState = "IM" THEN "ACK" ELSE "DATA_ATOMIC",
                      a, now)
           /\ unwritten' = unwritten \cup {a}
    BY Zenon DEF L2_Mem_Data
  <1>4. CASE /\ tb.TBEState = "IS"
             /\ L2setState(a, s, fetched, NoL2TBE)
             /\ Respond(tb.L1_GetS_IDs, "DATA", a, fetched.liveUntilTime)
             /\ UNCHANGED unwritten
    <2>1. u \in L2Entries /\ u.CacheState = L2cache[a].CacheState BY <1>1, BlockTimeUpdate, Zenon
    <2> HIDE DEF u
    <2>2. fetched \in L2Entries /\ fetched.CacheState = L2cache[a].CacheState
      BY <2>1, CleanUpdate, Zenon
    <2>3. s \in L2States /\ s \in {"S", "SS"} BY Zenon DEF L2States
    <2>4. s = "S" => \A c, d \in tb.L1_GetS_IDs : c = d
      <3>1. tb.L1_GetS_IDs \subseteq L1s BY <1>1, Zenon DEF L2TBEs
      <3>2. IsFiniteSet(tb.L1_GetS_IDs) BY <3>1, KindAssumption, Zenon DEF CountingLaws, SubsetLaw
      <3>3. Cardinality(tb.L1_GetS_IDs) \in Nat BY <3>2, Zenon DEF CountingLaws, CardinalityLaw
      <3>4. s = "S" => Cardinality(tb.L1_GetS_IDs) <= 1 BY <3>3
      <3>5. QED BY <3>2, <3>4, AtMostOne, Zenon
    <2>5. tb.L1_GetS_IDs \subseteq L1s BY <1>1, Zenon DEF L2TBEs
    <2>6. a \notin unwritten BY <1>1, <1>4, Zenon DEF WritesKept, L2_TBEs_isPresent
    <2>7. L2cache[a].CacheState = "IS" BY <1>1, <1>4, Zenon DEF L2BlockInv
    <2> HIDE DEF s, fetched
    <2>8. PICK e \in L2Entries, t \in L2TBEs :
            L2Changes(a, e, t) /\ L2Leaves(s, fetched, NoL2TBE, e, t)
      BY <1>4, <2>2, <2>3, NoTBEType, L2SetState, Zenon
    <2>9. /\ t = NoL2TBE /\ e.CacheState = s /\ e.liveUntilTime = fetched.liveUntilTime
      BY <2>2, <2>7, <2>8, NoTBEType, Zenon DEF L2Leaves
    <2> DEFINE live == e.liveUntilTime
               cs == tb.L1_GetS_IDs
    <2>10. live \in Nat /\ cs \subseteq L1s /\ Respond(cs, "DATA", a, live)
      BY <1>4, <2>5, <2>8, <2>9, Zenon DEF L2Entries
    <2>11. live = e.liveUntilTime /\ cs = L2_TBEs[a].L1_GetS_IDs BY Zenon
    <2>12. /\ L2_TBEs[a].TBEState = "IS" /\ e.CacheState \in {"S", "SS"}
           /\ e.CacheState = "S" => \A c, d \in cs : c = d
           /\ unwritten' \subseteq unwritten \cup {a} /\ (a \in unwritten' => e.Dirty)
      BY <1>4, <2>3, <2>4, <2>6, <2>9, Zenon
    <2> HIDE DEF live, cs, tb
    <2>13. QED BY <1>2, <2>8, <2>9, <2>10, <2>11, <2>12, MemStep, Zenon
  <1>5. CASE /\ tb.TBEState \in {"IM", "IMA"}
             /\ L2setState(a, "E", stored, NoL2TBE)
             /\ Respond({tb.L1_WBAck_ID}, IF tb.TBEState = "IM" THEN "ACK" ELSE "DATA_ATOMIC",
                        a, now)
             /\ unwritten' = unwritten \cup {a}
    <2>1. /\ stored \in L2Entries /\ stored.CacheState = L2cache[a].CacheState
          /\ stored.Dirty = tb.Dirty /\ stored.liveUntilTime = now
      BY <1>1, StoredUpdate, Zenon
    <2>2. L2cache[a].CacheState \in {"IM", "IMA"} /\ tb.L1_WBAck_ID \in L1s /\ tb.Dirty
      BY <1>1, <1>5, Zenon DEF L2BlockInv
    <2> HIDE DEF stored
    <2>3. "E" \in L2States BY Zenon DEF L2States
    <2>4. PICK e \in L2Entries, t \in L2TBEs :
            L2Changes(a, e, t) /\ L2Leaves("E", stored, NoL2TBE, e, t)
      BY <1>5, <2>1, <2>3, NoTBEType, L2SetState, Zenon
    <2>5. t = NoL2TBE /\ e.CacheState = "E" /\ e.liveUntilTime = now /\ e.Dirty
      BY <2>1, <2>2, <2>4, NoTBEType, Zenon DEF L2Leaves
    <2> DEFINE live == now
               cs == {tb.L1_WBAck_ID}
               type == IF tb.TBEState = "IM" THEN "ACK" ELSE "DATA_ATOMIC"
    <2>6. /\ live \in Nat /\ live = e.liveUntilTime /\ cs \subseteq L1s
          /\ Respond(cs, type, a, live) /\ cs = {L2_TBEs[a].L1_WBAck_ID}
          /\ type \in {"DATA", "DATA_ATOMIC", "ACK"} /\ type # "DATA"
      BY <1>1, <1>5, <2>2, <2>5, Zenon
    <2>7. /\ L2_TBEs[a].TBEState \in {"IM", "IMA"}
          /\ type = "DATA_ATOMIC" => L2_TBEs[a].TBEState = "IMA"
          /\ unwritten' \subseteq unwritten \cup {a}
      BY <1>5, Zenon
    <2> HIDE DEF live, cs, type, tb
    <2>8. QED BY <1>2, <2>4, <2>5, <2>6, <2>7, MemStep
  <1>6. QED BY <1>3, <1>4, <1>5, Zenon

\* The entries and TBEs that the L2 allocates.
LEMMA FetchedEntry ==
  LET u == [NoL2Entry EXCEPT !.CacheState = "NP"]
  IN u \in L2Entries /\ u.CacheState = "NP" /\ u.liveUntilTime = 0
  BY Zenon DEF NoL2Entry, L2Entries, L2States

\* The fields of the L2 entry that a store miss allocates.
LEMMA StoreEntry ==
  LET u == [NoL2Entry EXCEPT !.CacheState = "NP", !.Dirty = TRUE]
  IN u \in L2Entries /\ u.CacheState = "NP" /\ u.liveUntilTime = 0
  BY Zenon DEF NoL2Entry, L2Entries, L2States

\* The fields of the L2 TBE that a read miss allocates.
LEMMA ReadTBE ==
  ASSUME NEW c \in L1s
  PROVE  LET u == [NoL2TBE EXCEPT !.TBEState = "NP", !.L1_GetS_IDs = {c}]
         IN /\ u \in L2TBEs /\ u.TBEState = "NP"
            /\ u.L1_GetS_IDs = {c} /\ u.L1_WBAck_ID = NoL1
  BY Zenon DEF NoL2TBE, L2TBEs, L2States

\* The fields of the L2 TBE that a store miss allocates.
LEMMA StoreTBE ==
  ASSUME NEW c \in L1s
  PROVE  LET u == [NoL2TBE EXCEPT !.TBEState = "NP", !.L1_WBAck_ID = c, !.Dirty = TRUE]
         IN /\ u \in L2TBEs /\ u.TBEState = "NP"
            /\ u.L1_GetS_IDs = {} /\ u.L1_WBAck_ID = c /\ u.Dirty
  BY Zenon DEF NoL2TBE, L2TBEs, L2States

\* The fields of an L2 TBE after another reader joins it.
LEMMA MergedTBE ==
  ASSUME NEW t \in L2TBEs, NEW c \in L1s
  PROVE  LET u == [t EXCEPT !.L1_GetS_IDs = @ \cup {c}]
         IN /\ u \in L2TBEs /\ u.TBEState = t.TBEState
            /\ u.L1_GetS_IDs = t.L1_GetS_IDs \cup {c} /\ u.L1_WBAck_ID = t.L1_WBAck_ID
  BY Zenon DEF L2TBEs

\* The events of the L2's request port.
LEMMA EventFacts ==
  ASSUME CountingLaws, TypeOK, NEW event, L2Triggers(event)
  PROVE  /\ L1RequestToL2Cache # <<>>
         /\ event = "L1_GETS" => in_msg.type = "GETS"
         /\ event = "L1_Write" => in_msg.type = "DATA"
         /\ event = "L2_Atomic" => in_msg.type = "DATA_ATOMIC"
         /\ event = "L1_Upgrade_T" => in_msg.type = "DATA_UPGRADE" /\ TimestampsMatch(in_msg)
         /\ event = "L1_Upgrade_NT" => in_msg.type = "DATA_UPGRADE"
  <1>1. L1RequestToL2Cache # <<>> /\ L2Event(in_msg) = event BY Zenon DEF L2Triggers
  <1>2. in_msg \in RequestMsgs BY <1>1, Popped, Zenon
  <1>3. in_msg.type \in {"GETS", "DATA", "DATA_UPGRADE", "DATA_ATOMIC"}
    BY <1>2, Zenon DEF RequestMsgs
  <1>4. CASE in_msg.type = "DATA_UPGRADE" BY <1>1, <1>4, Zenon DEF L2Event
  <1>5. CASE in_msg.type = "GETS" BY <1>1, <1>5, Zenon DEF L2Event
  <1>6. CASE in_msg.type = "DATA" BY <1>1, <1>6, Zenon DEF L2Event
  <1>7. CASE in_msg.type = "DATA_ATOMIC" BY <1>1, <1>7, Zenon DEF L2Event
  <1>8. QED BY <1>3, <1>4, <1>5, <1>6, <1>7, Zenon

\* A write waits for the fetch of its block.
LEMMA FetchStep ==
  ASSUME CountingLaws, LeaseStrongInv, L1RequestToL2Cache # <<>>, in_msg.type # "GETS",
         NEW s \in {"IM", "IMA"}, s = "IMA" => in_msg.type = "DATA_ATOMIC",
         L2getState(in_msg.addr) = "NP", FetchForStore(s)
  PROVE  LeaseStrongInv'
  <1> DEFINE a == in_msg.addr
             u == [NoL2Entry EXCEPT !.CacheState = "NP", !.Dirty = TRUE]
             v == [NoL2TBE EXCEPT !.TBEState = "NP", !.L1_WBAck_ID = in_msg.src, !.Dirty = TRUE]
  <1>1. TypeOK BY Zenon DEF LeaseStrongInv
  <1>2. a \in Addrs /\ in_msg.src \in L1s BY <1>1, Popped, Zenon
  <1>3. u \in L2Entries /\ u.CacheState = "NP" /\ u.liveUntilTime = 0 BY StoreEntry, Zenon
  <1>4. /\ v \in L2TBEs /\ v.TBEState = "NP"
        /\ v.L1_GetS_IDs = {} /\ v.L1_WBAck_ID = in_msg.src /\ v.Dirty
    BY <1>2, StoreTBE, Zenon
  <1>5. /\ L2setState(a, s, u, v) /\ GpusimDramBuffer' = GpusimDramBuffer \cup {a}
        /\ UNCHANGED <<unwritten, responseToL1Cache>> /\ jj_popL1RequestQueue
    BY Zenon DEF FetchForStore
  <1>6. s \in L2States BY Zenon DEF L2States
  <1>7. a = in_msg.addr /\ L2getState(a) = "NP" BY Zenon
  <1> HIDE DEF a, u, v
  <1>8. PICK e \in L2Entries, t \in L2TBEs : L2Changes(a, e, t) /\ L2Leaves(s, u, v, e, t)
    BY <1>2, <1>3, <1>4, <1>5, <1>6, L2SetState, Zenon
  <1>9. /\ e.CacheState = s /\ e.liveUntilTime = 0 /\ t.TBEState = s
        /\ t.L1_GetS_IDs = {} /\ t.L1_WBAck_ID = in_msg.src /\ t.Dirty
    BY <1>3, <1>4, <1>8, Zenon DEF L2Leaves
  <1>10. QED BY <1>5, <1>7, <1>8, <1>9, TakeStep, Zenon

\* A write is performed when no L1 but the writer has a time stamp that is live.
LEMMA PerformStep ==
  ASSUME CountingLaws, LeaseStrongInv, L1RequestToL2Cache # <<>>, in_msg.type # "GETS",
         NEW type \in {"ACK", "DATA_ATOMIC"},
         type = "DATA_ATOMIC" => in_msg.type = "DATA_ATOMIC",
         L2getState(in_msg.addr) \in {"E", "S"}, Live(in_msg.addr) \subseteq {in_msg.src},
         PerformWrite(type)
  PROVE  LeaseStrongInv'
  <1> DEFINE a == in_msg.addr
             u == ti_incrementL2BlockTime(L2cache[a])
  <1>1. TypeOK BY Zenon DEF LeaseStrongInv
  <1>2. a \in Addrs /\ in_msg.src \in L1s BY <1>1, Popped, Zenon
  <1>3. /\ L2cache[a] \in L2Entries /\ L2_TBEs[a] = NoL2TBE
        /\ L2cache[a].CacheState \in {"E", "S", "SS"}
    BY <1>2, L2StateFacts, Zenon
  <1>4. /\ u \in L2Entries /\ u.CacheState = L2cache[a].CacheState /\ u.Dirty = TRUE
        /\ u.liveUntilTime = L2cache[a].liveUntilTime + 1
    BY <1>3, IncrementUpdate, Zenon
  <1>5. /\ L2setState(a, "S", u, NoL2TBE)
        /\ Respond({in_msg.src}, type, a, u.liveUntilTime)
        /\ unwritten' = unwritten \cup {a}
        /\ UNCHANGED GpusimDramBuffer /\ jj_popL1RequestQueue
    BY <1>3, Zenon DEF PerformWrite
  <1>6. "S" \in L2States BY Zenon DEF L2States
  <1>7. a = in_msg.addr /\ L2getState(a) \in {"E", "S"} /\ Live(a) \subseteq {in_msg.src} BY Zenon
  <1> HIDE DEF a, u
  <1>8. PICK e \in L2Entries, t \in L2TBEs : L2Changes(a, e, t) /\ L2Leaves("S", u, NoL2TBE, e, t)
    BY <1>2, <1>4, <1>5, <1>6, NoTBEType, L2SetState, Zenon
  <1>9. /\ e.CacheState = "S" /\ e.liveUntilTime = u.liveUntilTime /\ e.Dirty /\ t = NoL2TBE
    BY <1>3, <1>4, <1>8, NoTBEType, Zenon DEF L2Leaves
  <1>10. e.liveUntilTime >= L2cache[a].liveUntilTime
    <2>1. L2cache[a].liveUntilTime \in Nat BY <1>3, Zenon DEF L2Entries
    <2>2. QED BY <1>4, <1>9, <2>1
  <1> DEFINE live == e.liveUntilTime
  <1>11. live \in Nat /\ live = e.liveUntilTime /\ Respond({in_msg.src}, type, a, live)
    BY <1>5, <1>9, Zenon DEF L2Entries
  <1> HIDE DEF live
  <1>12. type \in {"DATA", "DATA_ATOMIC", "ACK"} /\ type # "DATA" BY Zenon
  <1>13. L2Changes(a, e, NoL2TBE) BY <1>8, <1>9, Zenon
  <1>14. AnswersRequest(type) BY <1>12, Zenon DEF AnswersRequest
  <1>15. LeavesEntry(a, e) BY <1>5, <1>7, <1>9, <1>10, Zenon DEF LeavesEntry
  <1>16. L2getState(a) \in {"E", "S", "SS"} BY <1>7, Zenon
  <1>17. QED BY <1>5, <1>7, <1>11, <1>12, <1>13, <1>14, <1>15, <1>16, AnswerStep, Zenon

\* In E no L1 has a time stamp that is live.
LEMMA ExpiredNoneLive ==
  ASSUME LeaseStrongInv, NEW a \in Addrs, L2getState(a) = "E"
  PROVE  Live(a) = {}
  <1>1. \A c \in L1s : \A t \in Stamps(c, a) : t \in Nat /\ t < now BY NoneLive, Zenon
  <1>2. now \in Nat BY Zenon DEF LeaseStrongInv, TypeOK
  <1>3. QED BY <1>1, <1>2 DEF Live

\* An upgrade whose time stamp is the L2's comes from the one L1 with a live copy.
LEMMA UpgradeAlone ==
  ASSUME CountingLaws, LeaseStrongInv, L1RequestToL2Cache # <<>>, in_msg.type = "DATA_UPGRADE",
         TimestampsMatch(in_msg), L2getState(in_msg.addr) = "S"
  PROVE  Live(in_msg.addr) \subseteq {in_msg.src}
  <1>1. TypeOK BY Zenon DEF LeaseStrongInv
  <1>2. /\ in_msg.addr \in Addrs /\ in_msg.src \in L1s
        /\ in_msg \in Elements(L1RequestToL2Cache)
    BY <1>1, Popped, Zenon
  <1>3. in_msg.live \in Stamps(in_msg.src, in_msg.addr) BY <1>2, StampRule, Zenon
  <1>4. in_msg.live >= now BY Zenon DEF TimestampsMatch, L2isLive
  <1>5. in_msg.src \in Live(in_msg.addr) BY <1>2, <1>3, <1>4, Zenon DEF Live
  <1>6. SingleInv(in_msg.addr) BY <1>2, Zenon DEF LeaseStrongInv
  <1>7. QED BY <1>5, <1>6, Zenon DEF SingleInv

\* A write at the L2 keeps the invariant.
LEMMA WriteStep ==
  ASSUME CountingLaws, LeaseStrongInv, L2_Write
  PROVE  LeaseStrongInv'
  <1>1. TypeOK BY Zenon DEF LeaseStrongInv
  <1>2. L1RequestToL2Cache # <<>> /\ in_msg.type \in {"DATA", "DATA_UPGRADE"}
    BY <1>1, EventFacts, Zenon DEF L2_Write
  <1>3. in_msg.addr \in Addrs BY <1>1, <1>2, Popped, Zenon
  <1>4. CASE L2getState(in_msg.addr) = "NP" /\ FetchForStore("IM") BY <1>2, <1>4, FetchStep, Zenon
  <1>5. CASE MayWrite(L2getState(in_msg.addr)) /\ PerformWrite("ACK")
    <2>1. L2getState(in_msg.addr) = "E" BY <1>5, Zenon DEF MayWrite
    <2>2. Live(in_msg.addr) \subseteq {in_msg.src} BY <1>3, <2>1, ExpiredNoneLive, Zenon
    <2>3. QED BY <1>2, <1>5, <2>1, <2>2, PerformStep, Zenon
  <1>6. QED BY <1>4, <1>5, Zenon DEF L2_Write

\* An atomic at the L2 keeps the invariant.
LEMMA L2AtomicStep ==
  ASSUME CountingLaws, LeaseStrongInv, L2_Atomic
  PROVE  LeaseStrongInv'
  <1>1. TypeOK BY Zenon DEF LeaseStrongInv
  <1>2. L1RequestToL2Cache # <<>> /\ in_msg.type = "DATA_ATOMIC"
    BY <1>1, EventFacts, Zenon DEF L2_Atomic
  <1>3. in_msg.addr \in Addrs BY <1>1, <1>2, Popped, Zenon
  <1>4. CASE L2getState(in_msg.addr) = "NP" /\ FetchForStore("IMA") BY <1>2, <1>4, FetchStep, Zenon
  <1>5. CASE MayWrite(L2getState(in_msg.addr)) /\ PerformWrite("DATA_ATOMIC")
    <2>1. L2getState(in_msg.addr) = "E" BY <1>5, Zenon DEF MayWrite
    <2>2. Live(in_msg.addr) \subseteq {in_msg.src} BY <1>3, <2>1, ExpiredNoneLive, Zenon
    <2>3. QED BY <1>2, <1>5, <2>1, <2>2, PerformStep, Zenon
  <1>6. QED BY <1>4, <1>5, Zenon DEF L2_Atomic

\* An upgrade at the L2 keeps the invariant.
LEMMA UpgradeStep ==
  ASSUME CountingLaws, LeaseStrongInv, L2_Upgrade_T
  PROVE  LeaseStrongInv'
  <1>1. TypeOK BY Zenon DEF LeaseStrongInv
  <1>2. /\ L1RequestToL2Cache # <<>> /\ in_msg.type = "DATA_UPGRADE" /\ TimestampsMatch(in_msg)
        /\ L2getState(in_msg.addr) = "S" /\ PerformWrite("ACK")
    BY <1>1, EventFacts, Zenon DEF L2_Upgrade_T
  <1>3. Live(in_msg.addr) \subseteq {in_msg.src} BY <1>2, UpgradeAlone, Zenon
  <1>4. QED BY <1>2, <1>3, PerformStep, Zenon

\* A read of a block that is not present starts a fetch.
LEMMA ReadMissStep ==
  ASSUME CountingLaws, LeaseStrongInv, L1RequestToL2Cache # <<>>, in_msg.type = "GETS",
         NEW a, a = in_msg.addr, L2getState(a) = "NP",
         L2setState(a, "IS", [NoL2Entry EXCEPT !.CacheState = "NP"],
                    [NoL2TBE EXCEPT !.TBEState = "NP", !.L1_GetS_IDs = {in_msg.src}]),
         GpusimDramBuffer' = GpusimDramBuffer \cup {a},
         UNCHANGED <<responseToL1Cache, unwritten>>, jj_popL1RequestQueue
  PROVE  LeaseStrongInv'
  <1> DEFINE u == [NoL2Entry EXCEPT !.CacheState = "NP"]
             v == [NoL2TBE EXCEPT !.TBEState = "NP", !.L1_GetS_IDs = {in_msg.src}]
  <1>1. TypeOK BY Zenon DEF LeaseStrongInv
  <1>2. a \in Addrs /\ in_msg.src \in L1s BY <1>1, Popped, Zenon
  <1>3. u \in L2Entries /\ u.CacheState = "NP" /\ u.liveUntilTime = 0 BY FetchedEntry, Zenon
  <1>4. /\ v \in L2TBEs /\ v.TBEState = "NP"
        /\ v.L1_GetS_IDs = {in_msg.src} /\ v.L1_WBAck_ID = NoL1
    BY <1>2, ReadTBE, Zenon
  <1>5. L2setState(a, "IS", u, v) /\ "IS" \in L2States BY Zenon DEF L2States
  <1> HIDE DEF u, v
  <1>6. PICK e \in L2Entries, t \in L2TBEs : L2Changes(a, e, t) /\ L2Leaves("IS", u, v, e, t)
    BY <1>2, <1>3, <1>4, <1>5, L2SetState, Zenon
  <1>7. /\ e.CacheState = "IS" /\ e.liveUntilTime = 0 /\ t.TBEState = "IS"
        /\ t.L1_GetS_IDs = {in_msg.src} /\ t.L1_WBAck_ID = NoL1
    BY <1>3, <1>4, <1>6, Zenon DEF L2Leaves
  <1>8. L2_TBEs[a].L1_GetS_IDs = {}
    <2>1. L2_TBEs[a] = NoL2TBE BY <1>2, L2StateFacts, Zenon
    <2>2. QED BY <2>1 DEF NoL2TBE
  <1>9. t.L1_GetS_IDs = L2_TBEs[a].L1_GetS_IDs \cup {in_msg.src} BY <1>7, <1>8, Zenon
  <1>10. GpusimDramBuffer' \subseteq GpusimDramBuffer \cup {a} BY Zenon
  <1>11. QED BY <1>6, <1>7, <1>9, <1>10, TakeStep, Zenon

\* A read of a block that is being fetched joins the readers of its TBE.
LEMMA ReadMergeStep ==
  ASSUME CountingLaws, LeaseStrongInv, L1RequestToL2Cache # <<>>, in_msg.type = "GETS",
         NEW a, a = in_msg.addr, L2getState(a) = "IS",
         L2_TBEs' = [L2_TBEs EXCEPT ![a].L1_GetS_IDs = @ \cup {in_msg.src}],
         UNCHANGED <<L2cache, GpusimDramBuffer, responseToL1Cache, unwritten>>,
         jj_popL1RequestQueue
  PROVE  LeaseStrongInv'
  <1> DEFINE e == L2cache[a]
             v == L2_TBEs[a]
             t == [v EXCEPT !.L1_GetS_IDs = @ \cup {in_msg.src}]
  <1>1. TypeOK BY Zenon DEF LeaseStrongInv
  <1>2. a \in Addrs /\ in_msg.src \in L1s BY <1>1, Popped, Zenon
  <1>3. /\ e \in L2Entries /\ v \in L2TBEs /\ v.TBEState = "IS" BY <1>2, L2StateFacts, Zenon
  <1>4. e.CacheState = "IS" /\ e.liveUntilTime = 0 /\ v.L1_WBAck_ID = NoL1
    BY <1>2, <1>3, Zenon DEF LeaseStrongInv, L2BlockInv
  <1>5. L2cache' = [L2cache EXCEPT ![a] = e] BY <1>1, <1>2, Zenon DEF TypeOK
  <1>6. L2_TBEs' = [L2_TBEs EXCEPT ![a] = t] BY <1>1, <1>2, Zenon DEF TypeOK
  <1>7. L2_TBEs[a].L1_GetS_IDs = v.L1_GetS_IDs BY Zenon
  <1> HIDE DEF v, e
  <1>8. /\ t \in L2TBEs /\ t.TBEState = "IS"
        /\ t.L1_GetS_IDs = v.L1_GetS_IDs \cup {in_msg.src} /\ t.L1_WBAck_ID = NoL1
    <2>1. /\ t \in L2TBEs /\ t.TBEState = v.TBEState
          /\ t.L1_GetS_IDs = v.L1_GetS_IDs \cup {in_msg.src} /\ t.L1_WBAck_ID = v.L1_WBAck_ID
      BY <1>2, <1>3, MergedTBE, Zenon
    <2>2. QED BY <1>3, <1>4, <2>1, Zenon
  <1> HIDE DEF t
  <1>9. L2Changes(a, e, t) BY <1>5, <1>6, Zenon DEF L2Changes
  <1>10. t.L1_GetS_IDs = L2_TBEs[a].L1_GetS_IDs \cup {in_msg.src} BY <1>7, <1>8, Zenon
  <1>11. GpusimDramBuffer' \subseteq GpusimDramBuffer \cup {a} BY Zenon
  <1>12. QED BY <1>3, <1>4, <1>8, <1>9, <1>10, <1>11, TakeStep, Zenon

\* A read of a block that is present extends the lease.
LEMMA ReadHitStep ==
  ASSUME CountingLaws, LeaseStrongInv, L1RequestToL2Cache # <<>>, in_msg.type = "GETS",
         NEW a, a = in_msg.addr, L2getState(a) \in {"E", "S", "SS"},
         NEW u, u = t_updateL2BlockTime(L2cache[a]),
         L2setState(a, SharedBy(L2getState(a)), u, L2_TBEs[a]),
         Respond({in_msg.src}, "DATA", a, u.liveUntilTime),
         UNCHANGED <<GpusimDramBuffer, unwritten>>, jj_popL1RequestQueue
  PROVE  LeaseStrongInv'
  <1> DEFINE s == SharedBy(L2getState(a))
  <1>1. TypeOK /\ now \in Nat BY Zenon DEF LeaseStrongInv, TypeOK
  <1>2. a \in Addrs /\ in_msg.src \in L1s BY <1>1, Popped, Zenon
  <1>3. /\ L2cache[a] \in L2Entries /\ L2_TBEs[a] = NoL2TBE
        /\ L2cache[a].CacheState \in {"E", "S", "SS"}
    BY <1>2, L2StateFacts, Zenon
  <1>4. /\ u \in L2Entries /\ u.CacheState = L2cache[a].CacheState
        /\ u.Dirty = L2cache[a].Dirty /\ u.liveUntilTime >= L2cache[a].liveUntilTime
    BY <1>1, <1>3, BlockTimeUpdate, Zenon
  <1>5. /\ s \in L2States /\ s \in {"S", "SS"} /\ (s = "S" => L2getState(a) = "E")
        /\ L2setState(a, s, u, NoL2TBE)
    BY <1>3, Zenon DEF SharedBy, L2States
  <1>6. s = "S" => Live(a) \subseteq {in_msg.src} BY <1>2, <1>5, ExpiredNoneLive, Zenon
  <1> HIDE DEF s
  <1>7. PICK e \in L2Entries, t \in L2TBEs : L2Changes(a, e, t) /\ L2Leaves(s, u, NoL2TBE, e, t)
    BY <1>2, <1>4, <1>5, NoTBEType, L2SetState, Zenon
  <1>8. /\ e.CacheState = s /\ e.liveUntilTime = u.liveUntilTime
        /\ e.Dirty = L2cache[a].Dirty /\ t = NoL2TBE
    BY <1>3, <1>4, <1>7, NoTBEType, Zenon DEF L2Leaves
  <1>9. a \in unwritten' => e.Dirty BY <1>8, Zenon DEF LeaseStrongInv, WritesKept
  <1> DEFINE live == e.liveUntilTime
  <1>10. live \in Nat /\ live = e.liveUntilTime /\ Respond({in_msg.src}, "DATA", a, live)
    BY <1>8, Zenon DEF L2Entries
  <1>11. e.liveUntilTime >= L2cache[a].liveUntilTime BY <1>4, <1>8, Zenon
  <1> HIDE DEF live
  <1>12. L2Changes(a, e, NoL2TBE) BY <1>7, <1>8, Zenon
  <1>13. AnswersRequest("DATA") BY Zenon DEF AnswersRequest
  <1>14. LeavesEntry(a, e) BY <1>5, <1>6, <1>8, <1>9, <1>11, Zenon DEF LeavesEntry
  <1>15. QED BY <1>10, <1>12, <1>13, <1>14, AnswerStep, Zenon

\* A read at the L2 keeps the invariant.
LEMMA ReadStep ==
  ASSUME CountingLaws, LeaseStrongInv, L2_GETS
  PROVE  LeaseStrongInv'
  <1> DEFINE a == in_msg.addr
             u == t_updateL2BlockTime(L2cache[a])
  <1>1. TypeOK BY Zenon DEF LeaseStrongInv
  <1>2. L2Triggers("L1_GETS") /\ jj_popL1RequestQueue /\ UNCHANGED unwritten BY Zenon DEF L2_GETS
  <1>3. L1RequestToL2Cache # <<>> /\ in_msg.type = "GETS" BY <1>1, <1>2, EventFacts, Zenon
  <1>4. CASE /\ L2getState(a) = "NP"
             /\ L2setState(a, "IS", [NoL2Entry EXCEPT !.CacheState = "NP"],
                    [NoL2TBE EXCEPT !.TBEState = "NP", !.L1_GetS_IDs = {in_msg.src}])
             /\ GpusimDramBuffer' = GpusimDramBuffer \cup {a}
             /\ UNCHANGED responseToL1Cache
    BY <1>2, <1>3, <1>4, ReadMissStep, Zenon
  <1>5. CASE /\ L2getState(a) = "IS"
             /\ L2_TBEs' = [L2_TBEs EXCEPT ![a].L1_GetS_IDs = @ \cup {in_msg.src}]
             /\ UNCHANGED <<L2cache, GpusimDramBuffer, responseToL1Cache>>
    BY <1>2, <1>3, <1>5, ReadMergeStep, Zenon
  <1>6. CASE /\ L2getState(a) \in {"E", "S", "SS"}
             /\ L2setState(a, SharedBy(L2getState(a)), u, L2_TBEs[a])
             /\ Respond({in_msg.src}, "DATA", a, u.liveUntilTime)
             /\ UNCHANGED GpusimDramBuffer
    <2>1. u = t_updateL2BlockTime(L2cache[a]) BY Zenon
    <2> HIDE DEF u
    <2>2. QED BY <1>2, <1>3, <1>6, <2>1, ReadHitStep, Zenon
  <1>7. QED BY <1>4, <1>5, <1>6, Zenon DEF L2_GETS

\* The L2 drops its copy of a, or the TBE that remembered its lease.
LEMMA DropStep ==
  ASSUME CountingLaws, LeaseStrongInv, NEW a \in Addrs,
         NEW e \in L2Entries, NEW t \in L2TBEs, L2Changes(a, e, t),
         UNCHANGED <<now, coreVars, l1Vars, requestFromL1Cache, L1RequestToL2Cache,
                     responseToL1Cache, GpusimDramBuffer>>,
         L2_TBEs[a].TBEState \in {"NoTBE", "MI"},
         e.CacheState = "NotPresent", t.L1_GetS_IDs = {}, t.L1_WBAck_ID = NoL1,
         \/ t = NoL2TBE /\ \A c \in L1s : \A x \in Stamps(c, a) : x \in Nat /\ x < now
         \/ t.TBEState = "MI" /\ t.liveUntilTime = Promised(a),
         L2ExpireTriggerQueue' \subseteq [addr : Addrs, time : Nat],
         \A q \in L2ExpireTriggerQueue' :
           \/ q \in L2ExpireTriggerQueue /\ q.addr # a
           \/ q.addr = a /\ t.TBEState = "MI" /\ q.time = t.liveUntilTime + 1,
         unwritten' \subseteq unwritten, a \notin unwritten'
  PROVE  LeaseStrongInv'
  <1>0. TypeOK /\ L2BlockInv(a) /\ now \in Nat BY Zenon DEF LeaseStrongInv, TypeOK
  <1>1. /\ TypeOK'
        /\ L2cache'[a] = e /\ L2_TBEs'[a] = t
        /\ \A b \in Addrs \ {a} : L2cache'[b] = L2cache[b] /\ L2_TBEs'[b] = L2_TBEs[b]
    <2>1. /\ unwritten' \subseteq Addrs /\ GpusimDramBuffer' \subseteq Addrs
          /\ L1RequestToL2Cache' \in Seq(RequestMsgs)
          /\ responseToL1Cache' \in [L1s -> Seq(ResponseMsgs)]
      BY <1>0, Zenon DEF TypeOK
    <2>2. UNCHANGED <<now, coreVars, l1Vars, requestFromL1Cache>> BY Zenon
    <2>3. QED BY <1>0, <2>1, <2>2, L2Typed, Zenon
  <1>2. L2_TBEs[a].L1_GetS_IDs = {} /\ L2_TBEs[a].L1_WBAck_ID = NoL1
    BY <1>0 DEF L2BlockInv, NoL2TBE
  <1>3. \A b \in Addrs : /\ L2_TBEs'[b].L1_GetS_IDs = L2_TBEs[b].L1_GetS_IDs
                         /\ L2_TBEs'[b].L1_WBAck_ID = L2_TBEs[b].L1_WBAck_ID
    BY <1>1, <1>2, Zenon
  <1>4. t.TBEState \in {"NoTBE", "MI"} /\ (t.TBEState = "NoTBE" => t = NoL2TBE) BY DEF NoL2TBE
  <1>5. ASSUME NEW d \in L1s, NEW b \in Addrs PROVE CountInv(d, b)'
    <2>1. UNCHANGED <<L1_TBEs, requestFromL1Cache, L1RequestToL2Cache, responseToL1Cache>>
      BY Zenon DEF l1Vars
    <2>2. QED BY <1>1, <1>3, <2>1, CountFrame, Zenon
  <1>6. ASSUME NEW d \in L1s, NEW b \in Addrs PROVE AtomicInv(d, b)'
    <2>1. AtomicInv(d, b) BY Zenon DEF LeaseStrongInv
    <2>2. UNCHANGED <<L1_TBEs, requestFromL1Cache, L1RequestToL2Cache, responseToL1Cache>>
      BY Zenon DEF l1Vars
    <2>3. L2_TBEs'[b].TBEState = "IMA" => L2_TBEs[b].TBEState = "IMA" BY <1>1, <1>4, Zenon
    <2>4. QED BY <1>3, <2>1, <2>2, <2>3, Zenon DEF AtomicInv
  <1>7. ASSUME NEW d \in L1s, NEW b \in Addrs PROVE Stamps(d, b)' \subseteq Stamps(d, b)
    <2>1. UNCHANGED <<now, l1Vars, requestFromL1Cache, L1RequestToL2Cache, responseToL1Cache>>
      BY Zenon
    <2>2. \A x \in Stamps(d, b)' : x \in Stamps(d, b) BY <2>1, StampsGrow, Zenon
    <2>3. QED BY <2>2, Zenon
  <1>8. now' = now BY Zenon
  <1>9. LeaseInv(a)' /\ SingleInv(a)'
    <2>1. L2cache'[a].CacheState # "E" BY <1>1, Zenon
    <2>2. CASE t = NoL2TBE /\ \A c \in L1s : \A x \in Stamps(c, a) : x \in Nat /\ x < now
      BY <1>0, <1>7, <1>8, <2>1, <2>2, NoneLiveNext, Zenon
    <2>3. CASE t.TBEState = "MI" /\ t.liveUntilTime = Promised(a)
      <3>1. L2getState(a)' = "MI" BY <1>1, <2>3, Zenon DEF L2getState, L2_TBEs_isPresent
      <3>2. Promised(a)' = Promised(a) BY <1>1, <2>3, <3>1, Zenon DEF Promised
      <3>3. LeaseInv(a) BY Zenon DEF LeaseStrongInv
      <3>4. LeaseInv(a)' BY <1>7, <1>8, <2>1, <3>2, <3>3, Zenon DEF LeaseInv
      <3>5. QED BY <3>1, <3>4, Zenon DEF SingleInv
    <2>4. QED BY <2>2, <2>3, Zenon
  <1>10. L2BlockInv(a)' BY <1>1, <1>4, Zenon DEF L2BlockInv
  <1>11. L2QueueInv'
    <2>1. L2QueueInv BY Zenon DEF LeaseStrongInv
    <2>2. \A b \in GpusimDramBuffer' : L2_TBEs'[b].TBEState \in {"IS", "IM", "IMA"}
      <3> SUFFICES ASSUME NEW b \in GpusimDramBuffer
                   PROVE  L2_TBEs'[b].TBEState \in {"IS", "IM", "IMA"}
        BY Zenon
      <3>1. L2_TBEs[b].TBEState \in {"IS", "IM", "IMA"} /\ b \in Addrs
        BY <1>0, <2>1, Zenon DEF L2QueueInv, TypeOK
      <3>2. b # a BY <3>1, Zenon
      <3>3. QED BY <1>1, <3>1, <3>2, Zenon
    <2>3. ASSUME NEW q \in L2ExpireTriggerQueue'
          PROVE  L2_TBEs'[q.addr].TBEState = "MI" /\ q.time = L2_TBEs'[q.addr].liveUntilTime + 1
      <3>1. q.addr \in Addrs BY Zenon
      <3>2. CASE q \in L2ExpireTriggerQueue /\ q.addr # a
        BY <1>1, <2>1, <3>1, <3>2 DEF L2QueueInv
      <3>3. CASE q.addr = a /\ t.TBEState = "MI" /\ q.time = t.liveUntilTime + 1
        BY <1>1, <3>3, Zenon
      <3>4. QED BY <3>2, <3>3, Zenon
    <2>4. QED BY <2>2, <2>3, Zenon DEF L2QueueInv
  <1>12. WritesKept'
    <2>1. ASSUME NEW b \in unwritten'
          PROVE  /\ L2cache'[b].CacheState \in {"E", "S", "SS"}
                 /\ L2_TBEs'[b].TBEState = "NoTBE" /\ L2cache'[b].Dirty
      <3>1. b # a BY Zenon
      <3>2. /\ L2cache[b].CacheState \in {"E", "S", "SS"} /\ L2cache[b].Dirty
            /\ L2_TBEs[b].TBEState = "NoTBE" /\ b \in Addrs
        BY <1>0, Zenon DEF LeaseStrongInv, WritesKept, L2_TBEs_isPresent, TypeOK
      <3>3. QED BY <1>1, <3>1, <3>2, Zenon
    <2>2. QED BY <2>1, Zenon DEF WritesKept, L2_TBEs_isPresent
  <1>13. UNCHANGED <<now, coreVars, l1Vars, requestFromL1Cache>> BY Zenon
  <1>14. \A d \in L1s, b \in Addrs \ {a} : Stamps(d, b)' \subseteq Stamps(d, b) BY <1>7, Zenon
  <1>15. QED BY <1>1, <1>5, <1>6, <1>9, <1>10, <1>11, <1>12, <1>13, <1>14, L2StepFrame, Zenon

\* An expired lease's trigger keeps the invariant.
LEMMA ExpireStep ==
  ASSUME CountingLaws, LeaseStrongInv, NEW q \in L2ExpireTriggerQueue, L2_Expire(q)
  PROVE  LeaseStrongInv'
  <1> DEFINE a == q.addr
             u == L2cache[a]
  <1>1. TypeOK /\ L2QueueInv BY Zenon DEF LeaseStrongInv
  <1>2. q \in [addr : Addrs, time : Nat] /\ a \in Addrs BY <1>1, Zenon DEF TypeOK
  <1>3. L2_TBEs[a].TBEState = "MI" /\ q.time = L2_TBEs[a].liveUntilTime + 1
    BY <1>1, Zenon DEF L2QueueInv
  <1>4. /\ u \in L2Entries /\ L2_TBEs[a] \in L2TBEs /\ L2getState(a) = "MI"
        /\ Promised(a) = L2_TBEs[a].liveUntilTime
    BY <1>2, <1>3, L2StateFacts, Zenon
  <1>5. u.CacheState = "NotPresent" BY <1>2, <1>3, Zenon DEF LeaseStrongInv, L2BlockInv
  <1>6. /\ q.time <= now /\ L2setState(a, "NP", u, NoL2TBE)
        /\ L2ExpireTriggerQueue' = L2ExpireTriggerQueue \ {q}
        /\ UNCHANGED <<now, coreVars, l1Vars, requestFromL1Cache, L1RequestToL2Cache,
                       responseToL1Cache, GpusimDramBuffer, unwritten>>
    BY Zenon DEF L2_Expire
  <1>7. Promised(a) < now
    <2>1. L2_TBEs[a].liveUntilTime \in Nat /\ now \in Nat BY <1>1, <1>4, Zenon DEF L2TBEs, TypeOK
    <2>2. PICK n \in Nat : n = Promised(a) /\ n + 1 <= now BY <1>3, <1>4, <1>6, <2>1, Zenon
    <2>3. QED BY <2>1, <2>2
  <1>8. \A c \in L1s : \A x \in Stamps(c, a) : x \in Nat /\ x < now BY <1>2, <1>7, NoneLive, Zenon
  <1>9. ASSUME NEW p \in L2ExpireTriggerQueue' PROVE p \in L2ExpireTriggerQueue /\ p.addr # a
    <2>1. p \in L2ExpireTriggerQueue /\ p # q BY <1>6, Zenon
    <2>2. p \in [addr : Addrs, time : Nat] BY <1>1, <2>1, Zenon DEF TypeOK
    <2>3. p.addr = a => p.time = q.time BY <1>1, <1>3, <2>1, Zenon DEF L2QueueInv
    <2>4. QED BY <1>2, <2>1, <2>2, <2>3
  <1>10. L2ExpireTriggerQueue' \subseteq [addr : Addrs, time : Nat] BY <1>1, <1>6, Zenon DEF TypeOK
  <1>11. a \notin unwritten BY <1>3, Zenon DEF LeaseStrongInv, WritesKept, L2_TBEs_isPresent
  <1> HIDE DEF a, u
  <1>12. "NP" \in L2States BY Zenon DEF L2States
  <1>13. PICK e \in L2Entries, t \in L2TBEs : L2Changes(a, e, t) /\ L2Leaves("NP", u, NoL2TBE, e, t)
    BY <1>2, <1>4, <1>6, <1>12, NoTBEType, L2SetState, Zenon
  <1>14. e.CacheState = "NotPresent" /\ t = NoL2TBE BY <1>5, <1>13, NoTBEType, Zenon DEF L2Leaves
  <1>15. t.L1_GetS_IDs = {} /\ t.L1_WBAck_ID = NoL1 BY <1>14, Zenon DEF NoL2TBE
  <1>16. /\ UNCHANGED <<now, coreVars, l1Vars, requestFromL1Cache, L1RequestToL2Cache,
                       responseToL1Cache, GpusimDramBuffer>>
         /\ unwritten' \subseteq unwritten /\ a \notin unwritten'
    BY <1>6, <1>11, Zenon
  <1>17. QED
    BY <1>2, <1>3, <1>8, <1>9, <1>10, <1>13, <1>14, <1>15, <1>16, DropStep, Zenon

\* A replacement at the L2 keeps the invariant.
LEMMA ReplacementStep ==
  ASSUME CountingLaws, LeaseStrongInv, L2_Replacement
  PROVE  LeaseStrongInv'
  <1>1. TypeOK /\ L2QueueInv BY Zenon DEF LeaseStrongInv
  <1>2. PICK v \in L2Tags :
           /\ \/ /\ ExpiredVictim(L2getState(v))
                 /\ L2setState(v, "NP", NoL2Entry, L2_TBEs[v])
                 /\ UNCHANGED L2ExpireTriggerQueue
              \/ /\ L2getState(v) \in {"S", "SS"}
                 /\ L2setState(v, "MI", NoL2Entry,
                      [NoL2TBE EXCEPT !.TBEState = "NP", !.Dirty = L2cache[v].Dirty,
                                      !.liveUntilTime = L2cache[v].liveUntilTime])
                 /\ it_insertL2ExpireTriggerQueue(v)
           /\ c_exclusiveReplacement(v)
    BY Zenon DEF L2_Replacement
  <1>3. v \in Addrs BY Zenon DEF L2Tags
  <1>4. UNCHANGED <<now, coreVars, l1Vars, requestFromL1Cache, L1RequestToL2Cache,
                    responseToL1Cache, GpusimDramBuffer>>
    BY Zenon DEF L2_Replacement
  <1>5. L2getState(v) \in {"E", "S", "SS"} BY <1>2, Zenon DEF ExpiredVictim
  <1>6. /\ L2cache[v] \in L2Entries /\ L2_TBEs[v] = NoL2TBE
        /\ Promised(v) = L2cache[v].liveUntilTime
    BY <1>3, <1>5, L2StateFacts, Zenon
  <1>7. unwritten' \subseteq unwritten /\ v \notin unwritten'
    BY <1>2, Zenon DEF c_exclusiveReplacement, LeaseStrongInv, WritesKept
  <1>8. NoL2Entry \in L2Entries /\ NoL2Entry.CacheState = "NotPresent"
    BY Zenon DEF NoL2Entry, L2Entries
  <1>9. /\ L2_TBEs[v].TBEState = "NoTBE" /\ NoL2TBE.L1_GetS_IDs = {} /\ NoL2TBE.L1_WBAck_ID = NoL1
    BY <1>6 DEF NoL2TBE
  <1>10. \A q \in L2ExpireTriggerQueue : q.addr # v
    BY <1>1, <1>9, Zenon DEF L2QueueInv
  <1>11. CASE /\ ExpiredVictim(L2getState(v))
              /\ L2setState(v, "NP", NoL2Entry, L2_TBEs[v])
              /\ UNCHANGED L2ExpireTriggerQueue
    <2>1. \A c \in L1s : \A x \in Stamps(c, v) : x \in Nat /\ x < now
      BY <1>3, <1>11, NoneLive, Zenon DEF ExpiredVictim
    <2>2. L2setState(v, "NP", NoL2Entry, NoL2TBE) /\ "NP" \in L2States
      BY <1>6, <1>11, Zenon DEF L2States
    <2>3. PICK e \in L2Entries, t \in L2TBEs :
            L2Changes(v, e, t) /\ L2Leaves("NP", NoL2Entry, NoL2TBE, e, t)
      BY <1>3, <1>8, <2>2, NoTBEType, L2SetState, Zenon
    <2>4. e.CacheState = "NotPresent" /\ t = NoL2TBE BY <1>8, <2>3, NoTBEType, Zenon DEF L2Leaves
    <2>5. L2ExpireTriggerQueue' \subseteq [addr : Addrs, time : Nat]
      BY <1>1, <1>11, Zenon DEF TypeOK
    <2>6. \A q \in L2ExpireTriggerQueue' : q \in L2ExpireTriggerQueue /\ q.addr # v
      BY <1>10, <1>11, Zenon
    <2>7. QED BY <1>3, <1>4, <1>7, <1>9, <2>1, <2>3, <2>4, <2>5, <2>6, DropStep, Zenon
  <1>12. CASE /\ L2getState(v) \in {"S", "SS"}
              /\ L2setState(v, "MI", NoL2Entry,
                   [NoL2TBE EXCEPT !.TBEState = "NP", !.Dirty = L2cache[v].Dirty,
                                   !.liveUntilTime = L2cache[v].liveUntilTime])
              /\ it_insertL2ExpireTriggerQueue(v)
    <2> DEFINE n == L2cache[v].liveUntilTime
               d == L2cache[v].Dirty
               r == [NoL2TBE EXCEPT !.TBEState = "NP", !.Dirty = d, !.liveUntilTime = n]
    <2>1. n \in Nat /\ d \in BOOLEAN BY <1>6, Zenon DEF L2Entries
    <2>2. L2setState(v, "MI", NoL2Entry, r) /\ "MI" \in L2States BY <1>12, Zenon DEF L2States
    <2>3. Promised(v) = n BY <1>6, Zenon
    <2>4. L2ExpireTriggerQueue' = L2ExpireTriggerQueue \cup {[addr |-> v, time |-> n + 1]}
      BY <1>12, Zenon DEF it_insertL2ExpireTriggerQueue
    <2> HIDE DEF n, d
    <2>5. /\ r \in L2TBEs /\ r.TBEState = "NP" /\ r.liveUntilTime = n
          /\ r.L1_GetS_IDs = {} /\ r.L1_WBAck_ID = NoL1
      BY <2>1, Zenon DEF NoL2TBE, L2TBEs, L2States
    <2> HIDE DEF r
    <2>6. PICK e \in L2Entries, t \in L2TBEs :
            L2Changes(v, e, t) /\ L2Leaves("MI", NoL2Entry, r, e, t)
      BY <1>3, <1>8, <2>2, <2>5, L2SetState, Zenon
    <2>7. /\ e.CacheState = "NotPresent" /\ t.TBEState = "MI" /\ t.liveUntilTime = n
          /\ t.L1_GetS_IDs = {} /\ t.L1_WBAck_ID = NoL1
      BY <1>8, <2>5, <2>6, Zenon DEF L2Leaves
    <2>8. L2ExpireTriggerQueue' \subseteq [addr : Addrs, time : Nat]
      BY <1>1, <1>3, <2>1, <2>4 DEF TypeOK
    <2>9. ASSUME NEW q \in L2ExpireTriggerQueue'
          PROVE  \/ q \in L2ExpireTriggerQueue /\ q.addr # v
                 \/ q.addr = v /\ t.TBEState = "MI" /\ q.time = t.liveUntilTime + 1
      BY <1>10, <2>4, <2>7
    <2>10. t.liveUntilTime = Promised(v) BY <2>3, <2>7, Zenon
    <2>11. QED BY <1>3, <1>4, <1>7, <1>9, <2>6, <2>7, <2>8, <2>9, <2>10, DropStep, Zenon
  <1>13. QED BY <1>2, <1>11, <1>12, Zenon

=============================================================================
