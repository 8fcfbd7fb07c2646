---------------------------- MODULE GarnetNetwork ----------------------------
(***************************************************************************)
(* The Garnet fixed-pipeline network of Ruby and the event queue that runs *)
(* it (gems-2.1.1/ruby_clean/network/garnet-fixed-pipeline, eventqueue).   *)
(* Messages are cut into flits at a network interface, take virtual        *)
(* channels (VCs) hop by hop through routers with a four-stage pipeline,   *)
(* and are put together again at the interface of their destination.       *)
(* Credits travel the other way and stand for free flit buffers.           *)
(*                                                                         *)
(* One action is one wakeup() of one consumer.  A link, an input unit and  *)
(* an output unit are named by the link they belong to.                    *)
(***************************************************************************)
EXTENDS Integers, Sequences, FiniteSets, SequencesExt, FiniteSetsExt, Functions

CONSTANTS
  Nodes, Routers, Links, \* the topology, sets of numbers: link l connects
  From, To,              \* From[l] to To[l], each a node or a router
  InPorts, OutPorts,     \* m_input_unit and m_output_unit of each router:
                         \* sequences of links, a port is an index
  Route,                 \* [router, node]: the link routeCompute picks
  Latency,               \* m_latency of each link
  NumVnets,              \* NUMBER_OF_VIRTUAL_NETWORKS
  OrderedVnets,          \* those of them that are ordered
  VcsPerVnet,            \* g_VCS_PER_CLASS
  BufferSize,            \* g_BUFFER_SIZE, flits per VC
  EnqueueLatency,        \* latency of a controller's enqueue
  Workloads,             \* sets of messages: the protocol sends those of one set
  LastSend,              \* bound: the cycle by which all of them are sent
  MaxTime                \* bound: cycles

ASSUME NetworkAssumption ==
  /\ \A l \in Links : {From[l], To[l]} \subseteq Nodes \cup Routers /\ Latency[l] \in Nat \ {0}
  /\ Nodes \cap Routers = {}
  /\ NumVnets \in Nat \ {0} /\ VcsPerVnet \in Nat \ {0} /\ BufferSize \in Nat \ {0}
  /\ EnqueueLatency \in Nat \ {0} /\ LastSend \in Nat /\ MaxTime \in Nat

VARIABLES
  now,           \* m_globalTime
  eventQueue,    \* scheduled wakeups <<consumer, time>>
  lastScheduled, \* m_last_scheduled_wakeup of each consumer
  unsent,        \* messages the controllers have not sent yet
  ni,            \* the state of each network interface
  invc,          \* VirtualChannel_d of an input unit, by <<link, vc>>
  outvc,         \* OutVcState_d of an output unit or interface, by <<link, vc>>
  switch,        \* m_switch_buffer of the input port of each link
  source,        \* link_srcQueue of each wire
  buffer,        \* linkBuffer of each wire
  arbiters,      \* round-robin pointers of the routers
  sent,          \* history: messages each node sent, in order
  received       \* the protocol buffers: messages each node got, in order

netVars == <<ni, invc, outvc, switch, source, buffer, arbiters>>
vars == <<now, eventQueue, lastScheduled, unsent, netVars, sent, received>>

INFINITE_ == 10000

VCs == 0 .. NumVnets * VcsPerVnet - 1
get_vnet(v) == v \div VcsPerVnet
VcsOf(n) == n * VcsPerVnet .. (n + 1) * VcsPerVnet - 1
Siblings(v) == VcsOf(get_vnet(v))

\* Wires: the flit direction and the credit direction of each link.
Wires == {"flit", "credit"} \X Links

Consumers == ({"NI"} \X Nodes) \cup ({"VA", "SA", "Switch"} \X Routers)
             \cup ({"Input", "Output"} \X Links) \cup Wires

\* Wakeups that only read what earlier cycles wrote: any order gives one result.
Commuting == {"flit", "credit", "NI", "Input", "Switch"}

-----------------------------------------------------------------------------
(* The event queue. *)

Awake == {e[1] : e \in {x \in eventQueue : x[2] <= now}}

\* triggerEvents takes the wakeups of a cycle in the order the heap has them.
\* Only the order of allocators and output units matters; others come first.
Woken(c) ==
  /\ <<c, now>> \in eventQueue
  /\ LET early == {d \in Awake : d[1] \in Commuting}
     IN IF early = {} THEN TRUE ELSE c = CHOOSE d \in early : TRUE

\* scheduleEvent, for a set of <<consumer, delta>>; a consumer whose last
\* scheduled wakeup is at that time is not entered again.
Scheduled(requests, queue) ==
  /\ eventQueue' = queue \cup {<<r[1], now + r[2]>> :
                                r \in {x \in requests : lastScheduled[x[1]] # now + x[2]}}
  /\ lastScheduled' = [c \in {r[1] : r \in requests} |->
                         now + (CHOOSE r \in requests : r[1] = c)[2]] @@ lastScheduled

scheduleEvent(c, requests) == Scheduled(requests, eventQueue \ {<<c, now>>})

\* The time moves on when all wakeups of the cycle are done.
Tick ==
  /\ Awake = {}
  /\ eventQueue # {}
  /\ now < MaxTime
  /\ now >= LastSend => unsent = {}
  /\ now' = now + 1
  /\ UNCHANGED <<eventQueue, lastScheduled, unsent, netVars, sent, received>>

-----------------------------------------------------------------------------
(* Flits, buffers and arbiters. *)

IsHead(f) == f.id = 0
IsTail(f) == f.id = f.size - 1

\* flitBuffer_d: the flits of one buffer have increasing (time, id).
isReady(q) == q # <<>> /\ Head(q).time <= now
isReadyForNext(q) == q # <<>> /\ Head(q).time <= now + 1

advance_stage(f, stage) == [f EXCEPT !.stage = stage, !.staged = now + 1]

\* The first member of S after p in cyclic order of 0 .. n - 1.
RoundRobin(S, p, n) ==
  CHOOSE x \in S : \A y \in S : (x + n - p - 1) % n <= (y + n - p - 1) % n

\* VirtualChannel_d::need_stage at time now, need_stage_nextcycle at now + 1.
need_stage(vc, state, stage, time) ==
  /\ vc.state = state /\ vc.at <= time
  /\ vc.m_input_buffer # <<>>
  /\ LET f == Head(vc.m_input_buffer)
     IN f.time <= time /\ f.stage = stage /\ f.staged <= time

-----------------------------------------------------------------------------
(* Links. *)

link_consumer(w) ==
  LET l == w[2]
  IN IF w[1] = "flit" THEN IF To[l] \in Nodes THEN <<"NI", To[l]>> ELSE <<"Input", l>>
                      ELSE IF From[l] \in Nodes THEN <<"NI", From[l]>> ELSE <<"Output", l>>

m_latency(w) == IF w[1] = "flit" THEN Latency[w[2]] ELSE 1

NetworkLink(w) ==
  /\ Woken(w)
  /\ IF isReady(source[w])
     THEN /\ source' = [source EXCEPT ![w] = Tail(@)]
          /\ buffer' = [buffer EXCEPT ![w] =
                          Append(@, [Head(source[w]) EXCEPT !.time = now + m_latency(w)])]
          /\ scheduleEvent(w, {<<link_consumer(w), m_latency(w)>>})
     ELSE scheduleEvent(w, {}) /\ UNCHANGED <<source, buffer>>
  /\ UNCHANGED <<now, unsent, ni, invc, outvc, switch, arbiters, sent, received>>

-----------------------------------------------------------------------------
(* Routers. *)

\* InputUnit_d::wakeup.  A head flit is routed and asks for a VC, any other
\* flit asks for the switch.
InputUnit(l) ==
  LET w == <<"flit", l>>
      f == Head(buffer[w])
      r == To[l]
  IN /\ Woken(<<"Input", l>>)
     /\ IF isReady(buffer[w])
        THEN /\ buffer' = [buffer EXCEPT ![w] = Tail(@)]
             /\ invc' = [invc EXCEPT ![l, f.vc] =
                  IF IsHead(f)
                  THEN [@ EXCEPT !.route = Route[r, f.dest], !.state = "VC_AB_", !.at = now + 1,
                                 !.m_enqueue_time = now,
                                 !.m_input_buffer = Append(@, advance_stage(f, "VA_"))]
                  ELSE [@ EXCEPT !.m_input_buffer = Append(@, advance_stage(f, "SA_"))]]
             /\ scheduleEvent(<<"Input", l>>, {<<<<IF IsHead(f) THEN "VA" ELSE "SA", r>>, 1>>})
        ELSE scheduleEvent(<<"Input", l>>, {}) /\ UNCHANGED <<buffer, invc>>
     /\ UNCHANGED <<now, unsent, ni, outvc, switch, source, arbiters, sent, received>>

\* set_vc_state(IDLE_) when the credit carries the free signal.
Freed(o, c) == IF c.free THEN [o EXCEPT !.state = "IDLE_", !.at = now + 1] ELSE o

\* OutputUnit_d::wakeup: a credit came back.
OutputUnit(l) ==
  LET w == <<"credit", l>>
      c == Head(buffer[w])
      o == [outvc[l, c.vc] EXCEPT !.m_credit_count = @ + 1]
  IN /\ Woken(<<"Output", l>>)
     /\ IF isReady(buffer[w])
        THEN /\ buffer' = [buffer EXCEPT ![w] = Tail(@)]
             /\ outvc' = [outvc EXCEPT ![l, c.vc] = Freed(o, c)]
             /\ invc' = [invc EXCEPT ![o.m_in_port, o.m_in_vc].m_credit_count = o.m_credit_count]
        ELSE UNCHANGED <<buffer, outvc, invc>>
     /\ scheduleEvent(<<"Output", l>>, {})
     /\ UNCHANGED <<now, unsent, ni, switch, source, arbiters, sent, received>>

isInState(o, state) == o.state = state /\ o.at <= now

\* On an ordered virtual network the oldest packet of a port goes first.
Oldest(l, v, competing) ==
  get_vnet(v) \in OrderedVnets =>
    ~ \E u \in competing : /\ invc[l, u].route = invc[l, v].route
                           /\ invc[l, u].m_enqueue_time < invc[l, v].m_enqueue_time

PortsOf == [r \in Routers |-> Range(InPorts[r])]
PortNumber(l) == CHOOSE i \in 1 .. Len(InPorts[To[l]]) : InPorts[To[l]][i] = l

\* VCallocator_d.
NeedsVC(l, v) == need_stage(invc[l, v], "VC_AB_", "VA_", now)

is_invc_candidate(l, v) == Oldest(l, v, {u \in Siblings(v) : NeedsVC(l, u)})

Asking(r) == {p \in PortsOf[r] \X VCs : NeedsVC(p[1], p[2]) /\ is_invc_candidate(p[1], p[2])}

\* Mutant: any VC of the virtual network will do, idle or not.
IdleOffsets_Any(o, base) == 0 .. VcsPerVnet - 1

IdleOffsets(o, base) == {k \in 0 .. VcsPerVnet - 1 : isInState(outvc[o, base + k], "IDLE_")}

\* The <<link, vc>> that p asks for: none or one.
select_outvc(p) ==
  LET o == invc[p].route
      base == get_vnet(p[2]) * VcsPerVnet
      idle == IdleOffsets(o, base)
  IN IF idle = {} THEN {}
     ELSE {<<o, base + RoundRobin(idle, arbiters.invc[p], VcsPerVnet)>>}

\* arbitrate_outvcs: the winner of each requested VC.
Winners(r) ==
  LET asking == Asking(r)
      selected == [p \in asking |-> select_outvc(p)]
      requested == UNION {selected[p] : p \in asking}
      n == Len(InPorts[r]) * VcsPerVnet
      position(p) == (PortNumber(p[1]) - 1) * VcsPerVnet + (p[2] % VcsPerVnet)
  IN [q \in requested |->
        LET rivals == {p \in asking : q \in selected[p]}
            first == RoundRobin({position(p) : p \in rivals}, arbiters.outvc[q], n)
        IN CHOOSE p \in rivals : position(p) = first]

\* grant_vc and update_vc.
Granted(p, q) ==
  [invc[p] EXCEPT !.m_output_vc = q[2], !.state = "ACTIVE_", !.at = now + 1,
                  !.m_credit_count = outvc[q].m_credit_count,
                  !.m_input_buffer = <<advance_stage(Head(@), "SA_")>> \o Tail(@)]

VCallocator(r) ==
  /\ Woken(<<"VA", r>>)
  /\ \E winners \in {Winners(r)}, asking \in {Asking(r)} :
       LET n == Len(InPorts[r]) * VcsPerVnet
           granted(p) == {q \in DOMAIN winners : winners[q] = p}
       IN /\ invc' = [p \in DOMAIN invc |->
               IF granted(p) = {} THEN invc[p] ELSE Granted(p, CHOOSE q \in granted(p) : TRUE)]
          /\ outvc' = [q \in DOMAIN outvc |->
               IF q \in DOMAIN winners
               THEN [outvc[q] EXCEPT !.state = "ACTIVE_", !.at = now + 1,
                                     !.m_in_port = winners[q][1], !.m_in_vc = winners[q][2]]
               ELSE outvc[q]]
          /\ arbiters' = [arbiters EXCEPT
               !.invc = [p \in DOMAIN @ |-> IF p \in asking THEN (@[p] + 1) % VcsPerVnet ELSE @[p]],
               !.outvc = [q \in DOMAIN @ |-> IF q \in DOMAIN winners THEN (@[q] + 1) % n ELSE @[q]]]
          /\ scheduleEvent(<<"VA", r>>,
               {<<c, 1>> : c \in
                  {d \in {<<"SA", r>>} : winners # << >>} \cup
                  {d \in {<<"VA", r>>} : \E p \in PortsOf[r] \X VCs :
                                           need_stage(invc'[p], "VC_AB_", "VA_", now + 1)}})
  /\ UNCHANGED <<now, unsent, ni, switch, source, buffer, sent, received>>

\* SWallocator_d.
NeedsSwitch(l, v) == need_stage(invc[l, v], "ACTIVE_", "SA_", now)

is_candidate_inport(l, v) == Oldest(l, v, {u \in Siblings(v) : NeedsSwitch(l, u)})

has_credits(vc) == vc.m_credit_count > 0

Ready(l) == {v \in VCs : NeedsSwitch(l, v) /\ has_credits(invc[l, v]) /\ is_candidate_inport(l, v)}

\* arbitrate_inports: the VC each input port puts forward.
PortWinners(r) ==
  [l \in {k \in PortsOf[r] : Ready(k) # {}} |->
     RoundRobin(Ready(l), arbiters.inport[l], Cardinality(VCs))]

\* arbitrate_outports: the input port each requested output port takes.  Its
\* pointer wraps at the number of output ports.
SwitchWinners(r) ==
  LET forward == PortWinners(r)
      requested == {invc[l, forward[l]].route : l \in DOMAIN forward}
      n == Len(InPorts[r])
      start(o) == Min({arbiters.outport[o], n - 1})
  IN [o \in requested |->
        InPorts[r][1 + RoundRobin({PortNumber(l) - 1 : l \in
                         {k \in DOMAIN forward : invc[k, forward[k]].route = o}}, start(o), n)]]

\* Mutant: the credit of a tail flit does not free the VC.
FreeSignal_Never(f) == FALSE

FreeSignal(f) == IsTail(f)

\* The VC after its front flit went to the switch.
Advanced(vc, credits) ==
  LET rest == [vc EXCEPT !.m_input_buffer = Tail(@), !.m_credit_count = credits]
  IN IF IsTail(Head(vc.m_input_buffer))
     THEN [rest EXCEPT !.state = "IDLE_", !.at = now + 1, !.m_enqueue_time = INFINITE_]
     ELSE rest

\* The input VCs whose front flit goes to the switch.
Moved(r) ==
  LET forward == PortWinners(r)
      winners == SwitchWinners(r)
  IN {<<winners[o], forward[winners[o]]>> : o \in DOMAIN winners}

SWallocator(r) ==
  /\ Woken(<<"SA", r>>)
  /\ \E moved \in {Moved(r)} :
       LET flit(p) == Head(invc[p].m_input_buffer)
           target(p) == <<invc[p].route, invc[p].m_output_vc>>
           credits(q) == outvc[q].m_credit_count - 1
           movedFrom(l) == {p \in moved : p[1] = l}
           taken(l) == CHOOSE p \in movedFrom(l) : TRUE
       IN /\ invc' = [p \in DOMAIN invc |->
               IF p \in moved THEN Advanced(invc[p], credits(target(p))) ELSE invc[p]]
          /\ outvc' = [q \in DOMAIN outvc |->
               IF \E p \in moved : target(p) = q
               THEN [outvc[q] EXCEPT !.m_credit_count = credits(q)] ELSE outvc[q]]
          /\ switch' = [l \in Links |->
               IF movedFrom(l) = {} THEN switch[l]
               ELSE Append(switch[l], [advance_stage(flit(taken(l)), "ST_") EXCEPT
                      !.vc = target(taken(l))[2], !.outport = target(taken(l))[1],
                      !.time = now + 1])]
          /\ source' = [w \in Wires |->
               IF w[1] = "flit" \/ movedFrom(w[2]) = {} THEN source[w]
               ELSE LET p == taken(w[2])
                    IN Append(source[w], [vc |-> p[2], free |-> FreeSignal(flit(p)), time |-> now])]
          /\ arbiters' = [arbiters EXCEPT
               !.inport = [l \in DOMAIN @ |->
                  IF l \in PortsOf[r] THEN (@[l] + 1) % Cardinality(VCs) ELSE @[l]],
               !.outport = [o \in DOMAIN @ |->
                  IF From[o] = r THEN (@[o] + 1) % Len(OutPorts[r]) ELSE @[o]]]
          /\ scheduleEvent(<<"SA", r>>,
               {<<c, 1>> : c \in
                  {<<"credit", p[1]>> : p \in moved} \cup
                  {d \in {<<"Switch", r>>} : moved # {}} \cup
                  {d \in {<<"SA", r>>} : \E p \in PortsOf[r] \X VCs :
                                           need_stage(invc'[p], "ACTIVE_", "SA_", now + 1)}})
  /\ UNCHANGED <<now, unsent, ni, buffer, sent, received>>

\* Switch_d::wakeup: every ready flit goes to the out buffer of its port.
Switch(r) ==
  LET moved == {l \in PortsOf[r] : isReady(switch[l])}
      arrives(w) == {l \in moved : w = <<"flit", Head(switch[l]).outport>>}
  IN /\ Woken(<<"Switch", r>>)
     /\ switch' = [l \in Links |-> IF l \in moved THEN Tail(switch[l]) ELSE switch[l]]
     /\ source' = [w \in Wires |->
          IF arrives(w) = {} THEN source[w]
          ELSE Append(source[w],
                 [advance_stage(Head(switch[CHOOSE l \in arrives(w) : TRUE]), "LT_") EXCEPT
                    !.time = now + 1])]
     /\ scheduleEvent(<<"Switch", r>>,
          {<<c, 1>> : c \in
             {<<"flit", Head(switch[l]).outport>> : l \in moved} \cup
             {d \in {<<"Switch", r>>} : \E l \in PortsOf[r] : isReadyForNext(switch'[l])}})
     /\ UNCHANGED <<now, unsent, ni, invc, outvc, buffer, arbiters, sent, received>>

-----------------------------------------------------------------------------
(* Network interfaces.  The steps of a wakeup pass on the interface and the *)
(* VCs of its outgoing link as a record [ni, out].                          *)

OutLink(n) == CHOOSE l \in Links : From[l] = n
InLink(n) == CHOOSE l \in Links : To[l] = n

\* A controller enqueues a message for the network (MessageBuffer::enqueue).
Send(m) ==
  LET n == m.src
  IN /\ Awake = {}
     /\ m \in unsent
     /\ unsent' = unsent \ {m}
     /\ sent' = [sent EXCEPT ![n] = Append(@, m)]
     /\ ni' = [ni EXCEPT ![n].inNode[m.vnet] =
                 Append(@, [msg |-> m, dests |-> m.dests, time |-> now + EnqueueLatency])]
     /\ Scheduled({<<<<"NI", n>>, EnqueueLatency>>}, eventQueue)
     /\ UNCHANGED <<now, invc, outvc, switch, source, buffer, arbiters, received>>

FlitsOf(m, dest, v) ==
  [i \in 1 .. m.size |-> [msg |-> m, dest |-> dest, id |-> i - 1, size |-> m.size, vc |-> v,
                          stage |-> "I_", staged |-> now, time |-> now, outport |-> 0]]

\* Mutant: the message is popped with its first destination.
Remaining_None(dests, d) == {}

\* Destinations of a multicast that are still without a VC.
Remaining(dests, d) == dests \ {d}

\* One destination of the first message of a virtual network gets a VC
\* (calculateVC) and is cut into flits; without a free VC nothing happens.
flitisizeMessage(s, vnet) ==
  LET q == s.ni.inNode[vnet]
      free == {k \in 0 .. VcsPerVnet - 1 : isInState(s.out[vnet * VcsPerVnet + k], "IDLE_")}
      d == Min(Head(q).dests)
      rest == Remaining(Head(q).dests, d)
      k == RoundRobin(free, (s.ni.m_vc_allocator[vnet] + VcsPerVnet - 1) % VcsPerVnet, VcsPerVnet)
      v == vnet * VcsPerVnet + k
  IN IF ~isReady(q) \/ free = {} THEN s
     ELSE [ni  |-> [s.ni EXCEPT
                      !.inNode[vnet] = IF rest = {} THEN Tail(@)
                                       ELSE <<[Head(@) EXCEPT !.dests = rest]>> \o Tail(@),
                      !.m_ni_buffers[v] = @ \o FlitsOf(Head(q).msg, d, v),
                      !.m_ni_enqueue_time[v] = now,
                      !.m_vc_allocator[vnet] = (k + 1) % VcsPerVnet],
           out |-> [s.out EXCEPT ![v].state = "ACTIVE_", ![v].at = now]]

\* The loop over virtual networks and messages: a network has VcsPerVnet VCs
\* to give away.
TakeMessages(s) ==
  FoldLeft(flitisizeMessage, s, [i \in 1 .. Cardinality(VCs) |-> (i - 1) \div VcsPerVnet])

is_candidate_vc(x, v) ==
  get_vnet(v) \in OrderedVnets =>
    ~ \E u \in Siblings(v) : /\ isReady(x.m_ni_buffers[u])
                             /\ x.m_ni_enqueue_time[u] < x.m_ni_enqueue_time[v]

Sendable(s) == {v \in VCs : /\ isReady(s.ni.m_ni_buffers[v])
                            /\ s.out[v].m_credit_count > 0
                            /\ is_candidate_vc(s.ni, v)}

SentVC(s) == RoundRobin(Sendable(s), s.ni.m_vc_round_robin, Cardinality(VCs))

\* scheduleOutputLink: at most one flit goes to the link.
scheduleOutputLink(s) ==
  LET turned == [s EXCEPT !.ni.m_vc_round_robin = (@ + 1) % Cardinality(VCs)]
      v == SentVC(s)
      f == Head(s.ni.m_ni_buffers[v])
  IN IF Sendable(s) = {} THEN turned
     ELSE [turned EXCEPT !.ni.m_ni_buffers[v] = Tail(@),
                         !.ni.m_ni_enqueue_time[v] = IF IsTail(f) THEN INFINITE_ ELSE @,
                         !.out[v].m_credit_count = @ - 1]

checkReschedule(s) ==
  \/ \E q \in Range(s.ni.inNode) : isReady(q)
  \/ \E v \in VCs : isReadyForNext(s.ni.m_ni_buffers[v])

\* Mutant: only the credit of a tail flit is counted.
TakeCredit_TailOnly(s, q) ==
  IF ~isReady(q) \/ ~Head(q).free THEN s
  ELSE [s EXCEPT !.out[Head(q).vc].m_credit_count = @ + 1,
                 !.out[Head(q).vc].state = "IDLE_",
                 !.out[Head(q).vc].at = now]

\* The credit of the outgoing link, if one is ready.
TakeCredit(s, q) ==
  IF ~isReady(q) THEN s
  ELSE [s EXCEPT !.out[Head(q).vc].m_credit_count = @ + 1,
                 !.out[Head(q).vc].state = IF Head(q).free THEN "IDLE_" ELSE @,
                 !.out[Head(q).vc].at = IF Head(q).free THEN now ELSE @]

NetworkInterface(n) ==
  LET o == OutLink(n)
      fw == <<"flit", InLink(n)>>
      cw == <<"credit", o>>
      f == Head(buffer[fw])
      arrived == isReady(buffer[fw])
  IN /\ Woken(<<"NI", n>>)
     /\ \E s1 \in {TakeMessages([ni |-> ni[n], out |-> [v \in VCs |-> outvc[o, v]]])} :
        \E s2 \in {scheduleOutputLink(s1)}, sendable \in {Sendable(s1)} :
        \E s3 \in {TakeCredit(s2, buffer[cw])} :
          /\ ni' = [ni EXCEPT ![n] = s3.ni]
          /\ outvc' = [q \in DOMAIN outvc |-> IF q[1] = o THEN s3.out[q[2]] ELSE outvc[q]]
          /\ source' = [w \in Wires |->
               IF w = <<"flit", o>> /\ sendable # {}
               THEN Append(source[w], [Head(s1.ni.m_ni_buffers[SentVC(s1)]) EXCEPT !.time = now + 1])
               ELSE IF w = <<"credit", InLink(n)>> /\ arrived
               THEN Append(source[w], [vc |-> f.vc, free |-> IsTail(f), time |-> now])
               ELSE source[w]]
          /\ scheduleEvent(<<"NI", n>>,
               {<<c, 1>> : c \in {d \in {<<"flit", o>>} : sendable # {}}
                            \cup {d \in {<<"NI", n>>} : checkReschedule(s2)}
                            \cup {d \in {<<"credit", InLink(n)>>} : arrived}})
     /\ buffer' = [w \in Wires |-> IF w \in {fw, cw} /\ isReady(buffer[w])
                                    THEN Tail(buffer[w]) ELSE buffer[w]]
     /\ received' = IF arrived /\ IsTail(f) THEN [received EXCEPT ![n] = Append(@, f.msg)]
                    ELSE received
     /\ UNCHANGED <<now, unsent, invc, switch, arbiters, sent>>

-----------------------------------------------------------------------------
Init ==
  /\ now = 1
  /\ eventQueue = {}
  /\ lastScheduled = [c \in Consumers |-> 0]
  /\ unsent \in Workloads
  /\ ni = [n \in Nodes |-> [inNode |-> [i \in 0 .. NumVnets - 1 |-> <<>>],
                            m_ni_buffers |-> [v \in VCs |-> <<>>],
                            m_ni_enqueue_time |-> [v \in VCs |-> INFINITE_],
                            m_vc_allocator |-> [i \in 0 .. NumVnets - 1 |-> 0],
                            m_vc_round_robin |-> 0]]
  /\ invc = [p \in Links \X VCs |->
              [state |-> "IDLE_", at |-> now, route |-> 0, m_output_vc |-> 0, m_credit_count |-> 0,
               m_enqueue_time |-> INFINITE_, m_input_buffer |-> <<>>]]
  /\ outvc = [p \in Links \X VCs |->
               [state |-> "IDLE_", at |-> now, m_in_port |-> 0, m_in_vc |-> 0,
                m_credit_count |-> BufferSize]]
  /\ switch = [l \in Links |-> <<>>]
  /\ source = [w \in Wires |-> <<>>]
  /\ buffer = [w \in Wires |-> <<>>]
  /\ arbiters = [invc |-> [p \in Links \X VCs |-> 0], outvc |-> [p \in Links \X VCs |-> 0],
                 inport |-> [l \in Links |-> 0], outport |-> [l \in Links |-> 0]]
  /\ sent = [n \in Nodes |-> <<>>]
  /\ received = [n \in Nodes |-> <<>>]

Next ==
  \/ Tick
  \/ \E m \in unsent : Send(m)
  \/ \E w \in Awake \cap Wires : NetworkLink(w)
  \/ \E l \in Links : InputUnit(l)
  \/ \E l \in Links : OutputUnit(l)
  \/ \E r \in Routers : VCallocator(r)
  \/ \E r \in Routers : SWallocator(r)
  \/ \E r \in Routers : Switch(r)
  \/ \E n \in Nodes : NetworkInterface(n)

Spec == Init /\ [][Next]_vars

-----------------------------------------------------------------------------
(* Properties. *)

\* States, stages and counters stay in their ranges; a wakeup is never entered
\* for a time that has passed (the assertion of scheduleEventAbsolute).
TypeOK ==
  /\ now \in 1 .. MaxTime
  /\ \A e \in eventQueue : e[1] \in Consumers /\ e[2] >= now
  /\ \A p \in Links \X VCs :
       /\ invc[p].state \in {"IDLE_", "VC_AB_", "ACTIVE_"}
       /\ outvc[p].state \in {"IDLE_", "ACTIVE_"}
       /\ outvc[p].m_credit_count \in 0 .. BufferSize
       /\ invc[p].m_credit_count \in 0 .. BufferSize
  /\ \A n \in Nodes : ni[n].m_vc_round_robin \in VCs

\* Flits on the way to VC v of link l, and with them those in its buffer.
Coming(l, v) ==
  LET mine(q) == SelectSeq(q, LAMBDA f : f.vc = v)
      here(q) == SelectSeq(q, LAMBDA f : f.vc = v /\ f.outport = l)
      ports == IF From[l] \in Routers THEN InPorts[From[l]] ELSE <<>>
  IN mine(buffer[<<"flit", l>>]) \o mine(source[<<"flit", l>>])
     \o FlattenSeq([i \in 1 .. Len(ports) |-> here(switch[ports[i]])])

FlitsFor(l, v) == invc[l, v].m_input_buffer \o Coming(l, v)

CreditsFor(l, v) ==
  LET mine(q) == SelectSeq(q, LAMBDA c : c.vc = v)
  IN mine(buffer[<<"credit", l>>]) \o mine(source[<<"credit", l>>])

\* No flit buffer is lost or used twice: the credits of a VC, the flits sent to it
\* and the credits on their way back add up to g_BUFFER_SIZE, across four buffers
\* and five wakeups.
CreditsConserved ==
  /\ TypeOK
  /\ \A l \in Links, v \in VCs :
       outvc[l, v].m_credit_count + Len(FlitsFor(l, v)) + Len(CreditsFor(l, v)) = BufferSize

\* Packets stay whole: the flits of a VC belong to one packet, in order; a head
\* flit arrives at an idle VC, and a VC is empty after the tail (the assertions
\* of InputUnit_d::wakeup and SWallocator_d::arbitrate_outports).
PacketsWhole ==
  \A l \in Links, v \in VCs :
    LET fs == FlitsFor(l, v)
    IN /\ \A i \in 1 .. Len(fs) - 1 : /\ fs[i + 1].id = fs[i].id + 1
                                       /\ fs[i + 1].msg = fs[i].msg
                                       /\ fs[i + 1].dest = fs[i].dest
       /\ invc[l, v].state = "IDLE_" => invc[l, v].m_input_buffer = <<>>
       /\ (\E f \in Range(Coming(l, v)) : IsHead(f)) => invc[l, v].state = "IDLE_"

\* The network, for its controllers: a message is on the way to d until d has it.
OnTheWay(n, d, vnet) ==
  SelectSeq(sent[n], LAMBDA m : m.vnet = vnet /\ d \in m.dests /\ m \notin Range(received[d]))

Abstract == INSTANCE OrderedChannels WITH
  Vnets <- 0 .. NumVnets - 1,
  Messages <- UNION Workloads,
  channel <- [c \in Nodes \X Nodes \X (0 .. NumVnets - 1) |-> OnTheWay(c[1], c[2], c[3])],
  delivered <- received

\* Cutting messages into flits, the VCs, the arbitration and the copies of a
\* multicast are invisible: every step of the network is a step of ordered
\* channels, or none.
ImplementsChannels == Abstract!Spec

\* No wakeup is lost and nobody waits for ever: when nothing is scheduled any
\* more, and in any case after MaxTime cycles, every message is where it was sent.
AllDelivered ==
  (eventQueue = {} \/ now = MaxTime) =>
    \A n \in Nodes : \A m \in Range(sent[n]) : \A d \in m.dests :
      Cardinality({i \in 1 .. Len(received[d]) : received[d][i] = m}) = 1

=============================================================================
