------------------------------ MODULE RubyMSHR ------------------------------
(***************************************************************************)
(* The path of a memory access between one shader core and Ruby: the       *)
(* load/store unit's memory and membar stages, the MSHR table of           *)
(* ruby_wrapper.cc, the request tables of Ruby's Sequencer, the callback   *)
(* queues of GpusimInterface, and the writeback arbiter of the load/store  *)
(* unit that takes the answers back.                                       *)
(*                                                                         *)
(* gpgpu_sim::cycle fixes the order of the parts: a tick of the ICNT clock *)
(* runs Ruby and then moves one callback per core into the MSHRs, a tick   *)
(* of the CORE clock runs the load/store unit mem_warp_parts times, each   *)
(* time writeback and then the memory stage.  phase holds the part that    *)
(* runs next.  The coherence protocol between the Sequencer and its        *)
(* callbacks is external: it answers the requests of the core to one block *)
(* in the order they were sent, at any Ruby cycle, or with OncePerTick not *)
(* two of them in one cycle.  Which instruction is in the dispatch         *)
(* register is left open: any access that is ready may be the next one.    *)
(* Bytes, addresses within a block, and latencies are left out.            *)
(***************************************************************************)
EXTENDS Naturals, Sequences, FiniteSets

CONSTANTS
  Warps,                 \* warps of the core; the Sequencer's threads
  Blocks,                \* cache-block addresses
  GlobalBlocks,          \* those in the global memory space
  Configs,               \* the configurations the simulator may be started with
  OtherClients,          \* writeback clients among 0..4 that are ever busy
  Kinds,                 \* the kinds of access the warps make
  Fences                 \* the warps execute membar

\* A configuration: command-line options, the clock ratio, and bounds.
Config == [
  gmem_skip_L1D : BOOLEAN,          \* global accesses bypass L1 and MSHRs
  m_writes_stall_at_mshr : BOOLEAN,
  m_single_write_per_warp : BOOLEAN,
  m_num_entries : Nat \ {0},        \* -ruby_mshr_count
  m_max_merged : Nat \ {0},         \* -ruby_mshr_size
  m_num_seq_entries : Nat \ {0},    \* -ruby_num_seq_entries
  mem_warp_parts : Nat \ {0},       \* cycles of the load/store unit in a CORE tick
  IcntTicks : Nat,                  \* ICNT ticks there are at least between two CORE ticks
  OncePerTick : BOOLEAN,            \* Ruby answers a core at most once per block and ICNT tick
  UsedWarps : SUBSET Warps,         \* bound: the warps with accesses
  UsedBlocks : SUBSET Blocks,       \* bound: the blocks they access
  MaxInFlight : Nat]                \* bound: accesses between memory stage and writeback

ASSUME MSHRAssumption ==
  /\ GlobalBlocks \subseteq Blocks
  /\ \A c \in Configs : c \in Config
  /\ OtherClients \subseteq 0..4
  /\ Kinds \subseteq {"LD", "ST", "ATOMIC"} /\ Fences \in BOOLEAN

VARIABLES
  config,                    \* the options, read once at start-up
  phase,                     \* "ruby", "writeback" or "memory"
  cycles,                    \* ICNT ticks since the last CORE tick, no more than
                             \* IcntTicks; or unit cycles done in this CORE tick
  m_data,                    \* MSHR entries: a map from pending blocks
  m_current_response,        \* blocks whose fill arrived, oldest first
  m_callback_queue,          \* blocks Ruby answered, not yet marked ready
  m_skipL1_callback_queue,   \* answered accesses that skipped the MSHRs
  m_memfence_callback_queue, \* warps whose fence completed
  m_readRequestTable,        \* outstanding <<warp, block>> reads
  m_writeRequestTable,       \* outstanding <<warp, block>> writes
  m_outstanding_count,       \* the Sequencer's count of all of them
  protocol,                  \* per block: requests in Ruby, oldest first
  answered,                  \* blocks answered in this tick, under OncePerTick
  fences,                    \* warps whose fence is in Ruby
  m_membar,                  \* warps waiting at a memory barrier
  m_writeback_arb,           \* the writeback client asked first
  stopped,                   \* the warps have no more accesses to make
  missing                    \* history: per answered block, the warps with a
                             \* write that the answer does not contain

mshrVars == <<m_data, m_current_response>>
queueVars == <<m_callback_queue, m_skipL1_callback_queue, m_memfence_callback_queue>>
seqVars == <<m_readRequestTable, m_writeRequestTable, m_outstanding_count>>
stateVars == <<phase, cycles, mshrVars, queueVars, seqVars, protocol, answered, fences,
               m_membar, m_writeback_arb, stopped, missing>>
vars == <<config, stateVars>>

gmem_skip_L1D == config.gmem_skip_L1D
m_writes_stall_at_mshr == config.m_writes_stall_at_mshr
m_single_write_per_warp == config.m_single_write_per_warp
m_num_entries == config.m_num_entries
m_max_merged == config.m_max_merged
m_num_seq_entries == config.m_num_seq_entries
mem_warp_parts == config.mem_warp_parts
IcntTicks == config.IcntTicks
OncePerTick == config.OncePerTick
MaxInFlight == config.MaxInFlight

NoCounts == [w \in Warps |-> 0]

NoEntry == [m_readset |-> NoCounts, m_writeset |-> NoCounts,
            m_write_after_read |-> FALSE, m_list |-> <<>>]

is_write(kind) == kind \in {"ST", "ATOMIC"}

\* The global accesses that go around L1 cache and MSHRs.
skipsL1(b) == gmem_skip_L1D /\ b \in GlobalBlocks

\* The requests answered through m_skipL1_callback_queue.
skipsMSHR(b, kind) == skipsL1(b) \/ (is_write(kind) /\ ~m_writes_stall_at_mshr)

\* The warps a count map has a key for: a key whose count drops to 0 is erased.
Keys(counts) == {w \in Warps : counts[w] > 0}

Members(s) == {s[i] : i \in 1..Len(s)}

\* std::map: operator[] and erase.
Put(b, e) == [x \in DOMAIN m_data \cup {b} |-> IF x = b THEN e ELSE m_data[x]]
Erase(b) == [x \in DOMAIN m_data \ {b} |-> m_data[x]]

probe(b) == b \in DOMAIN m_data

----------------------------------------------------------------------------
\* The MSHR table: queries.

\* Mutant: every access is sent to Ruby, pending entry or not.
do_access_Always(b) == TRUE

\* Should this access be sent to Ruby?  A block is asked for once; while only
\* skipped writes are pending, the first read still has to ask.
do_access(b) ==
  \/ ~probe(b)
  \/ ~m_writes_stall_at_mshr /\ Keys(m_data[b].m_readset) = {}

full(b) ==
  IF probe(b) THEN Len(m_data[b].m_list) >= m_max_merged
              ELSE Cardinality(DOMAIN m_data) >= m_num_entries

\* Mutant: the R0-W1-R1 case is not checked for.
access_allowed_RWR(b, kind, w) ==
  ~(m_single_write_per_warp /\ w \in Keys(m_data[b].m_writeset))

\* Mutant: a write may join an entry that asked to read.
access_allowed_Silent(b, kind, w) == TRUE

\* May the access join the pending entry?
access_allowed(b, kind, w) ==
  LET e == m_data[b]
  IN /\ ~(m_single_write_per_warp /\ w \in Keys(e.m_writeset))
     /\ IF m_writes_stall_at_mshr
        THEN ~(is_write(kind) /\ Keys(e.m_writeset) = {})
        ELSE ~(~is_write(kind) /\ w \in Keys(e.m_writeset) /\ e.m_write_after_read)

\* Sequencer::isReady, as far as it can answer no.
Sequencer_isReady == m_outstanding_count < m_num_seq_entries

\* ruby_wrapper::is_ready: an access that hits a pending entry asks only the
\* MSHRs, one that misses asks the Sequencer too.
is_ready(b, kind, w) ==
  IF skipsL1(b) THEN Sequencer_isReady
  ELSE IF probe(b) THEN ~full(b) /\ access_allowed(b, kind, w)
  ELSE Sequencer_isReady /\ ~full(b)

----------------------------------------------------------------------------
\* History of what a load must see: the writes that its warp sent to the block
\* before it and that Ruby has not performed.

Unperformed(b, w) ==
  Cardinality({i \in 1..Len(protocol[b]) :
                 protocol[b][i].wid = w /\ is_write(protocol[b][i].kind)})

\* Ruby has answered the entry's fill, but the entry has not been drained.
Filled(b) == b \in Members(m_callback_queue) \cup Members(m_current_response)

mustSee(b, w) == IF Filled(b) THEN (IF w \in missing[b] THEN 1 ELSE 0)
                              ELSE Unperformed(b, w)

----------------------------------------------------------------------------
\* Memory stage: ldst_unit::memory_cycle and membar_cycle.

\* ruby_mshr_table::add; a skipped write is counted but not queued.
add(e, kind, w, see) ==
  LET mf == [wid |-> w, kind |-> kind, mustSee |-> see]
  IN [e EXCEPT !.m_writeset[w] = IF is_write(kind) THEN @ + 1 ELSE @,
               !.m_readset[w] = IF is_write(kind) THEN @ ELSE @ + 1,
               !.m_list = IF is_write(kind) /\ ~m_writes_stall_at_mshr
                          THEN @ ELSE Append(@, mf),
               !.m_write_after_read = @ \/ (is_write(kind) /\ Keys(e.m_readset) # {})]

\* Sequencer::makeRequest: a request that skips the MSHRs has a table of its
\* own, whose content is the skipping part of protocol; any other one goes to
\* its thread's table, and if that has the block already, no message is sent.
makeRequest(b, kind, w) ==
  LET table == IF is_write(kind) THEN m_writeRequestTable ELSE m_readRequestTable
      found == ~skipsMSHR(b, kind) /\ <<w, b>> \in table
  IN /\ m_readRequestTable' = IF skipsMSHR(b, kind) \/ is_write(kind)
                              THEN m_readRequestTable
                              ELSE m_readRequestTable \cup {<<w, b>>}
     /\ m_writeRequestTable' = IF skipsMSHR(b, kind) \/ ~is_write(kind)
                               THEN m_writeRequestTable
                               ELSE m_writeRequestTable \cup {<<w, b>>}
     /\ m_outstanding_count' = IF found THEN m_outstanding_count
                                        ELSE m_outstanding_count + 1
     /\ protocol' = IF found THEN protocol
                    ELSE [protocol EXCEPT ![b] = Append(@, [wid |-> w, kind |-> kind])]

\* ruby_wrapper::send_request.
send_request(b, kind, w) ==
  /\ IF skipsMSHR(b, kind) \/ do_access(b)
     THEN makeRequest(b, kind, w)
     ELSE UNCHANGED <<seqVars, protocol>>
  /\ m_data' = IF skipsL1(b) THEN m_data
               ELSE Put(b, add(IF probe(b) THEN m_data[b] ELSE NoEntry,
                               kind, w, mustSee(b, w)))
  /\ missing' = IF is_write(kind) /\ skipsMSHR(b, kind) /\ Filled(b)
                THEN [missing EXCEPT ![b] = @ \cup {w}] ELSE missing

\* The accesses of warp w that are still on their way.
InFlight(w, kinds) ==
  \/ \E b \in DOMAIN m_data : \E i \in 1..Len(m_data[b].m_list) :
        m_data[b].m_list[i].wid = w /\ m_data[b].m_list[i].kind \in kinds
  \/ \E b \in Blocks : \E i \in 1..Len(protocol[b]) :
        protocol[b][i].wid = w /\ protocol[b][i].kind \in kinds
  \/ \E i \in 1..Len(m_skipL1_callback_queue) :
        /\ m_skipL1_callback_queue[i].wid = w
        /\ m_skipL1_callback_queue[i].kind \in kinds

\* A warp waits at a memory barrier and for its atomics: it issues nothing.
waiting(w) == w \in m_membar \/ InFlight(w, {"ATOMIC"})

NumInFlight ==
  Len(m_skipL1_callback_queue) +
    Cardinality({p \in Blocks \X (1..MaxInFlight) : p[2] <= Len(protocol[p[1]])})

\* The unit runs again in this CORE tick; or the tick is over, and with a slow
\* ICNT clock the next one may be another CORE tick.
endCoreCycle ==
  /\ UNCHANGED answered
  /\ IF cycles + 1 < mem_warp_parts
     THEN phase' = "writeback" /\ cycles' = cycles + 1
     ELSE phase' \in {"ruby"} \cup (IF IcntTicks = 0 THEN {"writeback"} ELSE {}) /\ cycles' = 0

\* waiting() holds back the issue of a warp, not the accesses of instructions that
\* have left it: an atomic goes on sending, and so do instructions issued before
\* it.  A fence is issued when no load is pending, so behind it only stores are.
memory_cycle(b, kind, w) ==
  /\ phase = "memory" /\ ~stopped
  /\ w \in m_membar => kind = "ST"
  /\ NumInFlight < MaxInFlight
  /\ is_ready(b, kind, w)
  /\ send_request(b, kind, w)
  /\ endCoreCycle
  /\ UNCHANGED <<m_current_response, queueVars, fences, m_membar,
                 m_writeback_arb, stopped>>

\* A fence is issued when the scoreboard has no register of the warp pending.
\* (Without -ruby_send_memfence_to_protocol it is lifted in the same cycle, which
\* is a stall here.)
membar_cycle(w) ==
  /\ phase = "memory" /\ ~stopped /\ Fences
  /\ ~waiting(w) /\ ~InFlight(w, {"LD"})
  /\ Sequencer_isReady
  /\ m_membar' = m_membar \cup {w}
  /\ fences' = fences \cup {w}
  /\ endCoreCycle
  /\ UNCHANGED <<mshrVars, queueVars, seqVars, protocol, m_writeback_arb,
                 stopped, missing>>

\* No access is ready in this cycle, or it has to be tried again.
stall ==
  /\ phase = "memory"
  /\ endCoreCycle
  /\ stopped' \in {stopped, TRUE}
  /\ UNCHANGED <<mshrVars, queueVars, seqVars, protocol, fences, m_membar,
                 m_writeback_arb, missing>>

----------------------------------------------------------------------------
\* A tick of the ICNT clock.

\* The history at the callback of a fill and of a write.
FillSees(b) ==
  missing' = [missing EXCEPT ![b] =
    {protocol[b][i].wid : i \in {j \in 2..Len(protocol[b]) : is_write(protocol[b][j].kind)}}]

WritePerformed(b, w) ==
  m_data' = IF ~probe(b) \/ Filled(b) THEN m_data
            ELSE [m_data EXCEPT ![b].m_list =
                   [i \in DOMAIN @ |->
                     IF @[i].wid = w /\ @[i].mustSee > 0
                     THEN [@[i] EXCEPT !.mustSee = @ - 1] ELSE @[i]]]

\* Sequencer::readCallback or writeCallback for the oldest request to a block,
\* and GpusimInterface::hitCallback.
hitCallback(b) ==
  LET r == Head(protocol[b])
  IN /\ phase = "ruby"
     /\ protocol[b] # <<>>
     /\ b \notin answered
     /\ answered' = IF OncePerTick THEN answered \cup {b} ELSE answered
     /\ protocol' = [protocol EXCEPT ![b] = Tail(@)]
     /\ m_outstanding_count' = m_outstanding_count - 1
     /\ IF skipsMSHR(b, r.kind)
        THEN /\ m_skipL1_callback_queue' =
                  Append(m_skipL1_callback_queue, [addr |-> b, wid |-> r.wid, kind |-> r.kind])
             /\ UNCHANGED <<m_callback_queue, m_readRequestTable, m_writeRequestTable>>
        ELSE /\ m_callback_queue' = Append(m_callback_queue, b)
             /\ IF is_write(r.kind)
                THEN /\ m_writeRequestTable' = m_writeRequestTable \ {<<r.wid, b>>}
                     /\ UNCHANGED m_readRequestTable
                ELSE /\ m_readRequestTable' = m_readRequestTable \ {<<r.wid, b>>}
                     /\ UNCHANGED m_writeRequestTable
             /\ UNCHANGED m_skipL1_callback_queue
     /\ IF is_write(r.kind) THEN WritePerformed(b, r.wid) ELSE UNCHANGED m_data
     /\ IF skipsMSHR(b, r.kind) THEN UNCHANGED missing ELSE FillSees(b)
     /\ UNCHANGED <<phase, cycles, m_current_response, m_memfence_callback_queue, fences,
                    m_membar, m_writeback_arb, stopped>>

memfenceCallback(w) ==
  /\ phase = "ruby"
  /\ w \in fences
  /\ fences' = fences \ {w}
  /\ m_memfence_callback_queue' = Append(m_memfence_callback_queue, w)
  /\ UNCHANGED <<phase, cycles, mshrVars, m_callback_queue, m_skipL1_callback_queue, seqVars,
                 protocol, answered, m_membar, m_writeback_arb, stopped, missing>>

mark_ready(b) == m_current_response' = Append(m_current_response, b)

\* ruby_wrapper::advance_time, after Ruby's events of this cycle: one callback.
advance_time ==
  /\ phase = "ruby"
  /\ answered' = {}
  /\ IF m_callback_queue = <<>>
     THEN UNCHANGED <<m_callback_queue, m_current_response>>
     ELSE /\ m_callback_queue' = Tail(m_callback_queue)
          /\ mark_ready(Head(m_callback_queue))
  /\ \/ /\ phase' = "ruby"
        /\ cycles' = IF cycles < IcntTicks THEN cycles + 1 ELSE cycles
     \/ /\ phase' = "writeback"
        /\ cycles + 1 >= IcntTicks
        /\ cycles' = 0
  /\ UNCHANGED <<m_data, m_skipL1_callback_queue, m_memfence_callback_queue, seqVars,
                 protocol, fences, m_membar, m_writeback_arb, stopped, missing>>

----------------------------------------------------------------------------
\* Writeback: ldst_unit::writeback.

ToMemory == phase' = "memory" /\ UNCHANGED <<cycles, answered>>

\* next_access: the front access of the oldest ready entry.  The entry is
\* released with its last access, unless skipped writes are still pending.
next_access ==
  LET b == Head(m_current_response)
      e == m_data[b]
      mf == Head(e.m_list)
      popped == [e EXCEPT !.m_list = Tail(@),
                          !.m_writeset[mf.wid] = IF is_write(mf.kind) THEN @ - 1 ELSE @,
                          !.m_readset[mf.wid] = IF is_write(mf.kind) THEN @ ELSE @ - 1]
  IN IF popped.m_list # <<>>
     THEN m_data' = Put(b, popped) /\ UNCHANGED m_current_response
     ELSE /\ m_data' = IF m_writes_stall_at_mshr \/ Keys(popped.m_writeset) = {}
                       THEN Erase(b) ELSE Put(b, popped)
          /\ m_current_response' = Tail(m_current_response)

\* Mutant: the entry is released although reads are queued.
mark_skipped_write_done_Early(b, w) ==
  LET e == [m_data[b] EXCEPT !.m_writeset[w] = @ - 1]
  IN m_data' = IF Keys(e.m_writeset) = {} THEN Erase(b) ELSE Put(b, e)

\* Mutant: the key is erased whatever its count.
mark_skipped_write_done_EraseKey(b, w) ==
  LET e == [m_data[b] EXCEPT !.m_writeset[w] = 0]
  IN m_data' = IF e.m_list = <<>> /\ Keys(e.m_writeset) = {} THEN Erase(b) ELSE Put(b, e)

\* Mutant: an entry without accesses is never released.
mark_skipped_write_done_Kept(b, w) ==
  m_data' = Put(b, [m_data[b] EXCEPT !.m_writeset[w] = @ - 1])

\* A skipped write came back; the entry is released with its last access.
mark_skipped_write_done(b, w) ==
  LET e == [m_data[b] EXCEPT !.m_writeset[w] = @ - 1]
  IN m_data' = IF e.m_list = <<>> /\ Keys(e.m_writeset) = {} THEN Erase(b) ELSE Put(b, e)

\* Clients 0 to 4 (shared memory, texture, constant, uncached, L1D) are busy or
\* not as the rest of the core decides; 5, 6 and 7 belong to Ruby.
HasWork(busy) ==
  busy \cup (IF m_current_response # <<>> THEN {5} ELSE {})
       \cup (IF m_skipL1_callback_queue # <<>> THEN {6} ELSE {})
       \cup (IF m_memfence_callback_queue # <<>> THEN {7} ELSE {})

\* The loop over c asks client (c + m_writeback_arb) % 8 in turn.
Turn(n) == (n + 8 - m_writeback_arb) % 8

First(n, clients) == n \in clients /\ \A k \in clients : Turn(n) <= Turn(k)

serviceOther(n) ==
  /\ m_writeback_arb' = (n + 1) % 8
  /\ UNCHANGED <<mshrVars, queueVars, m_membar, missing>>

\* The Ruby clients leave serviced_client, and so the priority, alone.
serviceRuby ==
  /\ next_access
  /\ missing' = IF m_current_response' = m_current_response THEN missing
                ELSE [missing EXCEPT ![Head(m_current_response)] = {}]
  /\ UNCHANGED <<queueVars, m_membar, m_writeback_arb>>

serviceSkipL1 ==
  LET mf == Head(m_skipL1_callback_queue)
  IN /\ m_skipL1_callback_queue' = Tail(m_skipL1_callback_queue)
     /\ IF skipsL1(mf.addr) \/ m_writes_stall_at_mshr
        THEN UNCHANGED m_data ELSE mark_skipped_write_done(mf.addr, mf.wid)
     /\ UNCHANGED <<m_current_response, m_callback_queue, m_memfence_callback_queue,
                    m_membar, m_writeback_arb, missing>>

serviceMemfence ==
  /\ m_membar' = m_membar \ {Head(m_memfence_callback_queue)}
  /\ m_memfence_callback_queue' = Tail(m_memfence_callback_queue)
  /\ UNCHANGED <<mshrVars, m_callback_queue, m_skipL1_callback_queue, m_writeback_arb,
                 missing>>

\* m_next_wb is free: the first client with work is serviced.
writeback ==
  /\ phase = "writeback"
  /\ ToMemory
  /\ \E busy \in SUBSET OtherClients :
       LET clients == HasWork(busy)
       IN \/ clients = {} /\ UNCHANGED <<mshrVars, queueVars, m_membar, m_writeback_arb, missing>>
          \/ \E n \in 0..4 : First(n, clients) /\ serviceOther(n)
          \/ First(5, clients) /\ serviceRuby
          \/ First(6, clients) /\ serviceSkipL1
          \/ First(7, clients) /\ serviceMemfence
  /\ UNCHANGED <<seqVars, protocol, fences, stopped>>

\* The operand collector has not taken m_next_wb, so no client is asked.
writebackBlocked ==
  /\ phase = "writeback"
  /\ ToMemory
  /\ UNCHANGED <<mshrVars, queueVars, seqVars, protocol, fences, m_membar,
                 m_writeback_arb, stopped, missing>>

----------------------------------------------------------------------------
Init ==
  /\ config \in Configs
  /\ phase = "ruby"
  /\ cycles = 0
  /\ m_data = [b \in {} |-> NoEntry]
  /\ m_current_response = <<>>
  /\ m_callback_queue = <<>>
  /\ m_skipL1_callback_queue = <<>>
  /\ m_memfence_callback_queue = <<>>
  /\ m_readRequestTable = {}
  /\ m_writeRequestTable = {}
  /\ m_outstanding_count = 0
  /\ protocol = [b \in Blocks |-> <<>>]
  /\ answered = {}
  /\ fences = {}
  /\ m_membar = {}
  /\ m_writeback_arb = 0
  /\ stopped = FALSE
  /\ missing = [b \in Blocks |-> {}]

Next ==
  /\ UNCHANGED config
  /\ \/ \E b \in config.UsedBlocks, kind \in Kinds, w \in config.UsedWarps :
          memory_cycle(b, kind, w)
     \/ \E w \in config.UsedWarps : membar_cycle(w)
     \/ stall
     \/ \E b \in Blocks : hitCallback(b)
     \/ \E w \in Warps : memfenceCallback(w)
     \/ advance_time
     \/ writeback
     \/ writebackBlocked

Spec == Init /\ [][Next]_vars

\* Both clocks tick, Ruby answers every request, and the operand collector
\* takes m_next_wb infinitely often.
Fairness ==
  /\ \A b \in Blocks : SF_stateVars(hitCallback(b))
  /\ \A w \in Warps : SF_stateVars(memfenceCallback(w))
  /\ WF_stateVars(advance_time) /\ SF_stateVars(advance_time /\ phase' = "writeback")
  /\ SF_stateVars(writeback)
  /\ WF_stateVars(stall)

FairSpec == Spec /\ Fairness

----------------------------------------------------------------------------
\* Properties.

MemFetch == [wid : Warps, kind : Kinds, mustSee : Nat]

Entry == [m_readset : [Warps -> Nat], m_writeset : [Warps -> Nat],
          m_write_after_read : BOOLEAN, m_list : Seq(MemFetch)]

\* The type of the state, with the capacity asserts at the end of
\* ruby_mshr_table::add: neither the table nor a merge list overflows.
TypeOK ==
  /\ config \in Configs
  /\ phase \in {"ruby", "writeback", "memory"}
  /\ cycles \in IF phase = "ruby" THEN 0..IcntTicks ELSE 0..(mem_warp_parts - 1)
  /\ DOMAIN m_data \subseteq Blocks
  /\ Cardinality(DOMAIN m_data) <= m_num_entries
  /\ \A b \in DOMAIN m_data :
       m_data[b] \in Entry /\ Len(m_data[b].m_list) <= m_max_merged
  /\ m_current_response \in Seq(Blocks)
  /\ m_callback_queue \in Seq(Blocks)
  /\ m_skipL1_callback_queue \in Seq([addr : Blocks, wid : Warps, kind : Kinds])
  /\ m_memfence_callback_queue \in Seq(Warps)
  /\ m_readRequestTable \subseteq Warps \X Blocks
  /\ m_writeRequestTable \subseteq Warps \X Blocks
  /\ m_outstanding_count \in Nat
  /\ protocol \in [Blocks -> Seq([wid : Warps, kind : Kinds])]
  /\ answered \subseteq Blocks
  /\ fences \subseteq Warps /\ m_membar \subseteq Warps
  /\ m_writeback_arb \in 0..7
  /\ stopped \in BOOLEAN
  /\ missing \in [Blocks -> SUBSET Warps]

Count(s, Test(_)) == Cardinality({i \in 1..Len(s) : Test(s[i])})

\* Where the answer to the fill of block b is: asked for, answered, or ready.
Fills(b) ==
  LET asked(r) == ~skipsMSHR(b, r.kind)
      isB(x) == x = b
  IN Count(protocol[b], asked) + Count(m_callback_queue, isB)
       + Count(m_current_response, isB)

\* A block has exactly one fill on its way while accesses are queued for it and
\* none otherwise, however reads, skipped writes and late answers interleave.
\* This is what the asserts of mark_ready and next_access rely on, and the
\* reason why L1 controllers never see a second load to a block.
OneFillPerEntry ==
  \A b \in Blocks :
    Fills(b) = IF probe(b) /\ m_data[b].m_list # <<>> THEN 1 ELSE 0

\* The per-warp counts of an entry are the accesses that will decrement them:
\* the queued ones, and the skipped writes still in Ruby or in its callback
\* queue.  Otherwise next_access or mark_skipped_write_done hits an assert, or
\* the entry is never released.  Table and lists stay in their sizes (TypeOK),
\* also when a store opens an entry in a full table.
CountsMatch ==
  /\ TypeOK
  /\ \A b \in Blocks, w \in Warps :
    LET reads(mf) == mf.wid = w /\ ~is_write(mf.kind)
        writes(mf) == mf.wid = w /\ is_write(mf.kind)
        acked(mf) == mf.addr = b /\ writes(mf)
        skipped == IF skipsL1(b) \/ m_writes_stall_at_mshr THEN 0
                   ELSE Count(protocol[b], writes) + Count(m_skipL1_callback_queue, acked)
    IN IF probe(b)
       THEN /\ m_data[b].m_readset[w] = Count(m_data[b].m_list, reads)
            /\ m_data[b].m_writeset[w] = skipped + Count(m_data[b].m_list, writes)
       ELSE skipped = 0

\* The assert in Sequencer::isReady ("GPGPU-Sim side MSHR should prevent this")
\* and checkOutstandingRequests: a block in a request table has its MSHR
\* entry, only one thread has it there, and the count is that of the tables.
SequencerAgrees ==
  LET tables == m_readRequestTable \cup m_writeRequestTable
      skips(b) == {i \in 1..Len(protocol[b]) : skipsMSHR(b, protocol[b][i].kind)}
  IN /\ \A r \in tables : probe(r[2])
     /\ \A r, q \in tables : r[2] = q[2] => r = q
     /\ m_readRequestTable \cap m_writeRequestTable = {}
     /\ m_outstanding_count =
          Cardinality(tables)
            + Cardinality(UNION {{b} \X skips(b) : b \in Blocks})

\* A load is never given an answer that Ruby made before performing a write
\* its own warp had sent to the block earlier: the R0-W1-R1 case that
\* access_allowed guards against.  It takes as many ICNT ticks per CORE tick as the
\* unit has cycles, and no second answer for a block in a tick; otherwise the answer
\* of a write overtakes the fill that was queued before it.
ReadAfterOwnWrite ==
  OncePerTick /\ IcntTicks >= mem_warp_parts =>
    \A b \in DOMAIN m_data :
      Filled(b) => \A i \in 1..Len(m_data[b].m_list) :
                     is_write(m_data[b].m_list[i].kind) \/ m_data[b].m_list[i].mustSee = 0

\* When writes stall at the MSHRs, an entry that holds a write was opened by
\* one, so the request in Ruby asks for write permission; a write never joins
\* an entry that only asked to read (the assert at the head of add).
WritesAskedFor ==
  \A b \in DOMAIN m_data :
    m_writes_stall_at_mshr /\ Keys(m_data[b].m_writeset) # {} /\ ~Filled(b)
      => \E i \in 1..Len(protocol[b]) : is_write(protocol[b][i].kind)

Idle ==
  /\ DOMAIN m_data = {}
  /\ \A b \in Blocks : protocol[b] = <<>>
  /\ m_callback_queue = <<>> /\ m_skipL1_callback_queue = <<>>
  /\ m_membar = {}

\* Once the warps stop, every access they made is answered, every fence is
\* lifted and every MSHR entry is released.
Drains == stopped ~> Idle
=============================================================================
