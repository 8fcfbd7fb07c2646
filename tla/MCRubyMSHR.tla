----------------------------- MODULE MCRubyMSHR -----------------------------
EXTENDS RubyMSHR, TLC

Symmetry == Permutations(Warps) \cup Permutations(Blocks)

SubsetsOf(S, n) == {T \in SUBSET S : Cardinality(T) = n}

\* Stores skip the MSHRs, the load/store unit is the faster side.
SkipConfigs ==
  [gmem_skip_L1D : {FALSE}, m_writes_stall_at_mshr : {FALSE},
          m_single_write_per_warp : {FALSE},
          m_num_entries : {2}, m_max_merged : {2}, m_num_seq_entries : {2},
          mem_warp_parts : {2}, IcntTicks : {1}, OncePerTick : {FALSE},
          UsedWarps : {Warps}, UsedBlocks : SubsetsOf(Blocks, 2), MaxInFlight : {3}]

\* Stores wait in the MSHRs, and CORE ticks need no ICNT tick between them.
StallConfigs ==
  [gmem_skip_L1D : {FALSE}, m_writes_stall_at_mshr : {TRUE},
          m_single_write_per_warp : {FALSE},
          m_num_entries : {2}, m_max_merged : {3}, m_num_seq_entries : {2},
          mem_warp_parts : {1}, IcntTicks : {0}, OncePerTick : {FALSE},
          UsedWarps : {Warps}, UsedBlocks : SubsetsOf(Blocks, 2), MaxInFlight : {4}]

\* One warp, with enough ICNT ticks for ReadAfterOwnWrite.
OwnWriteConfigs ==
  [gmem_skip_L1D : {FALSE}, m_writes_stall_at_mshr : {FALSE},
          m_single_write_per_warp : {FALSE},
          m_num_entries : {3}, m_max_merged : {2}, m_num_seq_entries : {4},
          mem_warp_parts : {2}, IcntTicks : {2}, OncePerTick : {TRUE},
          UsedWarps : SubsetsOf(Warps, 1), UsedBlocks : {Blocks}, MaxInFlight : {4}]

MSHRConfigs == SkipConfigs \cup StallConfigs \cup OwnWriteConfigs

\* Global accesses go around L1 cache and MSHRs.
BypassConfigs ==
  [gmem_skip_L1D : {TRUE}, m_writes_stall_at_mshr : {FALSE},
          m_single_write_per_warp : {TRUE},
          m_num_entries : {2}, m_max_merged : {2}, m_num_seq_entries : {2},
          mem_warp_parts : {1}, IcntTicks : {1}, OncePerTick : {FALSE},
          UsedWarps : {Warps}, UsedBlocks : {Blocks}, MaxInFlight : {2}]
=============================================================================
