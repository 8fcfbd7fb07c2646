---------------------------- MODULE MCCacheLease3 ----------------------------
(* Instances of CacheLease3 for TLC. *)
EXTENDS CacheLease3, TLC

Symmetry == Permutations(L1s) \cup Permutations(Addrs)

AllRequests == {"LD", "ST", "ATOMIC", "MEM_FENCE"}
ReadsAndWrites == {"LD", "ST"}
NoAtomics == {"LD", "ST", "MEM_FENCE"}

=============================================================================
