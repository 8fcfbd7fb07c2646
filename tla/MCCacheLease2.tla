---------------------------- MODULE MCCacheLease2 ----------------------------
(* Instances of CacheLease2 for TLC. *)
EXTENDS CacheLease2, TLC

Symmetry == Permutations(L1s) \cup Permutations(Addrs)

AllRequests == {"LD", "ST", "ATOMIC"}

=============================================================================
