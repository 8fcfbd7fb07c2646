--------------------------- MODULE MCGarnetNetwork ---------------------------
(***************************************************************************)
(* Small instances of GarnetNetwork.                                       *)
(***************************************************************************)
EXTENDS GarnetNetwork

\* The GPU crossbar: two L1s (1, 2) of one cluster and an L2 (3), each with a
\* switch of its own (4, 5, 6), the cluster's switch (7) and the root (8).
CrossbarFrom == <<1, 2, 3, 4, 5, 6, 7, 8, 8, 8>>
CrossbarTo   == <<4, 5, 6, 7, 7, 8, 8, 1, 2, 3>>
CrossbarIn   == [r \in 4 .. 8 |-> CASE r = 4 -> <<1>> [] r = 5 -> <<2>> [] r = 6 -> <<3>>
                                     [] r = 7 -> <<4, 5>> [] r = 8 -> <<7, 6>>]
CrossbarOut  == [r \in 4 .. 8 |-> CASE r = 4 -> <<4>> [] r = 5 -> <<5>> [] r = 6 -> <<6>>
                                     [] r = 7 -> <<7>> [] r = 8 -> <<8, 9, 10>>]
CrossbarRoute == [p \in (4 .. 8) \X (1 .. 3) |-> IF p[1] = 8 THEN 7 + p[2] ELSE p[1]]

Message(i, src, dests, vnet, size) ==
  [name |-> i, src |-> src, dests |-> dests, vnet |-> vnet, size |-> size]

UnitLatency == [l \in 1 .. 10 |-> 1]

\* A request of each L1 to the L2, and two answers of the L2, the first to both.
CrossbarWork == {{Message(1, 1, {3}, 0, 2), Message(2, 2, {3}, 0, 2),
                  Message(3, 3, {1, 2}, 1, 2), Message(4, 3, {2}, 1, 1)}}

=============================================================================
