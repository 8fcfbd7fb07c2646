------------------------------ MODULE Messages ------------------------------
(* What a queue of messages holds: which messages, and how many of a kind. *)
EXTENDS Naturals, Sequences, FiniteSets

Elements(s) == {s[i] : i \in 1..Len(s)}

\* How many messages of the kind T are in s.
InFlight(s, T) == Cardinality({i \in 1..Len(s) : s[i] \in T})

=============================================================================
