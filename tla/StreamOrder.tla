----------------------------- MODULE StreamOrder -----------------------------
(***************************************************************************)
(* What the stream manager promises to an application: operations of one   *)
(* stream are performed one at a time and in the order they were pushed,   *)
(* operations of different streams may overlap, and an operation of stream *)
(* zero overlaps with nothing.                                             *)
(***************************************************************************)
EXTENDS Naturals, Sequences

CONSTANTS Streams, Zero, Operations

VARIABLES queue,    \* per stream: operations pushed and not completed
          started   \* per stream: the front operation is being performed

Every == Streams \cup {Zero}

Init == queue = [s \in Every |-> <<>>] /\ started = [s \in Every |-> FALSE]

Enqueue(s, op) ==
  /\ queue' = [queue EXCEPT ![s] = Append(@, op)]
  /\ UNCHANGED started

\* Streams that must be at rest when s starts an operation.
Excluded(s) == IF s = Zero THEN Every ELSE {s, Zero}

MayStart(s) == queue[s] # <<>> /\ \A t \in Excluded(s) : ~started[t]

Start(s) ==
  /\ MayStart(s)
  /\ started' = [started EXCEPT ![s] = TRUE]
  /\ UNCHANGED queue

Complete(s) ==
  /\ started[s]
  /\ queue[s] # <<>>
  /\ queue' = [queue EXCEPT ![s] = Tail(@)]
  /\ started' = [started EXCEPT ![s] = FALSE]

\* An operation that starts and completes in one step, as copies do.
Perform(s) ==
  /\ MayStart(s)
  /\ queue' = [queue EXCEPT ![s] = Tail(@)]
  /\ UNCHANGED started

Next == \E s \in Every :
          \/ \E op \in Operations : Enqueue(s, op)
          \/ Start(s) \/ Complete(s) \/ Perform(s)

Spec == Init /\ [][Next]_<<queue, started>>

=============================================================================
