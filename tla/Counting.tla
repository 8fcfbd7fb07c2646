------------------------------ MODULE Counting ------------------------------
(***************************************************************************)
(* The laws of finite sets and their cardinalities that the proofs about   *)
(* counters use. The step lemmas take them as a hypothesis, CountingLaws;  *)
(* the theorems discharge it from FiniteSetTheorems.                       *)
(***************************************************************************)
EXTENDS Integers, FiniteSets

CardinalityLaw == \A S : IsFiniteSet(S) => Cardinality(S) \in Nat

EmptyLaw ==
    /\ IsFiniteSet({}) /\ Cardinality({}) = 0
    /\ \A S : IsFiniteSet(S) => (Cardinality(S) = 0 <=> S = {})

SingletonLaw == \A x : IsFiniteSet({x}) /\ Cardinality({x}) = 1

AddLaw ==
    \A S, x : IsFiniteSet(S) =>
        /\ IsFiniteSet(S \cup {x})
        /\ Cardinality(S \cup {x}) = IF x \in S THEN Cardinality(S) ELSE Cardinality(S) + 1

RemoveLaw ==
    \A S, x : IsFiniteSet(S) =>
        /\ IsFiniteSet(S \ {x})
        /\ Cardinality(S \ {x}) = IF x \in S THEN Cardinality(S) - 1 ELSE Cardinality(S)

SubsetLaw ==
    \A S : IsFiniteSet(S) => \A T \in SUBSET S :
        IsFiniteSet(T) /\ Cardinality(T) <= Cardinality(S)

IntervalLaw == \A n \in Nat : IsFiniteSet(1 .. n) /\ Cardinality(1 .. n) = n

ProductLaw ==
    \A S, T : IsFiniteSet(S) /\ IsFiniteSet(T) =>
        IsFiniteSet(S \X T) /\ Cardinality(S \X T) = Cardinality(S) * Cardinality(T)

\* A one-to-one image has as many elements.
ImageLaw ==
    \A S, f : IsFiniteSet(S) /\ (\A x, y \in S : f[x] = f[y] => x = y) =>
        /\ IsFiniteSet({f[x] : x \in S})
        /\ Cardinality({f[x] : x \in S}) = Cardinality(S)

CountingLaws ==
    /\ CardinalityLaw /\ EmptyLaw /\ SingletonLaw /\ AddLaw /\ RemoveLaw
    /\ SubsetLaw /\ IntervalLaw /\ ProductLaw /\ ImageLaw
=============================================================================
