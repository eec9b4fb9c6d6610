------------------------------- MODULE Counting -------------------------------
(***************************************************************************)
(* Facts about natural numbers and finite sets that the proofs about the   *)
(* KV cache count blocks with.  The lemmas of KVCacheLemmas and            *)
(* KVCacheManagerProofs take them as the hypothesis Counting;              *)
(* KVCacheManagerProofs then proves Counting (CountingHolds) from the      *)
(* library, and its theorems have no such hypothesis.                      *)
(***************************************************************************)
EXTENDS Integers, FiniteSets, Functions

\* A set of natural numbers that is not empty has a least element.
LeastNumber ==
    \A S \in SUBSET Nat : S # {} => \E x \in S : \A y \in S : x <= y

\* The empty set has no element.
EmptySize ==
    IsFiniteSet({}) /\ Cardinality({}) = 0

\* A set of one element.
SingletonSize ==
    \A x : IsFiniteSet({x}) /\ Cardinality({x}) = 1

\* A finite set has as many elements as numbers from 1 to its cardinality.
SizeType ==
    \A S : IsFiniteSet(S) => Cardinality(S) \in Nat /\ ExistsBijection(1..Cardinality(S), S)

\* The integers from a to b.
IntervalSize ==
    \A a, b \in Int : IsFiniteSet(a..b) /\ Cardinality(a..b) = IF a > b THEN 0 ELSE b - a + 1

\* A part of a finite set is not larger.
SubsetSize ==
    \A S : \A T \in SUBSET S : IsFiniteSet(S) => IsFiniteSet(T) /\ Cardinality(T) <= Cardinality(S)

\* Two finite sets together.
UnionSize ==
    \A S, T : IsFiniteSet(S) /\ IsFiniteSet(T) =>
        /\ IsFiniteSet(S \cup T)
        /\ Cardinality(S \cup T) = Cardinality(S) + Cardinality(T) - Cardinality(S \cap T)

\* A finite set without some elements.
DifferenceSize ==
    \A S, T : IsFiniteSet(S) =>
        IsFiniteSet(S \ T) /\ Cardinality(S \ T) = Cardinality(S) - Cardinality(S \cap T)

\* A bijection keeps the number of elements.
BijectionSize ==
    \A S, T : IsFiniteSet(S) /\ ExistsBijection(S, T) =>
        IsFiniteSet(T) /\ Cardinality(T) = Cardinality(S)

\* An injection goes to a set that is not smaller, and one as large is met in full.
InjectionSize ==
    \A S, T : \A f \in Injection(S, T) : IsFiniteSet(T) =>
        /\ IsFiniteSet(S) /\ Cardinality(S) <= Cardinality(T)
        /\ Cardinality(S) = Cardinality(T) <=> f \in Surjection(S, T)

\* A surjection comes from a set that is not smaller.
SurjectionSize ==
    \A S, T : \A f \in Surjection(S, T) : IsFiniteSet(S) =>
        IsFiniteSet(T) /\ Cardinality(T) <= Cardinality(S)

\* The pairs of two finite sets.
ProductSize ==
    \A S, T : IsFiniteSet(S) /\ IsFiniteSet(T) =>
        IsFiniteSet(S \X T) /\ Cardinality(S \X T) = Cardinality(S) * Cardinality(T)

\* Finitely many finite sets together are finite.
FiniteUnion ==
    \A S : IsFiniteSet(S) /\ (\A T \in S : IsFiniteSet(T)) => IsFiniteSet(UNION S)

\* All of these.
Counting ==
    /\ LeastNumber /\ EmptySize /\ SingletonSize /\ SizeType /\ IntervalSize
    /\ SubsetSize /\ UnionSize /\ DifferenceSize /\ BijectionSize
    /\ InjectionSize /\ SurjectionSize /\ ProductSize /\ FiniteUnion
===============================================================================
