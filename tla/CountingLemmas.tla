--------------------------- MODULE CountingLemmas ---------------------------
(***************************************************************************)
(* How the cardinality of a finite set changes when elements are removed,  *)
(* added, exchanged or mapped: the counting steps of the proofs that bound *)
(* overlapping executions, extra attempts and repeated enqueues.           *)
(***************************************************************************)
EXTENDS FiniteSetTheorems, TLAPS

(* A subset is no larger.                                                  *)
LEMMA SubsetCount ==
  ASSUME NEW S, NEW T, IsFiniteSet(S), T \subseteq S
  PROVE  /\ IsFiniteSet(T) /\ Cardinality(T) <= Cardinality(S)
         /\ Cardinality(S) \in Nat /\ Cardinality(T) \in Nat
  BY FS_Subset, FS_CardinalityType

(* One element is exchanged for another, which may be there already.       *)
LEMMA ReplaceCount ==
  ASSUME NEW S, NEW T, NEW x \in S, NEW y, IsFiniteSet(S),
         T \subseteq (S \ {x}) \cup {y}
  PROVE  IsFiniteSet(T) /\ Cardinality(T) <= Cardinality(S)
  <1> DEFINE D == S \ {x}
  <1>1. /\ IsFiniteSet(D) /\ Cardinality(D) = Cardinality(S) - 1
        /\ Cardinality(S) \in Nat /\ Cardinality(D) \in Nat
    BY FS_RemoveElement, FS_CardinalityType
  <1>2. T \subseteq D \cup {y}
    OBVIOUS
  <1> HIDE DEF D
  <1>3. /\ IsFiniteSet(D \cup {y})
        /\ Cardinality(D \cup {y}) = IF y \in D THEN Cardinality(D)
                                                ELSE Cardinality(D) + 1
    BY <1>1, FS_AddElement
  <1>4. /\ IsFiniteSet(T) /\ Cardinality(T) <= Cardinality(D \cup {y})
        /\ Cardinality(D \cup {y}) \in Nat /\ Cardinality(T) \in Nat
    BY <1>2, <1>3, SubsetCount
  <1> QED
    BY <1>1, <1>3, <1>4

(* One element, at most, is added.                                         *)
LEMMA AddCount ==
  ASSUME NEW S, NEW T, NEW y, IsFiniteSet(S), T \subseteq S \cup {y}
  PROVE  IsFiniteSet(T) /\ Cardinality(T) <= Cardinality(S) + 1
  <1>1. /\ IsFiniteSet(S \cup {y}) /\ Cardinality(S) \in Nat
        /\ Cardinality(S \cup {y}) <= Cardinality(S) + 1
    BY FS_AddElement, FS_CardinalityType
  <1>2. /\ IsFiniteSet(T) /\ Cardinality(T) <= Cardinality(S \cup {y})
        /\ Cardinality(S \cup {y}) \in Nat /\ Cardinality(T) \in Nat
    BY <1>1, SubsetCount
  <1> QED
    BY <1>1, <1>2

(* One element, at least, is removed.                                      *)
LEMMA RemoveCount ==
  ASSUME NEW S, NEW T, NEW x \in S, IsFiniteSet(S), T \subseteq S \ {x}
  PROVE  IsFiniteSet(T) /\ Cardinality(T) <= Cardinality(S) - 1
  <1>1. /\ IsFiniteSet(S \ {x}) /\ Cardinality(S \ {x}) = Cardinality(S) - 1
        /\ Cardinality(S) \in Nat
    BY FS_RemoveElement, FS_CardinalityType
  <1>2. /\ IsFiniteSet(T) /\ Cardinality(T) <= Cardinality(S \ {x})
        /\ Cardinality(S \ {x}) \in Nat /\ Cardinality(T) \in Nat
    BY <1>1, SubsetCount
  <1> QED
    BY <1>1, <1>2

(* The values of a function are no more than its arguments.                *)
LEMMA ValueCount ==
  ASSUME NEW S, NEW T, NEW f, IsFiniteSet(S), T = {f[x] : x \in S}
  PROVE  IsFiniteSet(T) /\ Cardinality(T) <= Cardinality(S)
  <1> DEFINE g == [x \in S |-> f[x]]
  <1>1. g \in Surjection(S, T)
    BY DEF Surjection
  <1> QED
    BY <1>1, FS_Surjection
=============================================================================
