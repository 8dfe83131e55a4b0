-------------------------------- MODULE Streams --------------------------------
(***************************************************************************)
(* Facts about streams, sequences that only grow at their end, whatever is *)
(* in them; and induction, as a fact about a set of naturals.              *)
(***************************************************************************)
EXTENDS Integers, Sequences, FiniteSetTheorems, TLAPS

IsSeq(s) == \E S : s \in Seq(S)

LEMMA EmptyIsSeq == IsSeq(<<>>) /\ Len(<<>>) = 0 /\ 1..0 = {}
  <1>1. <<>> \in Seq({}) OBVIOUS
  <1> QED BY <1>1 DEF IsSeq

LEMMA AppendIsSeq ==
  ASSUME NEW s, IsSeq(s), NEW e
  PROVE  /\ IsSeq(Append(s, e)) /\ Len(Append(s, e)) = Len(s) + 1
         /\ \A n \in 1..Len(s) : Append(s, e)[n] = s[n]
         /\ Append(s, e)[Len(s) + 1] = e
         /\ Len(s) \in Nat
  <1>1. PICK S : s \in Seq(S) BY DEF IsSeq
  <1>2. s \in Seq(S \cup {e}) BY <1>1
  <1>3. Append(s, e) \in Seq(S \cup {e}) BY <1>2
  <1> QED BY <1>2, <1>3 DEF IsSeq

(* Induction without an operator parameter: were m missing from S, adding  *)
(* one would map the elements of S up to m one-to-one into a smaller set.  *)
LEMMA SetInduction ==
  ASSUME NEW S, 0 \in S, \A k \in Nat : k \in S => k + 1 \in S
  PROVE  Nat \subseteq S
  <1> SUFFICES ASSUME NEW m \in Nat, m \notin S PROVE FALSE OBVIOUS
  <1> DEFINE T == {k \in 0..m : k \in S}
             f == [k \in T |-> k + 1]
  <1>1. IsFiniteSet(T)
    <2>1. IsFiniteSet(0..m) BY FS_Interval
    <2>2. T \in SUBSET (0..m) OBVIOUS
    <2> HIDE DEF T
    <2> QED BY <2>1, <2>2, FS_Subset
  <1>2. 0 \in T OBVIOUS
  <1>3. f \in [T -> T \ {0}] OBVIOUS
  <1>4. \A x, y \in T : f[x] = f[y] => x = y OBVIOUS
  <1> HIDE DEF T, f
  <1>5. IsFiniteSet(T \ {0}) /\ Cardinality(T \ {0}) = Cardinality(T) - 1
    BY <1>1, <1>2, FS_RemoveElement
  <1>6. Cardinality(T) \in Nat BY <1>1, FS_CardinalityType
  <1>7. Cardinality(T \ {0}) < Cardinality(T) BY <1>5, <1>6
  <1>8. \E x, y \in T : x # y /\ f[x] = f[y] BY <1>1, <1>3, <1>5, <1>7, FS_PigeonHole
  <1> QED BY <1>4, <1>8

(* The same up to n.                                                       *)
LEMMA IntervalInduction ==
  ASSUME NEW n \in Nat, NEW S, 1 \in S,
         \A k \in 1..(n - 1) : k \in S => k + 1 \in S
  PROVE  1..n \subseteq S
  <1> DEFINE T == {k \in Nat : k \in 1..n => k \in S}
  <1>1. 0 \in T OBVIOUS
  <1>2. \A k \in Nat : k \in T => k + 1 \in T
    <2> SUFFICES ASSUME NEW k \in Nat, k \in T, k + 1 \in 1..n PROVE k + 1 \in S OBVIOUS
    <2>1. CASE k = 0 BY <2>1
    <2>2. CASE k \in 1..(n - 1) BY <2>2
    <2> QED BY <2>1, <2>2
  <1> HIDE DEF T
  <1>3. Nat \subseteq T BY <1>1, <1>2, SetInduction
  <1> QED BY <1>3 DEF T
=============================================================================
