------------------------------ MODULE OrderProofs ------------------------------
(***************************************************************************)
(* Facts about order that several proofs need: the principle of the least  *)
(* number, and the places of the members of a finite set in an order.      *)
(***************************************************************************)
EXTENDS Naturals, FiniteSets, FiniteSetTheorems, WellFoundedInduction, TLAPS

\* A set of natural numbers has a least one.
LEMMA LeastNumber ==
    ASSUME NEW S, S \subseteq Nat, S # {}
    PROVE  \E m \in S : \A n \in S : m <= n
<1>1. PICK m \in S : \A n \in S : ~(<<n, m>> \in OpToRel(<, Nat))
  <2>1. IsWellFoundedOn(OpToRel(<, Nat), Nat)
    BY NatLessThanWellFounded
  <2> QED BY <2>1, WFMin
<1>2. \A n \in S : ~(n < m)
  BY <1>1 DEF OpToRel
<1> QED BY <1>2

-----------------------------------------------------------------------------
(* Places.                                                                 *)

\* ahead[i] are the members of S ahead of i in a total order.
InOrder(S, ahead) ==
    /\ \A i \in S : ahead[i] \subseteq S /\ i \notin ahead[i]
    /\ \A i, j \in S : i = j \/ i \in ahead[j] \/ j \in ahead[i]
    /\ \A i, j \in S : i \in ahead[j] => ahead[i] \subseteq ahead[j]

\* Who is ahead of another has the lower place.
LEMMA AheadIsLower ==
    ASSUME NEW S, IsFiniteSet(S), NEW ahead, InOrder(S, ahead), NEW i \in S, NEW j \in S
    PROVE  /\ Cardinality(ahead[i]) \in Nat
           /\ Cardinality(ahead[i]) < Cardinality(S)
           /\ i \in ahead[j] => Cardinality(ahead[i]) < Cardinality(ahead[j])
<1>1. /\ ahead[i] \subseteq S /\ ahead[i] # S
      /\ IsFiniteSet(ahead[i]) /\ IsFiniteSet(ahead[j])
  BY FS_Subset DEF InOrder
<1>2. /\ Cardinality(ahead[i]) \in Nat /\ Cardinality(ahead[j]) \in Nat
      /\ Cardinality(S) \in Nat
  BY <1>1, FS_CardinalityType
<1>3. Cardinality(ahead[i]) < Cardinality(S)
  BY <1>1, <1>2, FS_Subset
<1>4. ASSUME i \in ahead[j]
      PROVE  Cardinality(ahead[i]) < Cardinality(ahead[j])
  <2>1. ahead[i] \subseteq ahead[j] /\ ahead[i] # ahead[j]
    BY <1>4 DEF InOrder
  <2> QED BY <1>1, <1>2, <2>1, FS_Subset
<1> QED BY <1>2, <1>3, <1>4

\* Each place is that of one member.
LEMMA PlacesFilled ==
    ASSUME NEW S, IsFiniteSet(S), NEW ahead, InOrder(S, ahead)
    PROVE  /\ \A i, j \in S : Cardinality(ahead[i]) = Cardinality(ahead[j]) => i = j
           /\ \A n \in 0..(Cardinality(S) - 1) : \E i \in S : Cardinality(ahead[i]) = n
<1> DEFINE places == 0..(Cardinality(S) - 1)
           place == [i \in S |-> Cardinality(ahead[i])]
<1>1. Cardinality(S) \in Nat
  BY FS_CardinalityType
<1>2. IsFiniteSet(places) /\ Cardinality(places) = Cardinality(S)
  <2> DEFINE n == Cardinality(S)
  <2>1. n \in Nat /\ n - 1 \in Int /\ 0 \in Int
    BY <1>1
  <2> HIDE DEF n
  <2>2. IsFiniteSet(0..(n - 1)) /\ Cardinality(0..(n - 1)) = IF 0 > n - 1 THEN 0 ELSE (n - 1) - 0 + 1
    BY <2>1, FS_Interval
  <2>3. Cardinality(0..(n - 1)) = n
    BY <2>1, <2>2
  <2> QED BY <2>2, <2>3 DEF n
<1>3. \A i \in S : Cardinality(ahead[i]) \in places
  <2> SUFFICES ASSUME NEW i \in S PROVE Cardinality(ahead[i]) \in places
    OBVIOUS
  <2>1. Cardinality(ahead[i]) \in Nat /\ Cardinality(ahead[i]) < Cardinality(S)
    BY AheadIsLower
  <2> QED BY <1>1, <2>1
<1>4. \A i, j \in S : Cardinality(ahead[i]) = Cardinality(ahead[j]) => i = j
  <2> SUFFICES ASSUME NEW i \in S, NEW j \in S,
                      Cardinality(ahead[i]) = Cardinality(ahead[j]), i # j
               PROVE  FALSE
    OBVIOUS
  <2>1. i \in ahead[j] \/ j \in ahead[i]
    BY DEF InOrder
  <2> QED BY <2>1, AheadIsLower
<1> HIDE DEF places
<1>5. place \in Injection(S, places)
  BY <1>3, <1>4 DEF Injection, IsInjective
<1>6. place \in Surjection(S, places)
  BY <1>2, <1>5, FS_Injection
<1>7. \A n \in places : \E i \in S : place[i] = n
  BY <1>6 DEF Surjection
<1> QED BY <1>4, <1>7 DEF places

\* A part of the set with its first n members keeps their places.
LEMMA FirstPlacesKept ==
    ASSUME NEW S, IsFiniteSet(S), NEW ahead, InOrder(S, ahead), NEW n \in Nat, NEW T
    PROVE  (\A j \in S : Cardinality(ahead[j]) < n => j \in T)
             => \A i \in S : Cardinality(ahead[i]) < n => ahead[i] \cap T = ahead[i]
<1> SUFFICES ASSUME \A j \in S : Cardinality(ahead[j]) < n => j \in T,
                    NEW i \in S, Cardinality(ahead[i]) < n, NEW j \in ahead[i]
             PROVE  j \in T
  OBVIOUS
<1>1. j \in S
  BY DEF InOrder
<1>2. Cardinality(ahead[j]) < Cardinality(ahead[i])
  BY <1>1, AheadIsLower
<1>3. Cardinality(ahead[j]) \in Nat /\ Cardinality(ahead[i]) \in Nat
  BY <1>1, AheadIsLower
<1> QED BY <1>1, <1>2, <1>3

=============================================================================
