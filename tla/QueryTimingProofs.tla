--------------------------- MODULE QueryTimingProofs ---------------------------
(***************************************************************************)
(* What the timing store keeps, for any size of its lists and any rows.    *)
(*                                                                         *)
(* The invariant of the store is kept by each row, and so by a loop over   *)
(* rows.  Induction on the turns of a loop is the principle of the least   *)
(* number (OrderProofs): the least turn at which a loop goes wrong follows *)
(* one at which it was right.                                              *)
(***************************************************************************)
EXTENDS QueryTiming, OrderProofs, SequenceTheorems

(* Sorted lists.                                                           *)

Descending(list) == \A i, j \in 1..Len(list) : i < j => list[i] >= list[j]

\* A list of rows that is sorted, slowest first.
Sorted(list) == list \in Seq(Nat) /\ Descending(list)

\* A sorted list stays as it is.
LEMMA SortedIsFixed ==
    ASSUME NEW list, Sorted(list)
    PROVE  SlowestFirst(list) = list
<1>1. list \in Seq(Nat) /\ \A i, j \in 1..Len(list) : i < j => list[i] >= list[j]
  BY DEF Sorted, Descending
<1>2. Len(list) \in Nat /\ \A i \in 1..Len(list) : list[i] \in Nat
  BY <1>1
<1>3. \A i \in 1..Len(list) : Preceding(list, i) = 1..(i - 1)
  <2> TAKE i \in 1..Len(list)
  <2>1. \A j \in 1..Len(list) :
            (list[j] > list[i] \/ (list[j] = list[i] /\ j < i)) <=> j < i
    BY <1>1, <1>2
  <2>2. 1..(i - 1) = {j \in 1..Len(list) : j < i}
    BY <1>2
  <2> QED BY <2>1, <2>2 DEF Preceding
<1>4. \A i \in 1..Len(list) : Cardinality(Preceding(list, i)) = i - 1
  <2> TAKE i \in 1..Len(list)
  <2>1. Cardinality(1..(i - 1)) = i - 1
    BY <1>2, FS_Interval
  <2> QED BY <2>1, <1>3
<1>5. \A k \in 1..Len(list) :
          (CHOOSE i \in 1..Len(list) : Cardinality(Preceding(list, i)) = k - 1) = k
  <2> TAKE k \in 1..Len(list)
  <2>1. \A i \in 1..Len(list) : Cardinality(Preceding(list, i)) = k - 1 <=> i = k
    BY <1>2, <1>4
  <2> QED BY <2>1
<1>6. list = [k \in 1..Len(list) |-> list[k]]
  BY <1>1
<1> QED BY <1>5, <1>6 DEF SlowestFirst

\* Where a row goes in a sorted list: before the first that is faster.
GoesAt(list, d, q) ==
    /\ q \in 1..(Len(list) + 1)
    /\ \A i \in 1..Len(list) : i < q => list[i] >= d
    /\ \A i \in 1..Len(list) : i >= q => list[i] < d

Inserted(list, d, q) ==
    [k \in 1..(Len(list) + 1) |->
        IF k < q THEN list[k] ELSE IF k = q THEN d ELSE list[k - 1]]

LEMMA PlaceExists ==
    ASSUME NEW list, Sorted(list), NEW d \in Nat
    PROVE  \E q : GoesAt(list, d, q)
<1>1. list \in Seq(Nat) /\ \A i, j \in 1..Len(list) : i < j => list[i] >= list[j]
  BY DEF Sorted, Descending
<1>2. Len(list) \in Nat /\ \A i \in 1..Len(list) : list[i] \in Nat
  BY <1>1
<1> DEFINE S == {i \in 1..(Len(list) + 1) : i = Len(list) + 1 \/ list[i] < d}
<1>3. S \subseteq Nat /\ Len(list) + 1 \in S
  BY <1>2
<1>4. PICK q \in S : \A i \in S : q <= i
  <2> HIDE DEF S
  <2> QED BY <1>3, LeastNumber
<1>5. q \in 1..(Len(list) + 1) /\ (q = Len(list) + 1 \/ list[q] < d)
  OBVIOUS
<1>6. \A i \in 1..Len(list) : i < q => list[i] >= d
  <2> SUFFICES ASSUME NEW i \in 1..Len(list), i < q, ~(list[i] >= d)
               PROVE  FALSE
    OBVIOUS
  <2>1. list[i] < d /\ i \in 1..(Len(list) + 1)
    BY <1>2
  <2>2. i \in S
    BY <2>1
  <2>3. q <= i
    BY <1>4, <2>2
  <2> QED BY <2>3, <1>2, <1>5
<1>7. \A i \in 1..Len(list) : i >= q => list[i] < d
  <2> SUFFICES ASSUME NEW i \in 1..Len(list), i >= q
               PROVE  list[i] < d
    OBVIOUS
  <2>1. q \in 1..Len(list) /\ list[q] < d
    BY <1>2, <1>5
  <2>2. list[q] >= list[i]
    BY <1>1, <1>2, <2>1
  <2> QED BY <2>1, <2>2, <1>2
<1> QED BY <1>5, <1>6, <1>7 DEF GoesAt

LEMMA InsertedSorted ==
    ASSUME NEW list, Sorted(list), NEW d \in Nat, NEW q, GoesAt(list, d, q)
    PROVE  /\ Sorted(Inserted(list, d, q))
           /\ Len(Inserted(list, d, q)) = Len(list) + 1
<1> DEFINE n == Len(list)
           new == Inserted(list, d, q)
<1>1. list \in Seq(Nat) /\ \A i, j \in 1..n : i < j => list[i] >= list[j]
  BY DEF Sorted, Descending
<1>2. n \in Nat /\ \A i \in 1..n : list[i] \in Nat
  BY <1>1
<1>3. /\ q \in 1..(n + 1)
      /\ \A i \in 1..n : i < q => list[i] >= d
      /\ \A i \in 1..n : i >= q => list[i] < d
  BY DEF GoesAt
<1>4. new = [k \in 1..(n + 1) |->
                IF k < q THEN list[k] ELSE IF k = q THEN d ELSE list[k - 1]]
  BY DEF Inserted
<1> HIDE DEF n, new
<1>5. \A k \in 1..(n + 1) : new[k] \in Nat
  BY <1>2, <1>3, <1>4
<1>6. new \in [1..(n + 1) -> Nat]
  BY <1>4, <1>5
<1>7. new \in Seq(Nat) /\ Len(new) = n + 1
  BY <1>2, <1>6
<1>8. \A i, j \in 1..(n + 1) : i < j => new[i] >= new[j]
  <2> SUFFICES ASSUME NEW i \in 1..(n + 1), NEW j \in 1..(n + 1), i < j
               PROVE  new[i] >= new[j]
    OBVIOUS
  <2>1. CASE j < q
    <3>1. i \in 1..n /\ j \in 1..n /\ i < q
      BY <1>2, <1>3, <2>1
    <3> QED BY <1>1, <1>4, <2>1, <3>1
  <2>2. CASE j = q
    <3>1. i \in 1..n /\ i < q
      BY <1>2, <1>3, <2>2
    <3> QED BY <1>3, <1>4, <2>2, <3>1
  <2>3. CASE i < q /\ q < j
    <3>1. i \in 1..n /\ j - 1 \in 1..n /\ q <= j - 1
      BY <1>2, <1>3, <2>3
    <3>2. new[i] = list[i] /\ new[j] = list[j - 1]
      BY <1>2, <1>3, <1>4, <2>3
    <3>3. list[i] >= d /\ list[j - 1] < d
      BY <1>3, <2>3, <3>1
    <3> QED BY <1>2, <3>1, <3>2, <3>3
  <2>4. CASE i = q
    <3>1. j - 1 \in 1..n /\ q <= j - 1
      BY <1>2, <1>3, <2>4
    <3>2. new[i] = d /\ new[j] = list[j - 1]
      BY <1>2, <1>3, <1>4, <2>4
    <3>3. list[j - 1] < d /\ list[j - 1] \in Nat
      BY <1>2, <1>3, <3>1
    <3> QED BY <3>2, <3>3
  <2>5. CASE q < i
    <3>1. i - 1 \in 1..n /\ j - 1 \in 1..n /\ i - 1 < j - 1
      BY <1>2, <1>3, <2>5
    <3>2. new[i] = list[i - 1] /\ new[j] = list[j - 1]
      BY <1>2, <1>3, <1>4, <2>5
    <3> QED BY <1>1, <3>1, <3>2
  <2> QED BY <1>3, <2>1, <2>2, <2>3, <2>4, <2>5
<1> QED BY <1>7, <1>8 DEF Sorted, Descending, n, new

\* A row added to a sorted list is sorted into its place.
LEMMA AddedIsInserted ==
    ASSUME NEW list, Sorted(list), NEW d \in Nat, NEW q, GoesAt(list, d, q)
    PROVE  SlowestFirst(Append(list, d)) = Inserted(list, d, q)
<1> DEFINE n == Len(list)
           all == Append(list, d)
<1>1. list \in Seq(Nat) /\ \A i, j \in 1..n : i < j => list[i] >= list[j]
  BY DEF Sorted, Descending
<1>2. n \in Nat /\ \A i \in 1..n : list[i] \in Nat
  BY <1>1
<1>3. /\ q \in 1..(n + 1)
      /\ \A i \in 1..n : i < q => list[i] >= d
      /\ \A i \in 1..n : i >= q => list[i] < d
  BY DEF GoesAt
<1>4. Len(all) = n + 1 /\ all[n + 1] = d /\ \A i \in 1..n : all[i] = list[i]
  BY <1>1
<1> HIDE DEF n, all
<1>5. \A i \in 1..(n + 1) :
          Preceding(all, i) =
              {j \in 1..(n + 1) : all[j] > all[i] \/ (all[j] = all[i] /\ j < i)}
  BY <1>4 DEF Preceding
<1>6. \A i \in 1..n : i < q => Cardinality(Preceding(all, i)) = i - 1
  <2> SUFFICES ASSUME NEW i \in 1..n, i < q
               PROVE  Cardinality(Preceding(all, i)) = i - 1
    OBVIOUS
  <2>1. \A j \in 1..(n + 1) :
            (all[j] > all[i] \/ (all[j] = all[i] /\ j < i)) <=> j < i
    <3> SUFFICES ASSUME NEW j \in 1..(n + 1)
                 PROVE  (all[j] > all[i] \/ (all[j] = all[i] /\ j < i)) <=> j < i
      OBVIOUS
    <3>1. all[i] = list[i] /\ list[i] \in Nat /\ list[i] >= d
      BY <1>2, <1>3, <1>4
    <3>2. CASE j = n + 1
      <4>1. all[j] = d /\ ~(j < i)
        BY <1>2, <1>4, <3>2
      <4> QED BY <3>1, <4>1
    <3>3. CASE j \in 1..n
      <4>1. all[j] = list[j] /\ list[j] \in Nat
        BY <1>2, <1>4, <3>3
      <4>2. /\ j < i => list[j] >= list[i]
            /\ i < j => list[i] >= list[j]
        BY <1>1, <3>3
      <4> QED BY <3>1, <3>3, <4>1, <4>2
    <3> QED BY <1>2, <3>2, <3>3
  <2>2. {j \in 1..(n + 1) : j < i} = 1..(i - 1)
    BY <1>2
  <2>3. Preceding(all, i) = {j \in 1..(n + 1) : j < i}
    <3>1. i \in 1..(n + 1)
      BY <1>2
    <3> QED BY <3>1, <2>1, <1>5
  <2>4. Cardinality(1..(i - 1)) = i - 1
    BY <1>2, FS_Interval
  <2> QED BY <2>2, <2>3, <2>4
<1>7. Cardinality(Preceding(all, n + 1)) = q - 1
  <2>1. \A j \in 1..(n + 1) :
            (all[j] > all[n + 1] \/ (all[j] = all[n + 1] /\ j < n + 1)) <=> j < q
    BY <1>2, <1>3, <1>4
  <2>2. {j \in 1..(n + 1) : j < q} = 1..(q - 1)
    BY <1>2, <1>3
  <2>3. Preceding(all, n + 1) = {j \in 1..(n + 1) : j < q}
    <3>1. n + 1 \in 1..(n + 1)
      BY <1>2
    <3> QED BY <3>1, <2>1, <1>5
  <2>4. Cardinality(1..(q - 1)) = q - 1
    BY <1>3, FS_Interval
  <2> QED BY <2>2, <2>3, <2>4
<1>8. \A i \in 1..n : i >= q => Cardinality(Preceding(all, i)) = i
  <2> SUFFICES ASSUME NEW i \in 1..n, i >= q
               PROVE  Cardinality(Preceding(all, i)) = i
    OBVIOUS
  <2>1. \A j \in 1..(n + 1) :
            (all[j] > all[i] \/ (all[j] = all[i] /\ j < i)) <=> (j < i \/ j = n + 1)
    <3>1. all[i] = list[i] /\ list[i] < d /\ list[i] \in Nat /\ i \in Nat
      BY <1>2, <1>3, <1>4
    <3>2. all[n + 1] > all[i]
      BY <3>1, <1>4
    <3>3. \A j \in 1..n : (all[j] > all[i] \/ (all[j] = all[i] /\ j < i)) <=> j < i
      <4> TAKE j \in 1..n
      <4>1. /\ all[j] = list[j] /\ list[j] \in Nat
            /\ j < i => list[j] >= list[i]
            /\ i < j => list[i] >= list[j]
        BY <1>1, <1>2, <1>4
      <4> QED BY <3>1, <4>1
    <3> QED BY <3>1, <3>2, <3>3, <1>2
  <2>2. {j \in 1..(n + 1) : j < i \/ j = n + 1} = 1..(i - 1) \cup {n + 1}
    BY <1>2
  <2>3. Preceding(all, i) = {j \in 1..(n + 1) : j < i \/ j = n + 1}
    <3>1. i \in 1..(n + 1)
      BY <1>2
    <3> QED BY <3>1, <2>1, <1>5
  <2>4. IsFiniteSet(1..(i - 1)) /\ Cardinality(1..(i - 1)) = i - 1
    BY <1>2, FS_Interval
  <2>5. n + 1 \notin 1..(i - 1)
    BY <1>2
  <2>6. Cardinality(1..(i - 1) \cup {n + 1}) = (i - 1) + 1
    BY <2>4, <2>5, FS_AddElement
  <2>7. (i - 1) + 1 = i
    BY <1>2
  <2> QED BY <2>2, <2>3, <2>6, <2>7
<1>9. \A k \in 1..(n + 1) :
          (CHOOSE i \in 1..(n + 1) : Cardinality(Preceding(all, i)) = k - 1)
              = IF k < q THEN k ELSE IF k = q THEN n + 1 ELSE k - 1
  <2> TAKE k \in 1..(n + 1)
  <2>1. \A i \in 1..(n + 1) :
            Cardinality(Preceding(all, i)) = k - 1 <=>
                i = IF k < q THEN k ELSE IF k = q THEN n + 1 ELSE k - 1
    BY <1>2, <1>3, <1>6, <1>7, <1>8
  <2>2. (IF k < q THEN k ELSE IF k = q THEN n + 1 ELSE k - 1) \in 1..(n + 1)
    BY <1>2, <1>3
  <2> DEFINE P(i) == Cardinality(Preceding(all, i)) = k - 1
             at == IF k < q THEN k ELSE IF k = q THEN n + 1 ELSE k - 1
  <2>3. at \in 1..(n + 1) /\ \A i \in 1..(n + 1) : P(i) <=> i = at
    BY <2>1, <2>2
  <2> HIDE DEF P, at
  <2>4. (CHOOSE i \in 1..(n + 1) : P(i)) = at
    BY <2>3
  <2> QED BY <2>4 DEF P, at
<1>10. SlowestFirst(all) =
           [k \in 1..(n + 1) |->
               all[IF k < q THEN k ELSE IF k = q THEN n + 1 ELSE k - 1]]
  <2>1. SlowestFirst(all) =
            [k \in 1..(n + 1) |->
                all[CHOOSE i \in 1..(n + 1) : Cardinality(Preceding(all, i)) = k - 1]]
    BY <1>4 DEF SlowestFirst
  <2> QED BY <2>1, <1>9
<1>11. \A k \in 1..(n + 1) :
           all[IF k < q THEN k ELSE IF k = q THEN n + 1 ELSE k - 1]
               = IF k < q THEN list[k] ELSE IF k = q THEN d ELSE list[k - 1]
  BY <1>2, <1>3, <1>4
<1> QED BY <1>10, <1>11 DEF Inserted, n, all

-----------------------------------------------------------------------------
(* The slowest rows.                                                       *)

\* The slowest MaxMetadata rows of a sorted list.
Slowest(all) ==
    SubSeq(all, 1, IF Len(all) < MaxMetadata THEN Len(all) ELSE MaxMetadata)

LEMMA SlowestRows ==
    ASSUME NEW all, Sorted(all)
    PROVE  /\ Sorted(Slowest(all))
           /\ Len(Slowest(all)) = IF Len(all) < MaxMetadata THEN Len(all) ELSE MaxMetadata
           /\ \A i \in 1..Len(Slowest(all)) : Slowest(all)[i] = all[i]
<1>1. all \in Seq(Nat) /\ \A i, j \in 1..Len(all) : i < j => all[i] >= all[j]
  BY DEF Sorted, Descending
<1> DEFINE m == IF Len(all) < MaxMetadata THEN Len(all) ELSE MaxMetadata
<1>2. m \in Nat /\ m <= Len(all) /\ Len(all) \in Nat
  BY <1>1, TimingAssumption
<1>3. Slowest(all) = SubSeq(all, 1, m)
  BY DEF Slowest
<1> HIDE DEF m
<1>4. /\ SubSeq(all, 1, m) \in Seq(Nat)
      /\ Len(SubSeq(all, 1, m)) = m
      /\ \A i \in 1..m : SubSeq(all, 1, m)[i] = all[i]
  <2>1. 1 \in Int /\ m \in Int /\ \A i \in 1..m : all[i] \in Nat
    BY <1>1, <1>2
  <2>2. /\ SubSeq(all, 1, m) \in Seq(Nat)
        /\ Len(SubSeq(all, 1, m)) = IF 1 <= m THEN m - 1 + 1 ELSE 0
        /\ \A i \in 1..(m - 1 + 1) : SubSeq(all, 1, m)[i] = all[1 + i - 1]
    BY <2>1, SubSeqProperties
  <2> QED BY <1>2, <2>2
<1>5. \A i, j \in 1..m : i < j => all[i] >= all[j]
  <2>1. \A i \in 1..m : i \in 1..Len(all)
    BY <1>2
  <2> QED BY <1>1, <2>1
<1>6. Sorted(SubSeq(all, 1, m))
  BY <1>4, <1>5 DEF Sorted, Descending
<1> QED BY <1>3, <1>4, <1>6 DEF m

\* Lists of the same rows are one list.
LEMMA SameRows ==
    ASSUME NEW s \in Seq(Nat), NEW t \in Seq(Nat), Len(s) = Len(t),
           \A i \in 1..Len(s) : s[i] = t[i]
    PROVE  s = t
<1>1. /\ s = [i \in 1..Len(s) |-> s[i]]
      /\ t = [i \in 1..Len(t) |-> t[i]]
  OBVIOUS
<1>2. [i \in 1..Len(s) |-> s[i]] = [i \in 1..Len(s) |-> t[i]]
  BY Zenon
<1> QED BY <1>1, <1>2

\* What addScanMetadata keeps of a row and the slowest of all before it are the slowest
\* of all.
LEMMA KeepKeepsSlowest ==
    ASSUME NEW all, Sorted(all), NEW d \in Nat
    PROVE  /\ Sorted(SlowestFirst(Append(all, d)))
           /\ Keep(Slowest(all), d) = Slowest(SlowestFirst(Append(all, d)))
<1> DEFINE list == Slowest(all)
           K == MaxMetadata
           n == Len(all)
           l == Len(list)
<1>1. PICK q : GoesAt(all, d, q)
  BY PlaceExists
<1> DEFINE new == Inserted(all, d, q)
<1>2. SlowestFirst(Append(all, d)) = new /\ Sorted(new) /\ Len(new) = n + 1
  BY <1>1, AddedIsInserted, InsertedSorted
<1>3. PICK p : GoesAt(list, d, p)
  BY SlowestRows, PlaceExists
<1> DEFINE sorted == Inserted(list, d, p)
<1>4. SlowestFirst(Append(list, d)) = sorted /\ Sorted(sorted) /\ Len(sorted) = l + 1
  BY <1>3, SlowestRows, AddedIsInserted, InsertedSorted
<1>5. /\ Sorted(list)
      /\ l = IF n < K THEN n ELSE K
      /\ \A i \in 1..l : list[i] = all[i]
  BY SlowestRows
<1>6. /\ K \in Nat /\ K # 0 /\ n \in Nat /\ l \in Nat
      /\ \A i \in 1..n : all[i] \in Nat
  <2>1. all \in Seq(Nat) /\ list \in Seq(Nat)
    BY <1>5 DEF Sorted
  <2> QED BY <2>1, TimingAssumption
<1>7. /\ q \in 1..(n + 1)
      /\ \A i \in 1..n : i < q => all[i] >= d
      /\ \A i \in 1..n : i >= q => all[i] < d
      /\ p \in 1..(l + 1)
      /\ \A i \in 1..l : i < p => all[i] >= d
      /\ \A i \in 1..l : i >= p => all[i] < d
  BY <1>1, <1>3, <1>5 DEF GoesAt
<1>16. list \in Seq(Nat) /\ sorted \in Seq(Nat)
  BY <1>4, <1>5 DEF Sorted
<1>8. /\ \A k \in 1..(n + 1) :
             new[k] = IF k < q THEN all[k] ELSE IF k = q THEN d ELSE all[k - 1]
      /\ \A k \in 1..(l + 1) :
             sorted[k] = IF k < p THEN list[k] ELSE IF k = p THEN d ELSE list[k - 1]
  BY DEF Inserted
<1>9. Keep(list, d) =
          IF l = K /\ d < list[K] THEN list
          ELSE IF l < K THEN sorted ELSE SubSeq(sorted, 1, K)
  BY <1>4 DEF Keep
<1>10. /\ Slowest(new) \in Seq(Nat)
       /\ Len(Slowest(new)) = IF n + 1 < K THEN n + 1 ELSE K
       /\ \A i \in 1..Len(Slowest(new)) : Slowest(new)[i] = new[i]
  BY <1>2, SlowestRows DEF Sorted
<1> HIDE DEF list, K, n, l, new, sorted
<1>11. Keep(list, d) = Slowest(new)
  <2>1. CASE l = K /\ d < list[K]
    <3>1. n >= K /\ K \in 1..n /\ K \in 1..l /\ list[K] = all[K]
      BY <2>1, <1>5, <1>6
    <3>2. q > K
      BY <3>1, <2>1, <1>6, <1>7
    <3>3. Len(Slowest(new)) = l
      BY <3>1, <2>1, <1>6, <1>10
    <3>4. \A i \in 1..l : Slowest(new)[i] = list[i]
      <4> TAKE i \in 1..l
      <4>1. Slowest(new)[i] = new[i]
        BY <3>3, <1>10
      <4>2. i \in 1..(n + 1) /\ i < q
        BY <3>1, <3>2, <2>1, <1>6, <1>7
      <4>3. new[i] = all[i]
        BY <4>2, <1>8
      <4> QED BY <4>1, <4>3, <1>5
    <3>5. Slowest(new) = list
      BY <3>3, <3>4, <1>16, <1>10, SameRows DEF l
    <3> QED BY <3>5, <2>1, <1>9
  <2>2. CASE l = K /\ ~(d < list[K])
    <3>1. n >= K /\ K \in 1..n /\ K \in 1..l /\ list[K] = all[K]
      BY <2>2, <1>5, <1>6
    <3>2. Len(Slowest(new)) = K
      BY <3>1, <1>6, <1>10
    <3>3. /\ SubSeq(sorted, 1, K) \in Seq(Nat)
          /\ Len(SubSeq(sorted, 1, K)) = K
          /\ \A i \in 1..K : SubSeq(sorted, 1, K)[i] = sorted[i]
      BY <2>2, <1>4, <1>6, <1>16
    <3>4. \A i \in 1..K : new[i] = sorted[i]
      <4>1. CASE q <= K
        <5>1. p = q
          <6>1. q \in 1..l /\ q \in 1..n
            BY <4>1, <3>1, <2>2, <1>6, <1>7
          <6>2. p <= q
            BY <6>1, <1>6, <1>7
          <6>3. ~(p < q)
            BY <6>1, <1>6, <1>7, p \in 1..l \/ p = l + 1
          <6> QED BY <6>2, <6>3, <1>6, <1>7
        <5> TAKE i \in 1..K
        <5>2. i \in 1..(n + 1) /\ i \in 1..(l + 1) /\ i \in 1..l
          BY <3>1, <2>2, <1>6
        <5>3. i > q => i - 1 \in 1..l
          BY <5>2, <1>6, <1>7
        <5>4. i < q \/ i = q \/ i > q
          BY <5>2, <1>7
        <5> QED BY <5>1, <5>2, <5>3, <5>4, <1>5, <1>8
      <4>2. CASE q > K
        <5>1. p = K + 1
          <6>1. all[K] >= d /\ all[K] \in Nat
            BY <4>2, <3>1, <1>6, <1>7
          <6>2. ~(p <= K)
            BY <6>1, <3>1, <1>6, <1>7
          <6> QED BY <6>2, <2>2, <1>6, <1>7
        <5> TAKE i \in 1..K
        <5>2. i \in 1..(n + 1) /\ i \in 1..(l + 1) /\ i \in 1..l /\ i < q /\ i < p
          BY <5>1, <4>2, <3>1, <2>2, <1>6, <1>7
        <5> QED BY <5>2, <1>5, <1>8
      <4> QED BY <4>1, <4>2, <1>6, <1>7
    <3>5. SubSeq(sorted, 1, K) = Slowest(new)
      BY <3>2, <3>3, <3>4, <1>10, SameRows
    <3> QED BY <3>5, <2>2, <1>6, <1>9
  <2>3. CASE l # K
    <3>1. l < K /\ l = n
      BY <2>3, <1>5, <1>6
    <3>2. Len(Slowest(new)) = l + 1
      BY <3>1, <1>6, <1>10
    <3>3. p = q
      <4>1. ~(p < q)
        BY <3>1, <1>6, <1>7
      <4>2. ~(q < p)
        BY <3>1, <1>6, <1>7
      <4> QED BY <4>1, <4>2, <1>6, <1>7
    <3>4. \A i \in 1..(l + 1) : new[i] = sorted[i]
      <4> TAKE i \in 1..(l + 1)
      <4>1. i < q => i \in 1..l
        BY <3>1, <1>6, <1>7
      <4>2. i > q => i - 1 \in 1..l
        BY <3>1, <1>6, <1>7
      <4> QED BY <3>1, <3>3, <4>1, <4>2, <1>5, <1>6, <1>7, <1>8
    <3>5. sorted = Slowest(new)
      BY <3>1, <3>2, <3>4, <1>4, <1>16, <1>10, SameRows
    <3> QED BY <3>1, <3>5, <1>6, <1>9
  <2> QED BY <2>1, <2>2, <2>3
<1> QED BY <1>2, <1>11 DEF list, new

-----------------------------------------------------------------------------
(* The store.                                                              *)

\* The invariant of the store: each list holds the slowest of the rows offered to it.
StoreInv(timing) ==
    /\ timing = [scanMetadata    |-> timing.scanMetadata,
                 queryRowSummary |-> timing.queryRowSummary,
                 offered         |-> timing.offered]
    /\ DOMAIN timing.offered = DOMAIN timing.scanMetadata
    /\ \A t \in DOMAIN timing.scanMetadata :
           /\ Sorted(timing.offered[t])
           /\ timing.scanMetadata[t] = Slowest(timing.offered[t])

LEMMA EmptyList == Sorted(<<>>) /\ Slowest(<<>>) = <<>>
<1>1. <<>> \in Seq(Nat) /\ Len(<<>>) = 0
  OBVIOUS
<1>2. Sorted(<<>>)
  BY <1>1 DEF Sorted, Descending
<1>3. Sorted(Slowest(<<>>)) /\ Len(Slowest(<<>>)) = 0
  BY <1>1, <1>2, SlowestRows, TimingAssumption
<1> QED BY <1>1, <1>2, <1>3, SameRows DEF Sorted

LEMMA EmptyStore ==
    /\ StoreInv(EmptyTiming)
    /\ DOMAIN EmptyTiming.scanMetadata = {}
    /\ DOMAIN EmptyTiming.queryRowSummary = {}
BY DEF StoreInv, EmptyTiming

LEMMA ClearedStore ==
    ASSUME NEW timing, StoreInv(timing)
    PROVE  /\ StoreInv(ClearSummary(timing))
           /\ ClearSummary(timing).scanMetadata = timing.scanMetadata
           /\ DOMAIN ClearSummary(timing).queryRowSummary = {}
           /\ StoreInv(ClearScanMetadata(timing))
           /\ DOMAIN ClearScanMetadata(timing).scanMetadata = {}
           /\ ClearScanMetadata(timing).queryRowSummary = timing.queryRowSummary
<1>1. PICK sm, qrs, off :
          timing = [scanMetadata |-> sm, queryRowSummary |-> qrs, offered |-> off]
  BY DEF StoreInv
<1>2. /\ DOMAIN off = DOMAIN sm
      /\ \A t \in DOMAIN sm : Sorted(off[t]) /\ sm[t] = Slowest(off[t])
  BY <1>1 DEF StoreInv
<1>3. ClearSummary(timing) =
          [scanMetadata |-> sm, queryRowSummary |-> <<>>, offered |-> off]
  BY <1>1 DEF ClearSummary
<1>4. ClearScanMetadata(timing) =
          [scanMetadata |-> <<>>, queryRowSummary |-> qrs, offered |-> <<>>]
  <2> DEFINE none == <<>>
  <2>1. ClearScanMetadata(timing) = [timing EXCEPT !.scanMetadata = none, !.offered = none]
    BY DEF ClearScanMetadata
  <2> HIDE DEF none
  <2>2. ClearScanMetadata(timing) =
            [scanMetadata |-> none, queryRowSummary |-> qrs, offered |-> none]
    BY <1>1, <2>1
  <2> QED BY <2>2 DEF none
<1> QED BY <1>1, <1>2, <1>3, <1>4 DEF StoreInv

\* removeStaleScanMetadata leaves the list of one query, as it was.
LEMMA FreshStore ==
    ASSUME NEW timing, StoreInv(timing), NEW timestamp
    PROVE  /\ StoreInv(RemoveStaleScanMetadata(timing, timestamp))
           /\ DOMAIN RemoveStaleScanMetadata(timing, timestamp).scanMetadata
                  \subseteq {timestamp}
           /\ DOMAIN RemoveStaleScanMetadata(timing, timestamp).queryRowSummary
                  \subseteq DOMAIN timing.queryRowSummary
BY DEF StoreInv, RemoveStaleScanMetadata

\* addScanMetadata keeps the invariant.
LEMMA AddedRow ==
    ASSUME NEW timing, StoreInv(timing), NEW timestamp, NEW d \in Nat
    PROVE  LET added == AddScanMetadata(timing, timestamp, d)
           IN  /\ StoreInv(added)
               /\ DOMAIN added.scanMetadata = DOMAIN timing.scanMetadata \cup {timestamp}
               /\ added.queryRowSummary = timing.queryRowSummary
<1> DEFINE list == At(timing.scanMetadata, timestamp, <<>>)
           all == At(timing.offered, timestamp, <<>>)
           added == AddScanMetadata(timing, timestamp, d)
           grown == SlowestFirst(Append(all, d))
<1>1. /\ DOMAIN timing.offered = DOMAIN timing.scanMetadata
      /\ \A t \in DOMAIN timing.scanMetadata :
             /\ Sorted(timing.offered[t])
             /\ timing.scanMetadata[t] = Slowest(timing.offered[t])
  BY DEF StoreInv
<1>2. Sorted(all) /\ list = Slowest(all)
  BY <1>1, EmptyList DEF At
<1>3. /\ added.scanMetadata = Put(timing.scanMetadata, timestamp, Keep(list, d))
      /\ added.offered = Put(timing.offered, timestamp, grown)
      /\ added.queryRowSummary = timing.queryRowSummary
      /\ added = [scanMetadata    |-> added.scanMetadata,
                  queryRowSummary |-> added.queryRowSummary,
                  offered         |-> added.offered]
  <2>1. PICK sm, qrs, off :
            timing = [scanMetadata |-> sm, queryRowSummary |-> qrs, offered |-> off]
    BY DEF StoreInv
  <2>2. added = [timing EXCEPT
                    !.scanMetadata = Put(@, timestamp, Keep(list, d)),
                    !.offered = Put(@, timestamp, grown)]
    BY DEF AddScanMetadata
  <2> HIDE DEF added
  <2> QED BY <2>1, <2>2
<1> HIDE DEF list, all, added, grown
<1>4. Sorted(grown) /\ Keep(list, d) = Slowest(grown)
  BY <1>2, KeepKeepsSlowest DEF grown
<1>5. /\ DOMAIN added.scanMetadata = DOMAIN timing.scanMetadata \cup {timestamp}
      /\ DOMAIN added.offered = DOMAIN added.scanMetadata
  BY <1>1, <1>3 DEF Put
<1>6. ASSUME NEW t \in DOMAIN added.scanMetadata
      PROVE  /\ Sorted(added.offered[t])
             /\ added.scanMetadata[t] = Slowest(added.offered[t])
  BY <1>1, <1>3, <1>4, <1>5 DEF Put
<1> QED BY <1>3, <1>5, <1>6 DEF StoreInv, added

\* The loop over the rows of a scan is a function of the turn.
LEMMA LoopOverRows ==
    ASSUME NEW timing, NEW timestamp, NEW rows \in Seq(Nat)
    PROVE  \E after :
               /\ after = [k \in 0..Len(rows) |->
                              IF k = 0 THEN timing
                              ELSE AddScanMetadata(after[k - 1], timestamp, rows[k])]
               /\ AddRows(timing, timestamp, rows) = after[Len(rows)]
<1> DEFINE IsLoop(g, n) ==
               g = [k \in 0..n |->
                       IF k = 0 THEN timing
                       ELSE AddScanMetadata(g[k - 1], timestamp, rows[k])]
           Wrong == {n \in Nat : ~ \E g : IsLoop(g, n)}
<1>1. Wrong = {}
  <2> SUFFICES ASSUME Wrong # {}
               PROVE  FALSE
    OBVIOUS
  <2>1. PICK m \in Wrong : \A n \in Wrong : m <= n
    <3>1. Wrong \subseteq Nat
      OBVIOUS
    <3> HIDE DEF Wrong
    <3> QED BY <3>1, LeastNumber
  <2>2. m \in Nat /\ ~ \E g : IsLoop(g, m)
    OBVIOUS
  <2>3. m # 0
    <3> DEFINE g == [k \in 0..0 |-> timing]
    <3>1. \A k \in 0..0 : k = 0
      OBVIOUS
    <3>2. IsLoop(g, 0)
      BY <3>1
    <3> QED BY <3>2, <2>2
  <2>4. PICK g : IsLoop(g, m - 1)
    <3>1. m - 1 \in Nat /\ ~(m <= m - 1)
      BY <2>2, <2>3
    <3>2. m - 1 \notin Wrong
      BY <3>1, <2>1
    <3> QED BY <3>1, <3>2
  <2> DEFINE h == [k \in 0..m |->
                      IF k = m THEN AddScanMetadata(g[m - 1], timestamp, rows[m])
                      ELSE g[k]]
  <2>5. IsLoop(h, m)
    <3>1. h = [k \in 0..m |-> h[k]]
      OBVIOUS
    <3>2. \A k \in 0..m :
              h[k] = IF k = 0 THEN timing
                     ELSE AddScanMetadata(h[k - 1], timestamp, rows[k])
      <4> TAKE k \in 0..m
      <4>1. CASE k = m
        <5>1. h[m - 1] = g[m - 1] /\ h[k] = AddScanMetadata(g[m - 1], timestamp, rows[m])
          BY <4>1, <2>2, <2>3
        <5> QED BY <5>1, <4>1, <2>3
      <4>2. CASE k # m
        <5>1. k \in 0..(m - 1) /\ h[k] = g[k] /\ (k # 0 => h[k - 1] = g[k - 1])
          BY <4>2, <2>2
        <5>2. g[k] = IF k = 0 THEN timing
                     ELSE AddScanMetadata(g[k - 1], timestamp, rows[k])
          BY <5>1, <2>4
        <5> QED BY <5>1, <5>2
      <4> QED BY <4>1, <4>2
    <3> HIDE DEF h
    <3> QED BY <3>1, <3>2
  <2> QED BY <2>2, <2>5
<1>2. \E g : IsLoop(g, Len(rows))
  <2>1. Len(rows) \in Nat
    OBVIOUS
  <2> QED BY <1>1, <2>1
<1> DEFINE after == CHOOSE g : IsLoop(g, Len(rows))
<1>3. IsLoop(after, Len(rows))
  <2> HIDE DEF IsLoop
  <2> QED BY <1>2
<1>4. AddRows(timing, timestamp, rows) = after[Len(rows)]
  BY DEF AddRows
<1> HIDE DEF after
<1> QED BY <1>3, <1>4

\* So are its effects.
LEMMA AddedRows ==
    ASSUME NEW timing, StoreInv(timing), NEW timestamp, NEW rows \in Seq(Nat)
    PROVE  LET added == AddRows(timing, timestamp, rows)
           IN  /\ StoreInv(added)
               /\ added.queryRowSummary = timing.queryRowSummary
               /\ DOMAIN added.scanMetadata
                      = DOMAIN timing.scanMetadata
                            \cup (IF rows = <<>> THEN {} ELSE {timestamp})
<1>1. PICK after :
          /\ after = [k \in 0..Len(rows) |->
                         IF k = 0 THEN timing
                         ELSE AddScanMetadata(after[k - 1], timestamp, rows[k])]
          /\ AddRows(timing, timestamp, rows) = after[Len(rows)]
  BY LoopOverRows
<1>2. Len(rows) \in Nat /\ \A k \in 1..Len(rows) : rows[k] \in Nat
  OBVIOUS
<1>3. after[0] = timing
  BY <1>1, <1>2
<1>4. \A k \in 1..Len(rows) :
          after[k] = AddScanMetadata(after[k - 1], timestamp, rows[k])
  <2> TAKE k \in 1..Len(rows)
  <2>1. k \in 0..Len(rows) /\ k # 0
    BY <1>2
  <2> QED BY <2>1, <1>1
<1> DEFINE Right(k) ==
               /\ StoreInv(after[k])
               /\ after[k].queryRowSummary = timing.queryRowSummary
               /\ DOMAIN after[k].scanMetadata
                      = DOMAIN timing.scanMetadata
                            \cup (IF k = 0 THEN {} ELSE {timestamp})
           Wrong == {k \in 0..Len(rows) : ~Right(k)}
<1>5. Wrong = {}
  <2> SUFFICES ASSUME Wrong # {}
               PROVE  FALSE
    OBVIOUS
  <2>1. PICK m \in Wrong : \A k \in Wrong : m <= k
    <3>1. Wrong \subseteq Nat
      OBVIOUS
    <3> HIDE DEF Wrong
    <3> QED BY <3>1, LeastNumber
  <2>2. m \in 0..Len(rows) /\ ~Right(m)
    OBVIOUS
  <2>3. Right(0)
    BY <1>3
  <2> HIDE DEF Right
  <2>4. m \in 1..Len(rows) /\ m - 1 \in 0..Len(rows) /\ ~(m <= m - 1)
    BY <2>2, <2>3, <1>2
  <2>5. Right(m - 1)
    BY <2>1, <2>4
  <2>6. rows[m] \in Nat /\ after[m] = AddScanMetadata(after[m - 1], timestamp, rows[m])
    BY <2>4, <1>2, <1>4
  <2>7. /\ StoreInv(after[m])
        /\ after[m].queryRowSummary = after[m - 1].queryRowSummary
        /\ DOMAIN after[m].scanMetadata
               = DOMAIN after[m - 1].scanMetadata \cup {timestamp}
    <3> DEFINE before == after[m - 1]
               d == rows[m]
    <3>1. StoreInv(before) /\ d \in Nat
      BY <2>5, <2>6 DEF Right
    <3>2. after[m] = AddScanMetadata(before, timestamp, d)
      BY <2>6
    <3> HIDE DEF before, d
    <3>3. LET added == AddScanMetadata(before, timestamp, d)
          IN  /\ StoreInv(added)
              /\ DOMAIN added.scanMetadata = DOMAIN before.scanMetadata \cup {timestamp}
              /\ added.queryRowSummary = before.queryRowSummary
      BY <3>1, AddedRow
    <3>4. /\ StoreInv(after[m])
          /\ DOMAIN after[m].scanMetadata = DOMAIN before.scanMetadata \cup {timestamp}
          /\ after[m].queryRowSummary = before.queryRowSummary
      BY <3>2, <3>3, Zenon
    <3> QED BY <3>4 DEF before
  <2>8. m # 0
    BY <2>4
  <2>9. Right(m)
    BY <2>5, <2>7, <2>8 DEF Right
  <2> QED BY <2>2, <2>9
<1>6. Right(Len(rows))
  BY <1>2, <1>5
<1>7. Len(rows) = 0 <=> rows = <<>>
  OBVIOUS
<1> QED BY <1>1, <1>6, <1>7

\* hubBase.AddScanMetadata: after it the store holds the rows of its query alone.
LEMMA AddedScan ==
    ASSUME NEW timing, StoreInv(timing), NEW timestamp,
           NEW rows \in Seq(Nat), rows # <<>>
    PROVE  LET added == AddScan(timing, timestamp, rows)
           IN  /\ StoreInv(added)
               /\ DOMAIN added.scanMetadata = {timestamp}
               /\ DOMAIN added.queryRowSummary
                      \subseteq DOMAIN timing.queryRowSummary \cup {timestamp}
<1> DEFINE count == At(timing.queryRowSummary, timestamp, 0) + Len(rows)
           fresh == RemoveStaleScanMetadata(timing, timestamp)
           added == AddRows(fresh, timestamp, rows)
<1>1. /\ StoreInv(fresh)
      /\ DOMAIN fresh.scanMetadata \subseteq {timestamp}
      /\ DOMAIN fresh.queryRowSummary \subseteq DOMAIN timing.queryRowSummary
  BY FreshStore
<1> HIDE DEF fresh
<1>2. /\ StoreInv(added)
      /\ added.queryRowSummary = fresh.queryRowSummary
      /\ DOMAIN added.scanMetadata = {timestamp}
  BY <1>1, AddedRows
<1>3. AddScan(timing, timestamp, rows)
          = [added EXCEPT !.queryRowSummary = Put(@, timestamp, count)]
  BY DEF AddScan, fresh
<1> HIDE DEF count, added
<1>4. PICK sm, qrs, off :
          added = [scanMetadata |-> sm, queryRowSummary |-> qrs, offered |-> off]
  BY <1>2 DEF StoreInv
<1>5. AddScan(timing, timestamp, rows)
          = [scanMetadata |-> sm, queryRowSummary |-> Put(qrs, timestamp, count),
             offered |-> off]
  BY <1>3, <1>4
<1>6. /\ DOMAIN sm = {timestamp} /\ DOMAIN off = DOMAIN sm
      /\ \A t \in DOMAIN sm : Sorted(off[t]) /\ sm[t] = Slowest(off[t])
      /\ DOMAIN qrs \subseteq DOMAIN timing.queryRowSummary
  BY <1>1, <1>2, <1>4 DEF StoreInv
<1>7. DOMAIN Put(qrs, timestamp, count)
          \subseteq DOMAIN timing.queryRowSummary \cup {timestamp}
  BY <1>6 DEF Put
<1> QED BY <1>5, <1>6, <1>7 DEF StoreInv

=============================================================================
