---------------------------- MODULE HubScansProofs ----------------------------
(***************************************************************************)
(* What the hub lists, reaches and counts, for any number of nodes,        *)
(* iterators and transactions, and what its timing store says of them.     *)
(* The first invariant, HInv, does not depend on the contents of the       *)
(* store; the second, TimingInv, is that of the store, QueryTimingProofs,  *)
(* with what the callbacks make of it.                                     *)
(***************************************************************************)
EXTENDS HubScans, QueryTimingProofs

\* The types of all but the timing store.
HubTypes ==
    /\ query \in {"none", "executing", "ending", "failed", "rolledBack"}
    /\ timestamp \in Timestamps
    /\ phase \in [Nodes -> {"out", "begun", "done", "explained", "ended"}]
    /\ created \in Nat
    /\ fdwState \in [Nodes -> 0..created]
    /\ iter \in [1..created -> IteratorState]
    /\ sess \subseteq 1..created
    /\ runningIterators \subseteq 1..created
    /\ abandoned \subseteq 1..created

\* An iterator is Ready until its start gives it a cancel function and a reader; a
\* Complete one has been cancelled; one that is Ready or Started has been counted by
\* aborts only.
IteratorFacts(it) ==
    /\ it.status = "Ready" => it.cancel = "nil"
    /\ it.cancel = "nil" => it.status = "Ready"
    /\ it.cancel = "nil" => it.reader = "none"
    /\ it.reader = "none" => it.cancel = "nil"
    /\ it.status = "Complete" => it.cancel = "cancelled"
    /\ it.status = "Ready" \/ it.status = "Started" => it.adds <= it.aborts
    /\ it.adds <= 1 + it.aborts

IteratorsSound == \A i \in 1..created : IteratorFacts(iter[i])

\* A node holds an iterator unless it is out, explained or ended; none does between
\* queries; and no two nodes hold the same one.
NodesHold ==
    /\ \A n \in Nodes : phase[n] \in {"out", "explained", "ended"} <=> fdwState[n] = 0
    /\ query \in {"none", "rolledBack"} => \A n \in Nodes : fdwState[n] = 0
    /\ \A m, n \in Nodes : fdwState[m] = fdwState[n] /\ m # n => fdwState[n] = 0

\* The reader of a held iterator runs beside an Error status only until Postgres gives
\* up the query.
HeldErrors ==
    \A n \in Nodes :
        fdwState[n] # 0 /\ iter[fdwState[n]].status = "Error"
            /\ iter[fdwState[n]].reader = "active" => query = "failed"

Holds(i) == \E n \in Nodes : fdwState[n] = i

\* What is listed is held by a node or abandoned, or was left by an abort that met an
\* iterator without a cancel function, which nobody holds any more.
ListedOwned ==
    \A i \in runningIterators :
        i \in abandoned \/ Holds(i) \/ \E j \in Unstarted : ~Holds(j)

\* An iterator whose end Postgres has not seen has been counted by aborts only.
EndNotCounted ==
    \A n \in Nodes :
        phase[n] = "begun" /\ fdwState[n] # 0
            => iter[fdwState[n]].adds <= iter[fdwState[n]].aborts

\* The inductive invariant.
HInv ==
    /\ HubTypes
    /\ IteratorsSound
    /\ NodesHold
    /\ ExecStateResolves
    /\ ReachableByAbort
    /\ HeldErrors
    /\ ListedOwned
    /\ EndNotCounted
    /\ NoScanOutlivesAbort

-----------------------------------------------------------------------------
(* Iterators.                                                              *)

\* Starting, closing and counting an iterator keep what is known of it; a started one
\* has a cancel function.
LEMMA StartedIterator ==
    ASSUME NEW i, iter[i] \in IteratorState, IteratorFacts(iter[i])
    PROVE  /\ Started(i) \in IteratorState
           /\ IteratorFacts(Started(i))
           /\ Started(i).cancel # "nil"
           /\ Started(i).status # "Ready"
           /\ Started(i).adds = iter[i].adds /\ Started(i).aborts = iter[i].aborts
           /\ iter[i].status # "Ready" => Started(i) = iter[i]
           /\ Started(i).status = "Started" \/ Started(i) = iter[i]
BY DEF Started, IteratorState, IteratorFacts

LEMMA ClosedIterator ==
    ASSUME NEW it \in IteratorState, IteratorFacts(it), it.cancel # "nil"
    PROVE  /\ Closed(it) \in IteratorState
           /\ IteratorFacts(Closed(it))
           /\ Closed(it).cancel = "cancelled"
           /\ Closed(it).reader = it.reader
           /\ Closed(it).status \in {"Error", "Complete"}
           /\ Closed(it).adds = it.adds /\ Closed(it).aborts = it.aborts
BY DEF Closed, IteratorState, IteratorFacts

\* An iterator that is counted after its end is not Ready or Started.
LEMMA CountedIterator ==
    ASSUME NEW it \in IteratorState, IteratorFacts(it), it.adds <= it.aborts
    PROVE  /\ Closed(Counted(it)) \in IteratorState
           /\ it.cancel # "nil" => IteratorFacts(Closed(Counted(it)))
           /\ Closed(Counted(it)).cancel = "cancelled"
           /\ Closed(Counted(it)).status \in {"Error", "Complete"}
           /\ Counted(it) \in IteratorState
           /\ it.status \in {"Error", "Complete"} => IteratorFacts(Counted(it))
           /\ Counted(it).status = it.status /\ Counted(it).cancel = it.cancel
           /\ Counted(it).reader = it.reader
<1>1. /\ Counted(it) \in IteratorState
      /\ Counted(it).status = it.status /\ Counted(it).cancel = it.cancel
      /\ Counted(it).reader = it.reader
      /\ Counted(it).adds = it.adds + 1 /\ Counted(it).aborts = it.aborts
  BY DEF Counted, IteratorState
<1> DEFINE c == Counted(it)
<1>2. /\ Closed(c) \in IteratorState
      /\ Closed(c).cancel = "cancelled" /\ Closed(c).status \in {"Error", "Complete"}
      /\ Closed(c).reader = c.reader
      /\ Closed(c).adds = c.adds /\ Closed(c).aborts = c.aborts
  BY <1>1 DEF Closed, IteratorState
<1>3. it.adds \in Nat /\ it.aborts \in Nat
  BY DEF IteratorState
<1> QED BY <1>1, <1>2, <1>3 DEF IteratorFacts

LEMMA AbortedIterator ==
    ASSUME NEW it \in IteratorState, IteratorFacts(it)
    PROVE  /\ Aborted(it) \in IteratorState
           /\ IteratorFacts(Aborted(it))
           /\ Aborted(it).cancel = it.cancel /\ Aborted(it).status = it.status
           /\ Aborted(it).reader = it.reader
           /\ Aborted(it).adds = it.adds + 1 /\ Aborted(it).aborts = it.aborts + 1
<1>1. /\ Counted(it) \in IteratorState
      /\ Counted(it).status = it.status /\ Counted(it).cancel = it.cancel
      /\ Counted(it).reader = it.reader
      /\ Counted(it).adds = it.adds + 1 /\ Counted(it).aborts = it.aborts
  BY DEF Counted, IteratorState
<1>2. /\ Aborted(it) \in IteratorState
      /\ Aborted(it).status = it.status /\ Aborted(it).cancel = it.cancel
      /\ Aborted(it).reader = it.reader
      /\ Aborted(it).adds = it.adds + 1 /\ Aborted(it).aborts = it.aborts + 1
  BY <1>1 DEF Aborted, IteratorState
<1>3. it.adds \in Nat /\ it.aborts \in Nat
  BY DEF IteratorState
<1> QED BY <1>2, <1>3 DEF IteratorFacts

\* The new iterator is the last, the others stay.
LEMMA AppendedIterator ==
    ASSUME NEW n \in Nat, NEW S, NEW f \in [1..n -> S], NEW e \in S
    PROVE  /\ Append(f, e) \in [1..(n + 1) -> S]
           /\ Append(f, e)[n + 1] = e
           /\ \A i \in 1..n : Append(f, e)[i] = f[i]
<1>1. f \in Seq(S) /\ Len(f) = n
  OBVIOUS
<1>2. Append(f, e) \in Seq(S) /\ Len(Append(f, e)) = n + 1
  BY <1>1
<1>3. \A m \in 1..(n + 1) : Append(f, e)[m] = IF m = n + 1 THEN e ELSE f[m]
  BY <1>1
<1>4. Append(f, e) \in [1..(n + 1) -> S]
  <2>1. \A s \in Seq(S) : s \in [1..Len(s) -> S]
    OBVIOUS
  <2> QED BY <1>2, <2>1
<1> QED BY <1>3, <1>4

-----------------------------------------------------------------------------
(* Steps.                                                                  *)

LEMMA InitImpliesHInv == Init => HInv
BY HubAssumption
   DEF Init, HInv, HubTypes, Timestamps, IteratorsSound, NodesHold, ExecStateResolves,
       ReachableByAbort, HeldErrors, ListedOwned, EndNotCounted, NoScanOutlivesAbort

\* Postgres going from query to query, and the command tables, leave iterators and
\* nodes alone.
LEMMA BetweenScansKeeps ==
    ASSUME HInv,
           \/ StartQuery \/ QueryFails \/ FinishQuery \/ NewTransaction
           \/ ReadSummary \/ ReadScanMetadata
    PROVE  HInv'
<1>1. UNCHANGED <<created, fdwState, iter, sess, runningIterators, abandoned>>
  BY DEF StartQuery, QueryFails, FinishQuery, NewTransaction, ReadSummary,
         ReadScanMetadata, nodeVars
<1>2. HubTypes'
  BY <1>1, HubAssumption
     DEF HInv, HubTypes, Timestamps, StartQuery, QueryFails, FinishQuery,
         NewTransaction, ReadSummary, ReadScanMetadata, nodeVars
<1>3. NodesHold' /\ EndNotCounted'
  BY <1>1 DEF HInv, HubTypes, NodesHold, EndNotCounted, StartQuery, QueryFails,
              FinishQuery, NewTransaction, ReadSummary, ReadScanMetadata, nodeVars
<1>4. /\ query = "failed" => query' = "failed"
      /\ query' = "rolledBack" => query = "rolledBack"
  BY DEF StartQuery, QueryFails, FinishQuery, NewTransaction, ReadSummary,
         ReadScanMetadata
<1>5. /\ IteratorsSound' /\ ExecStateResolves' /\ ReachableByAbort' /\ HeldErrors'
      /\ ListedOwned' /\ NoScanOutlivesAbort'
  BY <1>1, <1>4
     DEF HInv, IteratorsSound, ExecStateResolves, ReachableByAbort, HeldErrors,
         ListedOwned, Holds, Unstarted, NoScanOutlivesAbort
<1> QED BY <1>2, <1>3, <1>5 DEF HInv

\* A node is given a new iterator; the one it had is abandoned.
LEMMA CreateKeeps ==
    ASSUME HInv, NEW n \in Nodes, BeginForeignScan(n) \/ ReScanForeignScan(n)
    PROVE  HInv'
<1>1. /\ created' = created + 1
      /\ iter' = Append(iter, NewIterator)
      /\ fdwState' = [fdwState EXCEPT ![n] = created']
      /\ sess' = sess \cup {created'}
      /\ phase' = [phase EXCEPT ![n] = "begun"]
      /\ query = "executing"
      /\ UNCHANGED <<query, timestamp, runningIterators>>
  BY DEF BeginForeignScan, ReScanForeignScan, CreateIterator
<1>2. /\ abandoned \subseteq abandoned'
      /\ abandoned' \subseteq 1..created
      /\ fdwState[n] # 0 => fdwState[n] \in abandoned'
  BY DEF HInv, HubTypes, NodesHold, ExecStateResolves, BeginForeignScan,
         ReScanForeignScan
<1>3. NewIterator \in IteratorState /\ IteratorFacts(NewIterator)
  BY DEF HInv, HubTypes, NewIterator, IteratorState, IteratorFacts
<1>4. /\ iter' \in [1..created' -> IteratorState]
      /\ iter'[created'] = NewIterator
      /\ \A i \in 1..created : iter'[i] = iter[i]
  <2>1. created \in Nat /\ iter \in [1..created -> IteratorState]
    BY DEF HInv, HubTypes
  <2>2. NewIterator \in IteratorState
    BY <1>3
  <2>3. /\ Append(iter, NewIterator) \in [1..(created + 1) -> IteratorState]
        /\ Append(iter, NewIterator)[created + 1] = NewIterator
        /\ \A i \in 1..created : Append(iter, NewIterator)[i] = iter[i]
    BY <2>1, <2>2, AppendedIterator, Z3
  <2> QED BY <1>1, <2>3
<1>5. HubTypes'
  <2>1. /\ created \in Nat /\ phase \in [Nodes -> {"out", "begun", "done", "explained", "ended"}]
        /\ fdwState \in [Nodes -> 0..created] /\ sess \subseteq 1..created
        /\ runningIterators \subseteq 1..created /\ timestamp \in Timestamps
    BY DEF HInv, HubTypes
  <2>2. created' \in Nat /\ created' \in 1..created' /\ 0..created \subseteq 0..created'
        /\ 1..created \subseteq 1..created'
    BY <1>1, <2>1
  <2>3. phase' \in [Nodes -> {"out", "begun", "done", "explained", "ended"}]
    BY <1>1, <2>1
  <2>4. fdwState' \in [Nodes -> 0..created']
    <3>1. fdwState \in [Nodes -> 0..created'] /\ created' \in 0..created'
      BY <2>1, <2>2
    <3> QED BY <1>1, <3>1
  <2>5. /\ sess' \subseteq 1..created' /\ runningIterators' \subseteq 1..created'
        /\ abandoned' \subseteq 1..created'
    BY <1>1, <1>2, <2>1, <2>2
  <2> QED BY <1>1, <1>4, <2>1, <2>2, <2>3, <2>4, <2>5 DEF HubTypes
<1>6. IteratorsSound'
  BY <1>1, <1>3, <1>4 DEF HInv, HubTypes, IteratorsSound
<1>7. NodesHold' /\ ExecStateResolves'
  BY <1>1 DEF HInv, HubTypes, NodesHold, ExecStateResolves
<1>8. ReachableByAbort' /\ HeldErrors' /\ EndNotCounted' /\ NoScanOutlivesAbort'
  BY <1>1, <1>4 DEF HInv, HubTypes, NodesHold, ReachableByAbort, HeldErrors, EndNotCounted,
                    NoScanOutlivesAbort, NewIterator
<1>9. ListedOwned'
  <2> SUFFICES ASSUME NEW i \in runningIterators'
               PROVE  i \in abandoned' \/ Holds(i)' \/ \E j \in Unstarted' : ~Holds(j)'
    BY DEF ListedOwned
  <2>1. \A j \in 1..created : Holds(j)' => Holds(j)
    BY <1>1 DEF HInv, HubTypes, Holds
  <2>2. \A j \in 1..created : Holds(j) => Holds(j)' \/ j \in abandoned'
    BY <1>1, <1>2 DEF HInv, HubTypes, Holds
  <2>3. Unstarted' = Unstarted /\ runningIterators \subseteq 1..created
    BY <1>1, <1>4 DEF HInv, HubTypes, Unstarted
  <2> QED BY <1>1, <1>2, <2>1, <2>2, <2>3 DEF HInv, ListedOwned, Unstarted
<1> QED BY <1>5, <1>6, <1>7, <1>8, <1>9 DEF HInv

\* A start that fails is listed all the same, and ends the query.
LEMMA IterateStartFailsKeeps ==
    ASSUME HInv, NEW n \in Nodes, IterateStartFails(n)
    PROVE  HInv'
<1>1. PICK i \in 1..created :
          /\ Iterating(n, i) /\ iter[i].status = "Ready" /\ AddIteratorIfReady(i)
          /\ query' = "failed"
          /\ UNCHANGED <<timestamp, phase, fdwState, sess, created, iter, abandoned>>
  BY DEF IterateStartFails, nodeVars
<1>2. runningIterators' = runningIterators \cup {i} /\ fdwState[n] = i
  BY <1>1 DEF AddIteratorIfReady, Iterating
<1>3. HubTypes'
  BY <1>1, <1>2 DEF HInv, HubTypes
<1>4. /\ IteratorsSound' /\ NodesHold' /\ ExecStateResolves' /\ ReachableByAbort'
      /\ HeldErrors' /\ EndNotCounted' /\ NoScanOutlivesAbort'
  BY <1>1, <1>2 DEF HInv, IteratorsSound, NodesHold, ExecStateResolves, ReachableByAbort,
                    HeldErrors, EndNotCounted, NoScanOutlivesAbort
<1>5. ListedOwned'
  BY <1>1, <1>2 DEF HInv, ListedOwned, Holds, Unstarted
<1> QED BY <1>3, <1>4, <1>5 DEF HInv

\* What an IterateForeignScan that reached Start does: the node's iterator is listed
\* from its start on.
Iterated(n, i, it) ==
    /\ Iterating(n, i)
    /\ it \in IteratorState /\ IteratorFacts(it) /\ it.cancel # "nil"
    /\ it.cancel = "live" => iter[i].cancel # "cancelled"
    /\ it.reader = "active" => iter[i].reader # "over"
    /\ it.status = "Error" /\ it.reader = "active" => query' = "failed"
    /\ query' \in {"executing", "failed"}
    /\ \/ phase' = phase /\ it.adds <= it.aborts
       \/ phase' = [phase EXCEPT ![n] = "done"]
    /\ iter' = [iter EXCEPT ![i] = it]
    /\ AddIteratorIfReady(i)
    /\ UNCHANGED <<timestamp, fdwState, sess, created, abandoned>>

LEMMA IteratedKeeps ==
    ASSUME HInv, NEW n \in Nodes, NEW i \in 1..created, NEW it, Iterated(n, i, it)
    PROVE  HInv'
<1>1. /\ iter'[i] = it
      /\ \A j \in 1..created : j # i => iter'[j] = iter[j]
      /\ iter' \in [1..created -> IteratorState]
  BY DEF HInv, HubTypes, Iterated
<1>2. i \in runningIterators' \/ it.cancel = "cancelled" \/ it.reader # "active"
  BY DEF HInv, HubTypes, IteratorsSound, IteratorFacts, ReachableByAbort, Iterated,
         AddIteratorIfReady, IteratorState
<1>3. /\ runningIterators \subseteq runningIterators'
      /\ runningIterators' \subseteq runningIterators \cup {i}
      /\ fdwState[n] = i /\ i # 0 /\ phase[n] = "begun"
  BY DEF HInv, HubTypes, Iterated, AddIteratorIfReady, Iterating
<1>4. HubTypes'
  BY <1>1, <1>3 DEF HInv, HubTypes, Iterated
<1>5. IteratorsSound'
  BY <1>1 DEF HInv, IteratorsSound, Iterated
<1>6. NodesHold' /\ ExecStateResolves' /\ NoScanOutlivesAbort'
  BY <1>3 DEF HInv, HubTypes, NodesHold, ExecStateResolves, NoScanOutlivesAbort, Iterated
<1>7. ReachableByAbort'
  BY <1>1, <1>2, <1>3 DEF HInv, ReachableByAbort, Iterated, IteratorState
<1>8. HeldErrors' /\ EndNotCounted'
  <2>1. \A m \in Nodes : m # n /\ fdwState[m] # 0 => fdwState[m] # i /\ fdwState[m] \in 1..created
    BY <1>3 DEF HInv, HubTypes, NodesHold
  <2>2. query = "executing"
    BY DEF Iterated, Iterating
  <2>3. HeldErrors'
    BY <1>1, <1>3, <2>1, <2>2 DEF HInv, HeldErrors, Iterated
  <2>4. EndNotCounted'
    BY <1>1, <1>3, <2>1 DEF HInv, HubTypes, EndNotCounted, Iterated
  <2> QED BY <2>3, <2>4
<1>9. ListedOwned'
  <2>1. \A j : Holds(j)' <=> Holds(j)
    BY DEF Iterated, Holds
  <2>2. Holds(i)
    BY <1>3 DEF Holds
  <2>3. \A j \in Unstarted : j # i => j \in Unstarted'
    BY <1>1, <1>3 DEF HInv, HubTypes, Unstarted
  <2>4. abandoned' = abandoned
    BY DEF Iterated
  <2> QED BY <1>3, <2>1, <2>2, <2>3, <2>4 DEF HInv, ListedOwned
<1> QED BY <1>4, <1>5, <1>6, <1>7, <1>8, <1>9 DEF HInv

LEMMA IterateKeeps ==
    ASSUME HInv, NEW n \in Nodes, IterateRow(n) \/ IterateEnd(n) \/ IterateError(n)
    PROVE  HInv'
<1>1. \A i \in 1..created :
          /\ iter[i] \in IteratorState /\ IteratorFacts(iter[i])
          /\ iter[i].reader \in {"none", "active", "over"}
          /\ iter[i].cancel \in {"nil", "live", "cancelled"}
  BY DEF HInv, HubTypes, IteratorsSound, IteratorState
<1>2. \A i \in 1..created : Iterating(n, i) => iter[i].adds <= iter[i].aborts
  BY DEF HInv, EndNotCounted, Iterating
<1>3. CASE IterateRow(n)
  <2>1. PICK i \in 1..created :
            /\ Iterating(n, i) /\ Started(i).status = "Started" /\ AddIteratorIfReady(i)
            /\ iter' = [iter EXCEPT ![i] = Started(i)]
            /\ UNCHANGED <<query, timestamp, phase, fdwState, sess, created, abandoned>>
    BY <1>3 DEF IterateRow, nodeVars
  <2>2. /\ Started(i) \in IteratorState /\ IteratorFacts(Started(i))
        /\ Started(i).cancel # "nil"
        /\ Started(i).adds <= Started(i).aborts
        /\ iter[i].status # "Ready" => Started(i) = iter[i]
    BY <1>1, <1>2, <2>1, StartedIterator
  <2>3. iter[i].status = "Ready" => iter[i].reader = "none" /\ iter[i].cancel = "nil"
    BY <1>1 DEF IteratorFacts
  <2>4. /\ Started(i).cancel = "live" => iter[i].cancel # "cancelled"
        /\ Started(i).reader = "active" => iter[i].reader # "over"
    BY <2>2, <2>3
  <2>5. query' \in {"executing", "failed"}
    BY <2>1 DEF Iterating
  <2>6. Iterated(n, i, Started(i))
    BY <2>1, <2>2, <2>4, <2>5 DEF Iterated
  <2> QED BY <2>6, IteratedKeeps
<1>4. CASE IterateEnd(n)
  <2> DEFINE it(i) == IF iter[i].status = "Error" THEN Counted(iter[i])
                      ELSE [Counted(Closed(Started(i))) EXCEPT !.reader = "over"]
  <2>1. PICK i \in 1..created :
            /\ Iterating(n, i) /\ AddIteratorIfReady(i)
            /\ iter' = [iter EXCEPT ![i] = it(i)]
            /\ phase' = [phase EXCEPT ![n] = "done"]
            /\ UNCHANGED <<query, timestamp, fdwState, sess, created, abandoned>>
    BY <1>4 DEF IterateEnd
  <2>2. CASE iter[i].status = "Error"
    <3>1. /\ it(i) \in IteratorState /\ IteratorFacts(it(i))
          /\ it(i).status = "Error" /\ it(i).cancel = iter[i].cancel
          /\ it(i).reader = iter[i].reader
      BY <1>1, <1>2, <2>1, <2>2, CountedIterator
    <3>2. iter[i].cancel # "nil" /\ iter[i].reader # "active"
      BY <1>1, <2>1, <2>2 DEF HInv, HeldErrors, IteratorFacts, Iterating
    <3>3. Iterated(n, i, it(i))
      BY <2>1, <3>1, <3>2 DEF Iterated, Iterating
    <3> QED BY <3>3, IteratedKeeps
  <2>3. CASE iter[i].status # "Error"
    <3> DEFINE c == Closed(Started(i))
    <3>1. /\ c \in IteratorState /\ c.cancel = "cancelled" /\ c.status \in {"Error", "Complete"}
          /\ c.adds <= c.aborts /\ c.adds \in Nat /\ c.aborts \in Nat
      <4>1. /\ Started(i) \in IteratorState /\ IteratorFacts(Started(i))
            /\ Started(i).cancel # "nil"
            /\ Started(i).adds = iter[i].adds /\ Started(i).aborts = iter[i].aborts
        BY <1>1, StartedIterator
      <4>2. iter[i].adds \in Nat /\ iter[i].aborts \in Nat
        BY <1>1 DEF IteratorState
      <4> QED BY <1>2, <2>1, <4>1, <4>2, ClosedIterator
    <3> DEFINE d == Counted(c)
    <3>2. /\ d \in IteratorState
          /\ d.cancel = c.cancel /\ d.status = c.status
          /\ d.adds = c.adds + 1 /\ d.aborts = c.aborts
      BY <3>1 DEF Counted, IteratorState
    <3>3. it(i) = [d EXCEPT !.reader = "over"]
      BY <2>3
    <3> HIDE DEF it, c, d
    <3>4. /\ it(i) \in IteratorState
          /\ it(i).cancel = "cancelled" /\ it(i).status \in {"Error", "Complete"}
          /\ it(i).reader = "over" /\ it(i).adds <= 1 + it(i).aborts
      BY <3>1, <3>2, <3>3 DEF IteratorState
    <3>5. IteratorFacts(it(i))
      BY <3>4 DEF IteratorFacts
    <3>6. Iterated(n, i, it(i))
      BY <2>1, <3>4, <3>5 DEF Iterated, Iterating
    <3> QED BY <3>6, IteratedKeeps
  <2> QED BY <2>2, <2>3
<1>5. CASE IterateError(n)
  <2>1. PICK i \in 1..created, r \in {"active", "over"} :
            /\ Iterating(n, i) /\ AddIteratorIfReady(i) /\ query' = "failed"
            /\ iter[i].reader = "over" => r = "over"
            /\ iter' = [iter EXCEPT ![i] = [Started(i) EXCEPT !.status = "Error", !.reader = r]]
            /\ UNCHANGED <<timestamp, phase, fdwState, sess, created, abandoned>>
    BY <1>5 DEF IterateError, nodeVars
  <2> DEFINE it == [Started(i) EXCEPT !.status = "Error", !.reader = r]
  <2>2. /\ Started(i) \in IteratorState /\ Started(i).cancel # "nil"
        /\ Started(i).cancel = "live" => iter[i].cancel # "cancelled"
        /\ Started(i).adds <= Started(i).aborts
        /\ iter[i].adds \in Nat /\ iter[i].aborts \in Nat
        /\ Started(i).adds = iter[i].adds /\ Started(i).aborts = iter[i].aborts
    BY <1>1, <1>2, <2>1, StartedIterator DEF Started, IteratorFacts, IteratorState
  <2>3. /\ it \in IteratorState /\ it.cancel = Started(i).cancel /\ it.status = "Error"
        /\ it.reader = r
        /\ it.adds = iter[i].adds /\ it.aborts = iter[i].aborts
    BY <2>2 DEF IteratorState
  <2>4. Iterated(n, i, it)
    BY <2>1, <2>2, <2>3 DEF Iterated, IteratorFacts
  <2> QED BY <2>1, <2>4, IteratedKeeps
<1> QED BY <1>3, <1>4, <1>5

\* The reader of any iterator may be over, and have failed.
LEMMA ReaderFinishesKeeps ==
    ASSUME HInv, NEW i \in 1..created, ReaderFinishes(i)
    PROVE  HInv'
<1>1. PICK s \in {iter[i].status, "Error"} :
          iter' = [iter EXCEPT ![i].reader = "over", ![i].status = s]
  BY DEF ReaderFinishes
<1> DEFINE it == [iter[i] EXCEPT !.reader = "over", !.status = s]
<1>2. iter[i] \in IteratorState /\ IteratorFacts(iter[i]) /\ iter[i].reader = "active"
  BY DEF HInv, HubTypes, IteratorsSound, ReaderFinishes
<1>3. /\ it \in IteratorState /\ it.reader = "over" /\ it.cancel = iter[i].cancel
      /\ it.adds = iter[i].adds /\ it.aborts = iter[i].aborts /\ it.status = s
  BY <1>2 DEF IteratorState
<1>4. IteratorFacts(it)
  BY <1>2, <1>3 DEF IteratorFacts
<1>5. /\ iter'[i] = it
      /\ \A j \in 1..created : j # i => iter'[j] = iter[j]
      /\ iter' \in [1..created -> IteratorState]
  BY <1>1, <1>3 DEF HInv, HubTypes
<1>6. UNCHANGED <<query, timestamp, phase, fdwState, sess, created, runningIterators,
                  abandoned>>
  BY DEF ReaderFinishes, nodeVars
<1> HIDE DEF it
<1>7. HubTypes' /\ IteratorsSound' /\ NodesHold' /\ ExecStateResolves'
  <2>1. HubTypes'
    BY <1>5, <1>6 DEF HInv, HubTypes
  <2>2. IteratorsSound'
    BY <1>4, <1>5, <1>6 DEF HInv, IteratorsSound
  <2>3. NodesHold' /\ ExecStateResolves'
    BY <1>6 DEF HInv, NodesHold, ExecStateResolves
  <2> QED BY <2>1, <2>2, <2>3
<1>8. Unstarted' = Unstarted
  <2>1. \A j \in 1..created : iter'[j].cancel = iter[j].cancel
    BY <1>3, <1>5
  <2>2. runningIterators' = runningIterators /\ runningIterators \subseteq 1..created
    BY <1>6 DEF HInv, HubTypes
  <2> QED BY <2>1, <2>2 DEF Unstarted
<1>9. ReachableByAbort' /\ ListedOwned' /\ NoScanOutlivesAbort'
  <2>1. \A j \in 1..created : iter'[j].reader = "active" => iter'[j] = iter[j]
    BY <1>3, <1>5
  <2>2. ReachableByAbort'
    BY <1>6, <2>1 DEF HInv, ReachableByAbort
  <2>3. NoScanOutlivesAbort'
    BY <1>6, <1>8, <2>1 DEF HInv, NoScanOutlivesAbort
  <2>4. ListedOwned'
    BY <1>6, <1>8 DEF HInv, ListedOwned, Holds
  <2> QED BY <2>2, <2>3, <2>4
<1>10. HeldErrors' /\ EndNotCounted'
  <2>1. /\ fdwState' = fdwState /\ \A n \in Nodes : fdwState[n] # 0 => fdwState[n] \in 1..created
    BY <1>6 DEF HInv, HubTypes
  <2>2. \A j \in 1..created : /\ iter'[j].adds = iter[j].adds /\ iter'[j].aborts = iter[j].aborts
                              /\ j = i => iter'[j].reader = "over"
                              /\ j # i => iter'[j] = iter[j]
    BY <1>3, <1>5
  <2>3. HeldErrors'
    BY <1>6, <2>1, <2>2 DEF HInv, HeldErrors
  <2>4. EndNotCounted'
    BY <1>6, <2>1, <2>2 DEF HInv, EndNotCounted
  <2> QED BY <2>3, <2>4
<1> QED BY <1>7, <1>9, <1>10 DEF HInv

\* A node lets go of its iterator, which is abandoned or no longer listed.
LEMMA ExplainKeeps ==
    ASSUME HInv, NEW n \in Nodes, ExplainForeignScan(n)
    PROVE  HInv'
<1>1. /\ fdwState[n] # 0 /\ fdwState[n] \in 1..created
      /\ fdwState' = [fdwState EXCEPT ![n] = 0]
      /\ phase' = [phase EXCEPT ![n] = "explained"]
      /\ abandoned' = abandoned \cup {fdwState[n]}
      /\ query \in {"executing", "ending"} /\ query' = "ending"
      /\ UNCHANGED <<timestamp, created, iter, runningIterators>>
  <2>1. /\ fdwState' = [fdwState EXCEPT ![n] = 0]
        /\ phase' = [phase EXCEPT ![n] = "explained"]
        /\ abandoned' = abandoned \cup {fdwState[n]}
        /\ query \in {"executing", "ending"} /\ query' = "ending"
        /\ UNCHANGED <<timestamp, created, iter, runningIterators>>
        /\ phase[n] \in {"begun", "done"}
    BY DEF ExplainForeignScan
  <2>2. fdwState[n] # 0
    BY <2>1 DEF HInv, NodesHold
  <2>3. fdwState[n] \in 0..created /\ created \in Nat
    BY DEF HInv, HubTypes
  <2> QED BY <2>1, <2>2, <2>3
<1>2. HubTypes'
  <2>1. sess' \subseteq 1..created
    BY <1>1 DEF HInv, HubTypes, ExplainForeignScan
  <2>4. fdwState' \in [Nodes -> 0..created]
    <3>1. 0 \in 0..created /\ fdwState \in [Nodes -> 0..created]
      BY DEF HInv, HubTypes
    <3> QED BY <1>1, <3>1
  <2>2. abandoned' \subseteq 1..created
    BY <1>1 DEF HInv, HubTypes
  <2>3. phase' \in [Nodes -> {"out", "begun", "done", "explained", "ended"}]
    BY <1>1 DEF HInv, HubTypes
  <2> QED BY <1>1, <2>1, <2>2, <2>3, <2>4 DEF HInv, HubTypes
<1>3. IteratorsSound' /\ ReachableByAbort' /\ NoScanOutlivesAbort'
  BY <1>1 DEF HInv, IteratorsSound, ReachableByAbort, NoScanOutlivesAbort
<1>4. NodesHold' /\ ExecStateResolves' /\ HeldErrors' /\ EndNotCounted'
  BY <1>1 DEF HInv, HubTypes, NodesHold, ExecStateResolves, HeldErrors, EndNotCounted,
              ExplainForeignScan
<1>5. ListedOwned'
  <2>1. \A j \in 1..created : Holds(j)' => Holds(j)
    BY <1>1 DEF HInv, HubTypes, Holds
  <2>2. \A j \in 1..created : Holds(j) => Holds(j)' \/ j \in abandoned'
    BY <1>1 DEF HInv, HubTypes, Holds
  <2> QED BY <1>1, <2>1, <2>2 DEF HInv, HubTypes, ListedOwned, Unstarted
<1> QED BY <1>2, <1>3, <1>4, <1>5 DEF HInv

LEMMA EndKeeps ==
    ASSUME HInv, NEW n \in Nodes, EndForeignScan(n)
    PROVE  HInv'
<1> DEFINE i == fdwState[n]
<1>1. /\ query \in {"executing", "ending"} /\ query' = "ending"
      /\ phase' = [phase EXCEPT ![n] = "ended"]
      /\ sess' = sess \ {i}
      /\ fdwState' = [fdwState EXCEPT ![n] = 0]
      /\ UNCHANGED <<timestamp, created, abandoned>>
      /\ runningIterators' = runningIterators \ {i}
  BY DEF HInv, HubTypes, EndForeignScan, EndScan, RemoveIterator
<1>2. /\ \A j \in 1..created : j # i => iter'[j] = iter[j]
      /\ iter' \in [1..created -> IteratorState]
      /\ IteratorsSound'
      /\ i # 0 => ~(iter'[i].reader = "active" /\ iter'[i].cancel = "live")
  <2>1. CASE i # 0 /\ iter[i].status = "Started"
    <3>1. /\ i \in 1..created /\ iter[i] \in IteratorState /\ IteratorFacts(iter[i])
          /\ iter[i].adds <= iter[i].aborts /\ iter[i].cancel # "nil"
      BY <2>1 DEF HInv, HubTypes, IteratorsSound, IteratorFacts
    <3>2. iter' = [iter EXCEPT ![i] = Closed(Counted(iter[i]))]
      BY <2>1 DEF EndForeignScan, EndScan
    <3> QED BY <3>1, <3>2, CountedIterator, <1>1 DEF HInv, HubTypes, IteratorsSound
  <2>2. CASE ~(i # 0 /\ iter[i].status = "Started")
    <3>1. iter' = iter
      BY <2>2 DEF EndForeignScan, EndScan
    <3>2. ASSUME i # 0
          PROVE  ~(iter[i].reader = "active" /\ iter[i].cancel = "live")
      <4>1. i \in 1..created /\ iter[i] \in IteratorState /\ IteratorFacts(iter[i])
        BY <3>2 DEF HInv, HubTypes, IteratorsSound
      <4>2. iter[i].status \in {"Ready", "Started", "Error", "Complete"}
        BY <4>1 DEF IteratorState
      <4>3. ~(iter[i].status = "Error" /\ iter[i].reader = "active")
        BY <1>1, <3>2 DEF HInv, HeldErrors
      <4> QED BY <2>2, <3>2, <4>1, <4>2, <4>3 DEF IteratorFacts
    <3> QED BY <1>1, <3>1, <3>2 DEF HInv, HubTypes, IteratorsSound
  <2> QED BY <2>1, <2>2
<1>3. /\ i \in 0..created
      /\ \A m \in Nodes : m # n /\ fdwState[m] # 0 => fdwState[m] # i /\ fdwState[m] \in 1..created
  BY DEF HInv, HubTypes, NodesHold
<1>4. HubTypes'
  <2>1. sess' \subseteq 1..created
    BY <1>1 DEF HInv, HubTypes
  <2>4. fdwState' \in [Nodes -> 0..created]
    <3>1. 0 \in 0..created /\ fdwState \in [Nodes -> 0..created]
      BY DEF HInv, HubTypes
    <3> QED BY <1>1, <3>1
  <2>2. phase' \in [Nodes -> {"out", "begun", "done", "explained", "ended"}]
    BY <1>1 DEF HInv, HubTypes
  <2> QED BY <1>1, <1>2, <2>1, <2>2, <2>4 DEF HInv, HubTypes
<1>5. NodesHold' /\ ExecStateResolves'
  BY <1>1, <1>3 DEF HInv, HubTypes, NodesHold, ExecStateResolves
<1>6. ReachableByAbort' /\ NoScanOutlivesAbort'
  BY <1>1, <1>2, <1>3 DEF HInv, ReachableByAbort, NoScanOutlivesAbort
<1>7. HeldErrors' /\ EndNotCounted'
  BY <1>1, <1>2, <1>3 DEF HInv, HubTypes, HeldErrors, EndNotCounted
<1>8. ListedOwned'
  <2>1. \A j \in 1..created : j # i => (Holds(j)' <=> Holds(j))
    BY <1>1 DEF HInv, HubTypes, Holds
  <2>2. i # 0 => Holds(i)
    BY DEF Holds
  <2>3. \A j \in Unstarted : j # i => j \in Unstarted'
    BY <1>1, <1>2 DEF HInv, HubTypes, Unstarted
  <2>4. \A j \in Unstarted : j \in 1..created
    BY DEF HInv, HubTypes, Unstarted
  <2> QED BY <1>1, <2>1, <2>2, <2>3, <2>4 DEF HInv, HubTypes, ListedOwned
<1> QED BY <1>2, <1>4, <1>5, <1>6, <1>7, <1>8 DEF HInv

\* The plan of a failed query is discarded.
LEMMA AbortSubtransactionKeeps == HInv /\ AbortSubtransaction => HInv'
<1> SUFFICES ASSUME HInv, AbortSubtransaction PROVE HInv'
  OBVIOUS
<1>1. /\ query = "failed" /\ query' = "none"
      /\ phase' = [n \in Nodes |-> "out"] /\ fdwState' = [n \in Nodes |-> 0]
      /\ abandoned' = abandoned \cup ({fdwState[n] : n \in Nodes} \ {0})
      /\ UNCHANGED <<sess, timestamp, created, iter, runningIterators>>
  BY DEF AbortSubtransaction, DiscardPlan
<1>2. HubTypes'
  <2>1. \A n \in Nodes : fdwState[n] \in 0..created
    BY DEF HInv, HubTypes
  <2>2. {fdwState[n] : n \in Nodes} \ {0} \subseteq 1..created
    BY <2>1 DEF HInv, HubTypes
  <2>3. fdwState' \in [Nodes -> 0..created]
    BY <1>1 DEF HInv, HubTypes
  <2>4. abandoned' \subseteq 1..created
    BY <1>1, <2>2 DEF HInv, HubTypes
  <2> QED BY <1>1, <2>3, <2>4 DEF HInv, HubTypes
<1>3. /\ IteratorsSound' /\ NodesHold' /\ ExecStateResolves' /\ ReachableByAbort'
      /\ HeldErrors' /\ EndNotCounted' /\ NoScanOutlivesAbort'
  BY <1>1 DEF HInv, IteratorsSound, NodesHold, ExecStateResolves, ReachableByAbort,
              HeldErrors, EndNotCounted, NoScanOutlivesAbort
<1>4. ListedOwned'
  BY <1>1 DEF HInv, HubTypes, ListedOwned, Holds, Unstarted
<1> QED BY <1>2, <1>3, <1>4 DEF HInv

LEMMA AbortTransactionKeeps == HInv /\ AbortTransaction => HInv'
<1> SUFFICES ASSUME HInv, AbortTransaction PROVE HInv'
  OBVIOUS
<1>1. /\ query' = "rolledBack"
      /\ phase' = [n \in Nodes |-> "out"] /\ fdwState' = [n \in Nodes |-> 0]
      /\ UNCHANGED <<sess, timestamp, created, abandoned>>
  BY DEF AbortTransaction, DiscardPlan
<1>2. \A j \in 1..created : iter[j] \in IteratorState /\ IteratorFacts(iter[j])
  BY DEF HInv, HubTypes, IteratorsSound
<1>3. \A j \in 1..created :
          /\ Aborted(iter[j]) \in IteratorState /\ IteratorFacts(Aborted(iter[j]))
          /\ Aborted(iter[j]).cancel = iter[j].cancel
          /\ Aborted(iter[j]).reader = iter[j].reader
  BY <1>2, AbortedIterator
<1>4. \A j \in 1..created : iter[j].cancel # "nil" =>
          /\ Closed(Aborted(iter[j])) \in IteratorState
          /\ IteratorFacts(Closed(Aborted(iter[j])))
          /\ Closed(Aborted(iter[j])).cancel = "cancelled"
          /\ Closed(Aborted(iter[j])).reader = iter[j].reader
  BY <1>3, ClosedIterator
<1>5. NodesHold' /\ ExecStateResolves' /\ HeldErrors' /\ EndNotCounted'
  BY <1>1 DEF NodesHold, ExecStateResolves, HeldErrors, EndNotCounted
<1>6. CASE AbortAll
  <2>1. /\ runningIterators' = {} /\ Unstarted = {}
        /\ iter' = [j \in 1..created |->
                       IF j \in runningIterators THEN Closed(Aborted(iter[j])) ELSE iter[j]]
    BY <1>6 DEF AbortAll
  <2>2. \A j \in runningIterators : iter[j].cancel # "nil"
    BY <2>1 DEF Unstarted
  <2>3. HubTypes' /\ IteratorsSound'
    BY <1>1, <1>2, <1>4, <2>1, <2>2 DEF HInv, HubTypes, IteratorsSound
  <2>4. \A j \in 1..created : iter'[j].reader = "active" => iter'[j].cancel = "cancelled"
    BY <1>2, <1>4, <2>1, <2>2
       DEF HInv, HubTypes, ReachableByAbort, IteratorFacts, IteratorState
  <2>5. ReachableByAbort' /\ NoScanOutlivesAbort' /\ ListedOwned'
    BY <1>1, <2>1, <2>4 DEF ReachableByAbort, NoScanOutlivesAbort, ListedOwned
  <2> QED BY <1>5, <2>3, <2>5 DEF HInv
<1>7. CASE AbortPanics
  <2>1. PICK bad \in Unstarted, before \in SUBSET (runningIterators \ Unstarted) :
            /\ iter' = [j \in 1..created |->
                           IF j \in before THEN Closed(Aborted(iter[j]))
                           ELSE IF j = bad THEN Aborted(iter[j]) ELSE iter[j]]
            /\ UNCHANGED runningIterators
    BY <1>7 DEF AbortPanics
  <2>2. /\ bad \in 1..created /\ bad \in runningIterators /\ iter[bad].cancel = "nil"
        /\ bad \notin before
        /\ \A j \in before : j \in 1..created /\ iter[j].cancel # "nil"
    BY <2>1 DEF HInv, HubTypes, Unstarted
  <2>3. HubTypes' /\ IteratorsSound'
    BY <1>1, <1>2, <1>3, <1>4, <2>1, <2>2 DEF HInv, HubTypes, IteratorsSound
  <2>4. bad \in Unstarted'
    BY <1>1, <1>3, <2>1, <2>2 DEF Unstarted
  <2>5. \A j \in 1..created : iter'[j].reader = "active" /\ iter'[j].cancel = "live"
                                 => iter[j].reader = "active" /\ iter[j].cancel = "live"
    BY <1>2, <1>3, <1>4, <2>1, <2>2
  <2>6. ReachableByAbort' /\ NoScanOutlivesAbort'
    BY <1>1, <2>1, <2>4, <2>5 DEF HInv, ReachableByAbort, NoScanOutlivesAbort
  <2>7. ~Holds(bad)'
    BY <1>1, <2>2 DEF Holds
  <2>8. ListedOwned'
    BY <2>4, <2>7 DEF ListedOwned
  <2> QED BY <1>5, <2>3, <2>6, <2>8 DEF HInv
<1> QED BY <1>6, <1>7 DEF AbortTransaction

-----------------------------------------------------------------------------
(* Theorems.                                                               *)

\* The bookkeeping of the hub and the nodes stays as HInv says, whatever Postgres, the
\* plugins and their failures do.
THEOREM HubInvariance == Spec => []HInv
<1>1. HInv /\ [Next]_vars => HInv'
  <2> SUFFICES ASSUME HInv, [Next]_vars PROVE HInv'
    OBVIOUS
  <2>1. CASE \/ StartQuery \/ QueryFails \/ FinishQuery \/ NewTransaction
             \/ ReadSummary \/ ReadScanMetadata
    BY <2>1, BetweenScansKeeps
  <2>2. CASE AbortSubtransaction \/ AbortTransaction
    BY <2>2, AbortSubtransactionKeeps, AbortTransactionKeeps
  <2>3. ASSUME NEW n \in Nodes,
               \/ BeginForeignScan(n) \/ ReScanForeignScan(n)
               \/ IterateStartFails(n) \/ IterateRow(n) \/ IterateEnd(n) \/ IterateError(n)
               \/ ExplainForeignScan(n) \/ EndForeignScan(n)
        PROVE  HInv'
    BY <2>3, CreateKeeps, IterateStartFailsKeeps, IterateKeeps, ExplainKeeps, EndKeeps
  <2>4. ASSUME NEW i \in 1..created, ReaderFinishes(i) PROVE HInv'
    BY <2>4, ReaderFinishesKeeps
  <2>5. CASE UNCHANGED vars
    BY <2>5 DEF vars, nodeVars, HInv, HubTypes, IteratorsSound, NodesHold,
                ExecStateResolves, ReachableByAbort, HeldErrors, ListedOwned, Holds,
                Unstarted, EndNotCounted, NoScanOutlivesAbort
  <2> QED BY <2>1, <2>2, <2>3, <2>4, <2>5 DEF Next
<1> QED BY <1>1, InitImpliesHInv, PTL DEF Spec

\* A node's fdw_state always leads to an exec state saved in exec.go.
THEOREM ExecStates == Spec => []ExecStateResolves
BY HubInvariance, PTL DEF HInv

\* The reader of a scan nobody cancelled is always listed where Abort looks.
THEOREM AbortReaches == Spec => []ReachableByAbort
BY HubInvariance, PTL DEF HInv

\* No reader goes on uncancelled after a rollback, unless the abort met an iterator
\* that never started.
THEOREM AbortStopsAll == Spec => []NoScanOutlivesAbort
BY HubInvariance, PTL DEF HInv

\* Between queries the hub lists abandoned iterators only, as long as no start failed.
THEOREM LeaksAbandoned == Spec => []LeaksOnlyWhenAbandoned
<1>1. HInv => LeaksOnlyWhenAbandoned
  <2> SUFFICES ASSUME HInv, query = "none", Unstarted = {}
               PROVE  runningIterators \subseteq abandoned
    BY DEF LeaksOnlyWhenAbandoned
  <2>1. \A i \in runningIterators : ~Holds(i)
    BY DEF HInv, HubTypes, NodesHold, Holds
  <2> QED BY <2>1 DEF HInv, ListedOwned
<1> QED BY <1>1, HubInvariance, PTL

\* The end of a scan is counted once, and once more by each abort at most.
THEOREM EndCountedOnce == Spec => []CountedOnce
<1>1. HInv => CountedOnce
  BY DEF HInv, IteratorsSound, IteratorFacts, CountedOnce
<1> QED BY <1>1, HubInvariance, PTL

-----------------------------------------------------------------------------
(* The timing store.                                                       *)

\* While an abort that stopped halfway leaves scans of this transaction listed, the store
\* holds the metadata of this transaction.
AbortKeptMetadata ==
    /\ query = "rolledBack"
    /\ runningIterators # {}
    /\ \A i \in runningIterators : iter[i].timestamp = timestamp
    => DOMAIN timing.scanMetadata = {timestamp}

\* The inductive invariant of the store, beside HInv.
TimingInv ==
    /\ created <= MaxIterators
    /\ StoreInv(timing)
    /\ DOMAIN timing.scanMetadata \subseteq Timestamps
    /\ DOMAIN timing.queryRowSummary \subseteq Timestamps
    /\ \A t, u \in DOMAIN timing.scanMetadata : t = u
    /\ AbortKeptMetadata

LEMMA InitImpliesTimingInv == Init => TimingInv
<1> SUFFICES ASSUME Init PROVE TimingInv
  OBVIOUS
<1>1. /\ query = "none" /\ created = 0 /\ timing = EmptyTiming
  BY DEF Init
<1> QED BY <1>1, EmptyStore, HubAssumption DEF TimingInv, AbortKeptMetadata

\* The iterators the hub adds to the store have rows of a transaction that was.
LEMMA IteratorRows ==
    ASSUME HInv, TimingInv
    PROVE  \A i \in 1..created : /\ iter[i].timestamp \in Timestamps
                                /\ Metadata[i] \in Seq(Nat) /\ Metadata[i] # <<>>
<1> TAKE i \in 1..created
<1>1. iter[i] \in IteratorState
  BY DEF HInv, HubTypes
<1>2. i \in 1..MaxIterators
  BY HubAssumption DEF HInv, HubTypes, TimingInv
<1> QED BY <1>1, <1>2, HubAssumption DEF IteratorState

\* Most callbacks leave the store alone.
LEMMA TimingUntouched ==
    ASSUME HInv, TimingInv,
           \/ StartQuery \/ QueryFails \/ FinishQuery \/ NewTransaction
           \/ AbortSubtransaction
           \/ \E n \in Nodes :
                 \/ BeginForeignScan(n) \/ ReScanForeignScan(n)
                 \/ IterateStartFails(n) \/ IterateRow(n) \/ IterateError(n)
                 \/ ExplainForeignScan(n)
    PROVE  TimingInv'
<1>1. timing' = timing
  BY DEF StartQuery, QueryFails, FinishQuery, NewTransaction, AbortSubtransaction,
         BeginForeignScan, ReScanForeignScan, IterateStartFails, IterateRow,
         IterateError, ExplainForeignScan
<1>2. query' # "rolledBack"
  BY DEF StartQuery, QueryFails, FinishQuery, NewTransaction, AbortSubtransaction,
         BeginForeignScan, ReScanForeignScan, IterateStartFails, IterateRow,
         IterateError, ExplainForeignScan, Iterating
<1>3. created' <= MaxIterators
  <2>1. created \in Nat /\ created <= MaxIterators
    BY DEF HInv, HubTypes, TimingInv
  <2>2. created' = created \/ (created < MaxIterators /\ created' = created + 1)
    BY DEF StartQuery, QueryFails, FinishQuery, NewTransaction, AbortSubtransaction,
           BeginForeignScan, ReScanForeignScan, IterateStartFails, IterateRow,
           IterateError, ExplainForeignScan, CreateIterator
  <2> QED BY <2>1, <2>2, HubAssumption
<1> QED BY <1>1, <1>2, <1>3 DEF TimingInv, AbortKeptMetadata

LEMMA ReaderFinishesTiming ==
    ASSUME HInv, TimingInv, NEW i \in 1..created, ReaderFinishes(i)
    PROVE  TimingInv'
<1>1. UNCHANGED <<query, timestamp, created, runningIterators, timing>>
  BY DEF ReaderFinishes
<1>2. PICK s : iter' = [iter EXCEPT ![i].reader = "over", ![i].status = s]
  BY DEF ReaderFinishes
<1>3. iter \in [1..created -> IteratorState] /\ runningIterators \subseteq 1..created
  BY DEF HInv, HubTypes
<1>4. \A j \in 1..created : iter'[j].timestamp = iter[j].timestamp
  BY <1>2, <1>3 DEF IteratorState
<1>5. AbortKeptMetadata'
  BY <1>1, <1>3, <1>4 DEF TimingInv, AbortKeptMetadata
<1> QED BY <1>1, <1>5 DEF TimingInv

\* The command tables clear what they read.
LEMMA ReadKeepsTiming ==
    ASSUME HInv, TimingInv, ReadSummary \/ ReadScanMetadata
    PROVE  TimingInv'
<1>1. created' = created /\ query' # "rolledBack"
  BY DEF ReadSummary, ReadScanMetadata
<1>2. \/ timing' = timing
      \/ timing' = ClearSummary(timing)
      \/ timing' = ClearScanMetadata(timing)
  BY DEF ReadSummary, ReadScanMetadata
<1>3. /\ StoreInv(timing')
      /\ DOMAIN timing'.scanMetadata \subseteq DOMAIN timing.scanMetadata
      /\ DOMAIN timing'.queryRowSummary \subseteq DOMAIN timing.queryRowSummary
  BY <1>2, ClearedStore DEF TimingInv
<1> QED BY <1>1, <1>3 DEF TimingInv, AbortKeptMetadata

\* The end of a scan replaces what the store held of other queries.
LEMMA CountKeepsTiming ==
    ASSUME HInv, TimingInv,
           \E n \in Nodes : IterateEnd(n) \/ EndForeignScan(n)
    PROVE  TimingInv'
<1>1. created' = created /\ query' # "rolledBack"
  BY DEF IterateEnd, EndForeignScan, Iterating
<1>2. \/ timing' = timing
      \/ \E i \in 1..created : AddScanMetadataOf(i)
  <2>1. \A n \in Nodes : fdwState[n] # 0 => fdwState[n] \in 1..created
    BY DEF HInv, HubTypes
  <2> QED BY <2>1 DEF IterateEnd, EndForeignScan, EndScan
<1>3. ASSUME NEW i \in 1..created, AddScanMetadataOf(i)
      PROVE  /\ StoreInv(timing')
             /\ DOMAIN timing'.scanMetadata = {iter[i].timestamp}
             /\ DOMAIN timing'.queryRowSummary \subseteq Timestamps
             /\ iter[i].timestamp \in Timestamps
  BY <1>3, IteratorRows, AddedScan DEF AddScanMetadataOf, TimingInv
<1>4. /\ StoreInv(timing')
      /\ DOMAIN timing'.scanMetadata \subseteq Timestamps
      /\ DOMAIN timing'.queryRowSummary \subseteq Timestamps
      /\ \A t, u \in DOMAIN timing'.scanMetadata : t = u
  BY <1>2, <1>3 DEF TimingInv
<1> QED BY <1>1, <1>4 DEF TimingInv, AbortKeptMetadata

\* The loop of an abort over the iterators it meets is a function of the turn.
LEMMA LoopOverScans ==
    ASSUME NEW order, Len(order) \in Nat
    PROVE  \E after :
               /\ after = [k \in 0..Len(order) |->
                              IF k = 0 THEN timing
                              ELSE AddScan(after[k - 1], iter[order[k]].timestamp,
                                           Metadata[order[k]])]
               /\ AddScansInOrder(order) = after[Len(order)]
<1> DEFINE IsLoop(g, n) ==
               g = [k \in 0..n |->
                       IF k = 0 THEN timing
                       ELSE AddScan(g[k - 1], iter[order[k]].timestamp,
                                    Metadata[order[k]])]
           Wrong == {n \in Nat : ~ \E g : IsLoop(g, n)}
<1>1. Wrong = {}
  <2> SUFFICES ASSUME Wrong # {}
               PROVE  FALSE
    OBVIOUS
  <2>1. PICK m \in Wrong : \A n \in Wrong : m <= n
    <3>1. Wrong \subseteq Nat
      OBVIOUS
    <3> HIDE DEF Wrong
    <3> QED BY <3>1, LeastNumber
  <2>2. m \in Nat /\ ~ \E g : IsLoop(g, m)
    OBVIOUS
  <2>3. m # 0
    <3> DEFINE g == [k \in 0..0 |-> timing]
    <3>1. \A k \in 0..0 : k = 0
      OBVIOUS
    <3>2. IsLoop(g, 0)
      BY <3>1
    <3> QED BY <3>2, <2>2
  <2>4. PICK g : IsLoop(g, m - 1)
    <3>1. m - 1 \in Nat /\ ~(m <= m - 1)
      BY <2>2, <2>3
    <3>2. m - 1 \notin Wrong
      BY <3>1, <2>1
    <3> QED BY <3>1, <3>2
  <2> DEFINE last == AddScan(g[m - 1], iter[order[m]].timestamp, Metadata[order[m]])
             h == [k \in 0..m |-> IF k = m THEN last ELSE g[k]]
  <2>5. IsLoop(h, m)
    <3>1. h = [k \in 0..m |-> h[k]]
      OBVIOUS
    <3>2. \A k \in 0..m :
              h[k] = IF k = 0 THEN timing
                     ELSE AddScan(h[k - 1], iter[order[k]].timestamp,
                                  Metadata[order[k]])
      <4> TAKE k \in 0..m
      <4>1. CASE k = m
        <5>1. h[m - 1] = g[m - 1] /\ h[k] = last
          BY <4>1, <2>2, <2>3
        <5> QED BY <5>1, <4>1, <2>3
      <4>2. CASE k # m
        <5>1. k \in 0..(m - 1) /\ h[k] = g[k] /\ (k # 0 => h[k - 1] = g[k - 1])
          BY <4>2, <2>2
        <5>2. g[k] = IF k = 0 THEN timing
                     ELSE AddScan(g[k - 1], iter[order[k]].timestamp,
                                  Metadata[order[k]])
          BY <5>1, <2>4
        <5> QED BY <5>1, <5>2
      <4> QED BY <4>1, <4>2
    <3> HIDE DEF h
    <3> QED BY <3>1, <3>2
  <2> QED BY <2>2, <2>5
<1>2. \E g : IsLoop(g, Len(order))
  BY <1>1
<1> DEFINE after == CHOOSE g : IsLoop(g, Len(order))
<1>3. IsLoop(after, Len(order))
  <2> HIDE DEF IsLoop
  <2> QED BY <1>2
<1>4. AddScansInOrder(order) = after[Len(order)]
  BY DEF AddScansInOrder
<1> HIDE DEF after
<1> QED BY <1>3, <1>4

\* The elements of a sequence, and of one it is part of.
LEMMA Elements ==
    ASSUME NEW S, NEW T, S \subseteq T, NEW s \in Seq(S)
    PROVE  /\ s \in Seq(T) /\ Len(s) \in Nat
           /\ \A k \in 1..Len(s) : s[k] \in S
OBVIOUS

\* After an abort's loop the store holds the rows of the last iterator it met.
LEMMA AddedScans ==
    ASSUME HInv, TimingInv, NEW order \in Seq(1..created)
    PROVE  LET added == AddScansInOrder(order)
           IN  /\ StoreInv(added)
               /\ DOMAIN added.queryRowSummary \subseteq Timestamps
               /\ order = <<>> => added = timing
               /\ order # <<>> => /\ DOMAIN added.scanMetadata
                                         = {iter[order[Len(order)]].timestamp}
                                  /\ order[Len(order)] \in 1..created
<1>1. Len(order) \in Nat /\ \A k \in 1..Len(order) : order[k] \in 1..created
  BY Elements
<1>2. PICK after :
          /\ after = [k \in 0..Len(order) |->
                         IF k = 0 THEN timing
                         ELSE AddScan(after[k - 1], iter[order[k]].timestamp,
                                      Metadata[order[k]])]
          /\ AddScansInOrder(order) = after[Len(order)]
  BY <1>1, LoopOverScans
<1>3. after[0] = timing
  BY <1>1, <1>2
<1>4. \A k \in 1..Len(order) :
          after[k] = AddScan(after[k - 1], iter[order[k]].timestamp, Metadata[order[k]])
  <2> TAKE k \in 1..Len(order)
  <2>1. k \in 0..Len(order) /\ k # 0
    BY <1>1
  <2> QED BY <2>1, <1>2
<1> DEFINE Right(k) ==
               /\ StoreInv(after[k])
               /\ DOMAIN after[k].queryRowSummary \subseteq Timestamps
               /\ k # 0 => DOMAIN after[k].scanMetadata = {iter[order[k]].timestamp}
           Wrong == {k \in 0..Len(order) : ~Right(k)}
<1>5. Wrong = {}
  <2> SUFFICES ASSUME Wrong # {}
               PROVE  FALSE
    OBVIOUS
  <2>1. PICK m \in Wrong : \A k \in Wrong : m <= k
    <3>1. Wrong \subseteq Nat
      OBVIOUS
    <3> HIDE DEF Wrong
    <3> QED BY <3>1, LeastNumber
  <2>2. m \in 0..Len(order) /\ ~Right(m)
    OBVIOUS
  <2>3. Right(0)
    BY <1>3 DEF TimingInv
  <2> HIDE DEF Right
  <2>4. m \in 1..Len(order) /\ m - 1 \in 0..Len(order) /\ ~(m <= m - 1)
    BY <2>2, <2>3, <1>1
  <2>5. Right(m - 1)
    BY <2>1, <2>4
  <2>6. /\ iter[order[m]].timestamp \in Timestamps
        /\ Metadata[order[m]] \in Seq(Nat) /\ Metadata[order[m]] # <<>>
        /\ after[m] = AddScan(after[m - 1], iter[order[m]].timestamp, Metadata[order[m]])
    BY <2>4, <1>1, <1>4, IteratorRows
  <2>7. StoreInv(after[m - 1]) /\ DOMAIN after[m - 1].queryRowSummary \subseteq Timestamps
    BY <2>5 DEF Right
  <2>8. /\ StoreInv(after[m])
        /\ DOMAIN after[m].queryRowSummary
               \subseteq DOMAIN after[m - 1].queryRowSummary \cup {iter[order[m]].timestamp}
        /\ DOMAIN after[m].scanMetadata = {iter[order[m]].timestamp}
    BY <2>6, <2>7, AddedScan
  <2>9. Right(m)
    BY <2>6, <2>7, <2>8 DEF Right
  <2> QED BY <2>2, <2>9
<1>6. Right(Len(order))
  BY <1>1, <1>5
<1>7. order = <<>> <=> Len(order) = 0
  OBVIOUS
<1>8. Len(order) # 0 => Len(order) \in 1..Len(order)
  BY <1>1
<1> QED BY <1>1, <1>2, <1>3, <1>6, <1>7, <1>8

\* The order in which an abort met the iterators: some of the listed ones, and one at
\* least if there are any.
LEMMA AbortOrder ==
    ASSUME HInv, TimingInv, AbortTransaction
    PROVE  \E order \in Seq(1..created) :
               /\ timing' = AddScansInOrder(order)
               /\ \A k \in 1..Len(order) : order[k] \in runningIterators
               /\ runningIterators # {} => order # <<>>
<1>1. /\ created \in Nat /\ runningIterators \subseteq 1..created
      /\ IsFiniteSet(1..created)
  <2>1. created \in Nat /\ runningIterators \subseteq 1..created
    BY DEF HInv, HubTypes
  <2> QED BY <2>1, FS_Interval
<1>2. ASSUME NEW some \in SUBSET runningIterators, NEW order \in SetToSeqs(some)
      PROVE  /\ order \in Seq(some) /\ Len(order) = Cardinality(some)
             /\ order = <<>> => some = {}
  <2>1. IsFiniteSet(some)
    BY <1>1, FS_Subset
  <2>2. Cardinality(some) \in Nat /\ (Cardinality(some) = 0 => some = {})
    BY <2>1, FS_CardinalityType, FS_EmptySet
  <2>3. order \in [1..Cardinality(some) -> some]
    BY DEF SetToSeqs
  <2>4. order \in Seq(some) /\ Len(order) = Cardinality(some)
    BY <2>2, <2>3
  <2>5. Len(<<>>) = 0
    OBVIOUS
  <2> QED BY <2>2, <2>4, <2>5
<1>3. CASE AbortAll
  <2>1. PICK order \in SetToSeqs(runningIterators) : timing' = AddScansInOrder(order)
    BY <1>3 DEF AbortAll
  <2>2. order \in Seq(runningIterators) /\ (order = <<>> => runningIterators = {})
    BY <1>2
  <2>3. /\ order \in Seq(1..created)
        /\ \A k \in 1..Len(order) : order[k] \in runningIterators
    BY <2>2, <1>1, Elements
  <2> QED BY <2>1, <2>2, <2>3
<1>4. CASE AbortPanics
  <2>1. PICK bad \in Unstarted, before \in SUBSET (runningIterators \ Unstarted) :
            \E order \in SetToSeqs(before) :
                timing' = AddScansInOrder(Append(order, bad))
    BY <1>4 DEF AbortPanics
  <2>2. PICK order \in SetToSeqs(before) : timing' = AddScansInOrder(Append(order, bad))
    BY <2>1
  <2>3. bad \in runningIterators /\ before \subseteq runningIterators
    BY <2>1 DEF Unstarted
  <2>4. order \in Seq(runningIterators)
    <3>1. order \in Seq(before)
      BY <2>3, <1>2
    <3> QED BY <3>1, <2>3
  <2>5. /\ Append(order, bad) \in Seq(runningIterators)
        /\ Append(order, bad) # <<>>
    BY <2>3, <2>4
  <2> DEFINE met == Append(order, bad)
  <2>6. met \in Seq(runningIterators) /\ met # <<>> /\ timing' = AddScansInOrder(met)
    BY <2>2, <2>5
  <2> HIDE DEF met
  <2>7. /\ met \in Seq(1..created)
        /\ \A k \in 1..Len(met) : met[k] \in runningIterators
    BY <2>6, <1>1, Elements
  <2> QED BY <2>6, <2>7
<1> QED BY <1>3, <1>4 DEF AbortTransaction

\* An abort leaves the metadata of one transaction, and of the one rolled back if all
\* it met were of that one.
LEMMA AbortKeepsTiming ==
    ASSUME HInv, TimingInv, AbortTransaction
    PROVE  /\ TimingInv'
           /\ runningIterators # {}
              /\ (\A i \in runningIterators : iter[i].timestamp = timestamp)
              => DOMAIN timing'.scanMetadata = {timestamp}
<1>1. PICK order \in Seq(1..created) :
          /\ timing' = AddScansInOrder(order)
          /\ \A k \in 1..Len(order) : order[k] \in runningIterators
          /\ runningIterators # {} => order # <<>>
  BY AbortOrder
<1>2. /\ StoreInv(timing')
      /\ DOMAIN timing'.queryRowSummary \subseteq Timestamps
      /\ order = <<>> => timing' = timing
      /\ order # <<>> => /\ DOMAIN timing'.scanMetadata
                                = {iter[order[Len(order)]].timestamp}
                         /\ order[Len(order)] \in 1..created
  BY <1>1, AddedScans
<1>3. /\ DOMAIN timing'.scanMetadata \subseteq Timestamps
      /\ \A t, u \in DOMAIN timing'.scanMetadata : t = u
  BY <1>2, IteratorRows DEF TimingInv
<1>4. runningIterators # {}
          /\ (\A i \in runningIterators : iter[i].timestamp = timestamp)
          => DOMAIN timing'.scanMetadata = {timestamp}
  <2>1. order # <<>> => Len(order) \in 1..Len(order)
    OBVIOUS
  <2> QED BY <2>1, <1>1, <1>2
<1>5. created' = created /\ timestamp' = timestamp
  BY DEF AbortTransaction
<1>6. AbortKeptMetadata'
  <2>1. CASE AbortAll
    BY <2>1 DEF AbortAll, AbortKeptMetadata
  <2>2. CASE AbortPanics
    <3>1. runningIterators' = runningIterators
      BY <2>2 DEF AbortPanics
    <3>2. \A i \in 1..created : iter'[i].timestamp = iter[i].timestamp
      <4>1. PICK bad \in Unstarted, before \in SUBSET (runningIterators \ Unstarted) :
                iter' = [j \in 1..created |->
                            IF j \in before THEN Closed(Aborted(iter[j]))
                            ELSE IF j = bad THEN Aborted(iter[j]) ELSE iter[j]]
        BY <2>2 DEF AbortPanics
      <4>2. \A j \in 1..created : iter[j] \in IteratorState
        BY DEF HInv, HubTypes
      <4>3. \A j \in 1..created :
                /\ Aborted(iter[j]).timestamp = iter[j].timestamp
                /\ Closed(Aborted(iter[j])).timestamp = iter[j].timestamp
        BY <4>2 DEF Aborted, Counted, Closed, IteratorState
      <4> QED BY <4>1, <4>3
    <3>3. runningIterators \subseteq 1..created
      BY DEF HInv, HubTypes
    <3> QED BY <3>1, <3>2, <3>3, <1>4, <1>5 DEF AbortKeptMetadata
  <2> QED BY <2>1, <2>2 DEF AbortTransaction
<1> QED BY <1>2, <1>3, <1>4, <1>5, <1>6 DEF TimingInv

LEMMA NextKeepsTiming == HInv /\ TimingInv /\ [Next]_vars => TimingInv'
<1> SUFFICES ASSUME HInv, TimingInv, [Next]_vars PROVE TimingInv'
  OBVIOUS
<1>1. CASE ReadSummary \/ ReadScanMetadata
  BY <1>1, ReadKeepsTiming
<1>2. CASE AbortTransaction
  BY <1>2, AbortKeepsTiming
<1>3. CASE \E n \in Nodes : IterateEnd(n) \/ EndForeignScan(n)
  BY <1>3, CountKeepsTiming
<1>4. CASE \E i \in 1..created : ReaderFinishes(i)
  BY <1>4, ReaderFinishesTiming
<1>5. CASE UNCHANGED vars
  BY <1>5 DEF vars, nodeVars, TimingInv, AbortKeptMetadata
<1> QED BY <1>1, <1>2, <1>3, <1>4, <1>5, TimingUntouched DEF Next

-----------------------------------------------------------------------------
(* Theorems of the timing store.                                           *)

\* The store stays as TimingInv says, whatever scans end and whatever aborts meet.
THEOREM TimingInvariance == Spec => []TimingInv
BY InitImpliesTimingInv, NextKeepsTiming, HubInvariance, PTL DEF Spec

\* The state of the hub has its types, and no list of the store outgrows its buffer.
THEOREM TypeCorrect == Spec => []TypeOK
<1>1. HInv /\ TimingInv => TypeOK
  <2> SUFFICES ASSUME HInv, TimingInv
               PROVE  TypeOK
    OBVIOUS
  <2>1. \A t \in DOMAIN timing.scanMetadata : Len(timing.scanMetadata[t]) <= MaxMetadata
    <3> TAKE t \in DOMAIN timing.scanMetadata
    <3>1. Sorted(timing.offered[t]) /\ timing.scanMetadata[t] = Slowest(timing.offered[t])
      BY DEF TimingInv, StoreInv
    <3>2. Len(timing.offered[t]) \in Nat
      BY <3>1 DEF Sorted
    <3> QED BY <3>1, <3>2, SlowestRows, TimingAssumption
  <2>2. created \in 0..MaxIterators
    BY HubAssumption DEF HInv, HubTypes, TimingInv
  <2> QED BY <2>1, <2>2 DEF HInv, HubTypes, TimingInv, TypeOK
<1> QED BY <1>1, HubInvariance, TimingInvariance, PTL

\* The scan_metadata table never fails to be read: it holds one query's scans.
THEOREM OneQueryReadable == Spec => []ScansOfOneQuery
<1>1. TimingInv => ScansOfOneQuery
  <2> SUFFICES ASSUME TimingInv
               PROVE  Cardinality(DOMAIN timing.scanMetadata) <= 1
    BY DEF ScansOfOneQuery, Readable
  <2> DEFINE D == DOMAIN timing.scanMetadata
  <2>1. \A t, u \in D : t = u
    BY DEF TimingInv
  <2>2. D = {} \/ \E t : D = {t}
    BY <2>1
  <2>3. Cardinality(D) = 0 \/ Cardinality(D) = 1
    BY <2>2, FS_EmptySet, FS_Singleton
  <2> QED BY <2>3
<1> QED BY <1>1, TimingInvariance, PTL

\* However scans end, rescan and abort, the list of a query is the slowest MaxMetadata
\* of all the rows added for it, slowest first.
THEOREM SlowestAreKept == Spec => []KeepsSlowest
<1>1. TimingInv => KeepsSlowest
  <2> SUFFICES ASSUME TimingInv, NEW t \in DOMAIN timing.scanMetadata
               PROVE  timing.scanMetadata[t] = Slowest(SlowestFirst(timing.offered[t]))
    BY DEF KeepsSlowest, Slowest
  <2>1. Sorted(timing.offered[t]) /\ timing.scanMetadata[t] = Slowest(timing.offered[t])
    BY DEF TimingInv, StoreInv
  <2> QED BY <2>1, SortedIsFixed
<1> QED BY <1>1, TimingInvariance, PTL

\* An abort leaves the metadata of the transaction it rolls back, if all the scans it
\* finds listed are of that transaction.
THEOREM AbortMetadata == Spec => AbortKeepsItsMetadata
<1> DEFINE Kept == /\ query' = "rolledBack"
                   /\ runningIterators # {}
                   /\ \A i \in runningIterators : iter[i].timestamp = timestamp
                   => DOMAIN timing'.scanMetadata = {timestamp}
<1>1. HInv /\ TimingInv /\ [Next]_vars => [Kept]_vars
  <2> SUFFICES ASSUME HInv, TimingInv, Next PROVE Kept
    OBVIOUS
  <2>1. CASE AbortTransaction
    BY <2>1, AbortKeepsTiming
  <2>2. CASE ~AbortTransaction
    <3>1. \/ query' # "rolledBack"
          \/ query = "rolledBack" /\ timing' = timing
      BY <2>2 DEF Next, StartQuery, QueryFails, FinishQuery, NewTransaction,
                  AbortSubtransaction, ReadSummary, ReadScanMetadata, BeginForeignScan,
                  ReScanForeignScan, IterateStartFails, IterateRow, IterateEnd,
                  IterateError, ExplainForeignScan, EndForeignScan, Iterating,
                  ReaderFinishes
    <3> QED BY <3>1 DEF TimingInv, AbortKeptMetadata
  <2> QED BY <2>1, <2>2
<1>2. [][Kept]_vars => AbortKeepsItsMetadata
  BY PTL DEF AbortKeepsItsMetadata
<1> QED BY <1>1, <1>2, HubInvariance, TimingInvariance, PTL DEF Spec

=============================================================================
