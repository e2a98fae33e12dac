----------------------------- MODULE MCHubScans -----------------------------
(* HubScans for TLC.                                                       *)
EXTENDS HubScans

\* One scan of an aggregator over two connections, and two of single connections.
MCMetadata == << <<2, 1>>, <<3>>, <<2>> >>

\* SlowestFirst is the sort of the TLC module.
ASSUME SlowestFirstSorts ==
    \A n \in 0..4 : \A list \in [1..n -> 0..3] : SlowestFirst(list) = SortSeq(list, >)

NodeSymmetry == Permutations(Nodes)

=============================================================================
