--------------------------- MODULE MCScanIterator ---------------------------
(* ScanIterator for TLC.                                                   *)
EXTENDS ScanIterator, TLC

ConnectionSymmetry == Permutations(Connections)

=============================================================================
