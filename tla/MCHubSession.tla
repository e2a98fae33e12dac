---------------------------- MODULE MCHubSession ----------------------------
(* HubSession for TLC. *)
EXTENDS HubSession, TLC

MCTtls == {0, 1}
SessionSymmetry == Permutations(Connections)
=============================================================================
