------------------------ MODULE MCConnectionFactory ------------------------
(* ConnectionFactory for TLC.                                              *)
EXTENDS ConnectionFactory, TLC

FactorySymmetry == Permutations(Connections) \cup Permutations(Plugins)

=============================================================================
