---------------------------- MODULE MCRelayServer ----------------------------
(* The connections of one side differ in nothing but their names.          *)
EXTENDS RelayServer, TLC

Symmetry == Permutations(Links) \cup Permutations(Clients)
=============================================================================
