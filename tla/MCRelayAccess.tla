--------------------------- MODULE MCRelayAccess ---------------------------
(* PCs and subdomains are interchangeable.                                 *)
EXTENDS RelayAccess, TLC

Symmetry == Permutations(PCs) \cup Permutations(Names)
=============================================================================
