--------------------------- MODULE MCSessionStore ---------------------------
(* The small instance of SessionStore that TLC explores.                   *)
EXTENDS SessionStore, TLC

\* Writers, messages and backing arrays are interchangeable.
Symmetry == Permutations(Writers) \cup Permutations(Msgs) \cup Permutations(Arrays)
=============================================================================
