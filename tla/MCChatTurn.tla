----------------------------- MODULE MCChatTurn -----------------------------
(* The small instance of ChatTurn that TLC explores.                       *)
EXTENDS ChatTurn, TLC

Symmetry == Permutations(Conns) \cup Permutations(Sessions) \cup Permutations(Turns)
=============================================================================
