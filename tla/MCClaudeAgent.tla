---------------------------- MODULE MCClaudeAgent ----------------------------
(* The small instance of ClaudeAgent that TLC explores.                    *)
EXTENDS ClaudeAgent, TLC

\* Messages are interchangeable.
Symmetry == Permutations(Msgs)
=============================================================================
