-------------------------- MODULE MCProcessManager --------------------------
(* The small instance of ProcessManager that TLC explores; without         *)
(* symmetry, which the temporal property forbids.                          *)
EXTENDS ProcessManager
=============================================================================
