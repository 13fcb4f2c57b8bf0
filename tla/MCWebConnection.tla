-------------------------- MODULE MCWebConnection --------------------------
(* The small instance of WebConnection that TLC explores.                  *)
EXTENDS WebConnection
=============================================================================
