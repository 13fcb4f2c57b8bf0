----------------------------- MODULE MCWebView -----------------------------
(* Sessions and turns are interchangeable.                                 *)
EXTENDS WebView, TLC

Symmetry == Permutations(Sessions) \cup Permutations(Turns)
=============================================================================
