----------------------------- MODULE DurableLog -----------------------------
(***************************************************************************)
(* What a session store promises of its histories, whatever files and      *)
(* slices it keeps them in: a history grows by one message at a time, a    *)
(* message that was acknowledged stays, and a crash costs a session at     *)
(* most what was not acknowledged.  A history can be lost, but not in      *)
(* silence: it belongs to the lost ones from then on.                      *)
(***************************************************************************)
EXTENDS Naturals, SequencesExt

CONSTANTS Sessions, Msgs

VARIABLES
  history, \* session -> its messages, as a reader or a restart finds them
  stable,  \* session -> how many of them are acknowledged
  lost     \* the sessions of which nothing is promised any more

vars == <<history, stable, lost>>

Init ==
  /\ history = [s \in Sessions |-> <<>>]
  /\ stable = [s \in Sessions |-> 0]
  /\ lost = {}

\* A message comes to the end of a history.
Add(s) ==
  /\ s \notin lost
  /\ \E m \in Msgs : history' = [history EXCEPT ![s] = Append(@, m)]
  /\ UNCHANGED <<stable, lost>>

\* All of a history is acknowledged.
Acknowledge(s) ==
  /\ s \notin lost
  /\ stable' = [stable EXCEPT ![s] = Len(history[s])]
  /\ UNCHANGED <<history, lost>>

Lose(s) ==
  /\ lost' = lost \cup {s}
  /\ history' = [history EXCEPT ![s] = <<>>]
  /\ stable' = [stable EXCEPT ![s] = 0]

\* Messages that were not acknowledged may be gone, and some histories are
\* lost; what is left is stable.
Crash ==
  /\ history' \in [Sessions -> Seq(Msgs)]
  /\ lost \subseteq lost' /\ lost' \subseteq Sessions
  /\ \A s \in Sessions :
       IF s \in lost' THEN history'[s] = <<>>
       ELSE IsPrefix(history'[s], history[s]) /\ stable[s] <= Len(history'[s])
  /\ stable' = [s \in Sessions |-> Len(history'[s])]

Next == (\E s \in Sessions : Add(s) \/ Acknowledge(s) \/ Lose(s)) \/ Crash

Spec == Init /\ [][Next]_vars
=============================================================================
