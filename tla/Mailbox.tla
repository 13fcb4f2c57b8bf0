------------------------------ MODULE Mailbox ------------------------------
(***************************************************************************)
(* What a relay promises to a PC and its clients, whatever handlers and    *)
(* tables it has: it invents nothing and delivers nothing twice; the PC    *)
(* hears of each client in order, over whichever of its connections, and   *)
(* without a gap on one that it has alone; a client gets replies in order  *)
(* as long as the PC never had two connections at once.  What is not       *)
(* delivered is lost.                                                      *)
(***************************************************************************)
EXTENDS Naturals, SequencesExt

CONSTANTS Links, Clients,
          Goodbye \* the number of a client's last envelope; 0 is its first

VARIABLES
  wire,    \* connection -> "new", "open" or "gone"
  sent,    \* client -> messages it sent
  replied, \* client -> messages the PC sent it
  heard,   \* link -> envelopes the PC received
  got,     \* client -> messages it received
  split    \* links that were at work together with another one

vars == <<wire, sent, replied, heard, got, split>>

Init ==
  /\ wire = [x \in Links \cup Clients |-> "new"]
  /\ sent = [c \in Clients |-> 0] /\ replied = [c \in Clients |-> 0]
  /\ heard = [l \in Links |-> <<>>] /\ got = [c \in Clients |-> <<>>]
  /\ split = {}

Connect(x) ==
  /\ wire[x] = "new" /\ wire' = [wire EXCEPT ![x] = "open"]
  /\ UNCHANGED <<sent, replied, heard, got, split>>

Close(x) ==
  /\ wire' = [wire EXCEPT ![x] = "gone"]
  /\ UNCHANGED <<sent, replied, heard, got, split>>

\* Some links turn out to be at work together.
Split ==
  /\ split \subseteq split' /\ split' \subseteq Links
  /\ UNCHANGED <<wire, sent, replied, heard, got>>

Say(c) ==
  /\ wire[c] = "open" /\ sent[c] + 1 < Goodbye
  /\ sent' = [sent EXCEPT ![c] = @ + 1]
  /\ UNCHANGED <<wire, replied, heard, got, split>>

KindsOn(l, c) == {heard[l][i].kind : i \in {j \in DOMAIN heard[l] : heard[l][j].of = c}}

\* The PC replies to a client it has heard of.
Reply(c) ==
  /\ \E l \in Links : wire[l] = "open"
  /\ \E l \in Links : KindsOn(l, c) # {}
  /\ replied' = [replied EXCEPT ![c] = @ + 1]
  /\ UNCHANGED <<wire, sent, heard, got, split>>

\* The PC receives the envelope k of a client.
Hear(l, c, k) ==
  /\ wire[l] = "open"
  /\ k = Goodbye => wire[c] = "gone"
  /\ \A h \in Links : \A n \in KindsOn(h, c) : n < k
  /\ l \notin split /\ k # Goodbye /\ KindsOn(l, c) # {} => k - 1 \in KindsOn(l, c)
  /\ heard' = [heard EXCEPT ![l] = Append(@, [of |-> c, kind |-> k])]
  /\ UNCHANGED <<wire, sent, replied, got, split>>

\* A client receives the PC's message k.
Get(c, k) ==
  /\ wire[c] = "open"
  /\ k \notin Range(got[c])
  /\ split = {} => \A n \in Range(got[c]) : n < k
  /\ got' = [got EXCEPT ![c] = Append(@, k)]
  /\ UNCHANGED <<wire, sent, replied, heard, split>>

Next ==
  \/ \E x \in Links \cup Clients : Connect(x) \/ Close(x)
  \/ Split
  \/ \E c \in Clients :
       \/ Say(c) \/ Reply(c)
       \/ \E k \in 1 .. replied[c] : Get(c, k)
       \/ \E l \in Links : \E k \in 0 .. sent[c] \cup {Goodbye} : Hear(l, c, k)

Spec == Init /\ [][Next]_vars
=============================================================================
