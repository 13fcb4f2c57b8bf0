----------------------------- MODULE RelayServer -----------------------------
(***************************************************************************)
(* The relay server (relay/ws, relay/store) for one registered subdomain:  *)
(* the handlers of the PC's successive WebSocket connections, the handlers *)
(* of the mobile clients' connections, and what they share: the            *)
(* RelayConnection (its Conn and its Clients) and the multiplexer map.     *)
(*                                                                         *)
(* The PC has one connection at a time, but it may dial again before the   *)
(* relay has noticed that the last one is gone.  Every multiplexer of the  *)
(* subdomain holds the same RelayConnection, so a client goes on with the  *)
(* one it got.  A write to a connection that is gone is lost.              *)
(***************************************************************************)
EXTENDS Naturals, SequencesExt

CONSTANTS Links,     \* the PC's connections, in any order, each used once
          Clients,   \* client connections, named by their connection_id
          None,
          MaxMsgs,   \* bound: messages a client sends
          MaxReplies \* bound: messages the PC sends to a client

ASSUME NoneIsFresh == None \notin Links \cup Clients
ASSUME EndsDiffer  == Links \cap Clients = {}
ASSUME BoundsOK    == MaxMsgs \in Nat /\ MaxReplies \in Nat

VARIABLES
  conn,       \* RelayConnection.Conn
  clients,    \* RelayConnection.Clients
  mux,        \* the multiplexer map's entry: the handler that stored it
  relay,      \* PC connection -> where its handler is
  handler,    \* client connection -> where its handler is, the envelope it
              \* forwards, and the Conn it saw
  wire,       \* connection -> "new", "open" or "gone"
  up,         \* client connection -> messages its handler has not read
  down,       \* PC connection -> envelopes its handler has not read
  toPC,       \* PC connection -> envelopes the PC received
  inbox,      \* client connection -> messages the client received
  sent,       \* client connection -> messages it sent
  replied,    \* client connection -> messages the PC sent it
  overlapped  \* history: PC connections whose handlers were at work together

sharedVars == <<conn, clients, mux>>
pcVars     == <<down, toPC>>
clientVars == <<up, inbox>>
countVars  == <<sent, replied>>
vars == <<sharedVars, relay, handler, wire, pcVars, clientVars, countVars, overlapped>>

Envelope(c, k) == [of |-> c, kind |-> k]

\* A client's envelopes carry the order it sent them in: 0 for "connected",
\* then its messages, and MaxMsgs + 1 for "disconnected".
Connected    == 0
Disconnected == MaxMsgs + 1

Init ==
  /\ conn = None /\ mux = None /\ clients = {}
  /\ relay = [l \in Links |-> "new"]
  /\ handler = [c \in Clients |-> [pc |-> "new", env |-> Connected, seen |-> None]]
  /\ wire = [x \in Links \cup Clients |-> "new"]
  /\ up = [c \in Clients |-> <<>>] /\ inbox = [c \in Clients |-> <<>>]
  /\ down = [l \in Links |-> <<>>] /\ toPC = [l \in Links |-> <<>>]
  /\ sent = [c \in Clients |-> 0] /\ replied = [c \in Clients |-> 0]
  /\ overlapped = {}

-----------------------------------------------------------------------------
(* RelayHandler.ServeHTTP.                                                 *)

Step(l, from, to) == relay[l] = from /\ relay' = [relay EXCEPT ![l] = to]

\* Handlers between the response to the PC and the deferred Delete.
Authenticated == {l \in Links : relay[l] \in {"known", "set", "loop", "clear", "delete"}}

\* The PC dials once its last connection is over for it.
Dial(l) ==
  /\ Step(l, "new", "auth")
  /\ \A k \in Links : wire[k] # "open"
  /\ wire' = [wire EXCEPT ![l] = "open"]
  /\ UNCHANGED <<sharedVars, handler, pcVars, clientVars, countVars, overlapped>>

\* The token fits and the response says so, or the connection fails first.
Authenticate(l) ==
  /\ \/ /\ Step(l, "auth", "known")
        /\ overlapped' = overlapped \cup IF Authenticated = {} THEN {} ELSE Authenticated \cup {l}
     \/ /\ wire[l] = "gone" /\ Step(l, "auth", "done")
        /\ UNCHANGED overlapped
  /\ UNCHANGED <<sharedVars, handler, wire, pcVars, clientVars, countVars>>

\* Variant: the call is forgotten.
SetConnForgotten(l) ==
  /\ Step(l, "known", "set")
  /\ UNCHANGED <<sharedVars, handler, wire, pcVars, clientVars, countVars, overlapped>>

SetConn(l) ==
  /\ Step(l, "known", "set")
  /\ conn' = l
  /\ UNCHANGED <<clients, mux, handler, wire, pcVars, clientVars, countVars, overlapped>>

StoreMux(l) ==
  /\ Step(l, "set", "loop")
  /\ mux' = l
  /\ UNCHANGED <<conn, clients, handler, wire, pcVars, clientVars, countVars, overlapped>>

\* Variant: each envelope is handled in a goroutine of its own.
RouteInAnyOrder(l) ==
  /\ relay[l] = "loop"
  /\ \E i \in DOMAIN down[l] :
       LET c == down[l][i].of IN
         /\ down' = [down EXCEPT ![l] = RemoveAt(@, i)]
         /\ inbox' = IF c \in clients /\ wire[c] = "open"
                       THEN [inbox EXCEPT ![c] = Append(@, down[l][i].kind)] ELSE inbox
  /\ UNCHANGED <<sharedVars, relay, handler, wire, up, toPC, countVars, overlapped>>

\* HandleRelayMessage: the client's entry is looked up, and its connection
\* written to; without an entry the message is dropped.
Route(l) ==
  /\ relay[l] = "loop" /\ down[l] # <<>>
  /\ LET e == Head(down[l]) IN
       inbox' = IF e.of \in clients /\ wire[e.of] = "open"
                  THEN [inbox EXCEPT ![e.of] = Append(@, e.kind)] ELSE inbox
  /\ down' = [down EXCEPT ![l] = Tail(@)]
  /\ UNCHANGED <<sharedVars, relay, handler, wire, up, toPC, countVars, overlapped>>

\* Variant: the handler returns without clearing Conn.
ReadFailsUncleared(l) ==
  /\ wire[l] = "gone"
  /\ Step(l, "loop", "delete")
  /\ UNCHANGED <<sharedVars, handler, wire, pcVars, clientVars, countVars, overlapped>>

\* Read fails, at once or after what was in the socket's buffer.
ReadFails(l) ==
  /\ wire[l] = "gone"
  /\ Step(l, "loop", "clear")
  /\ UNCHANGED <<sharedVars, handler, wire, pcVars, clientVars, countVars, overlapped>>

\* SetRelayConn(subdomain, nil), whoever's connection is set.
ClearConn(l) ==
  /\ Step(l, "clear", "delete")
  /\ conn' = None
  /\ UNCHANGED <<clients, mux, handler, wire, pcVars, clientVars, countVars, overlapped>>

\* The deferred Delete(subdomain), whoever's multiplexer is stored.
DeleteMux(l) ==
  /\ Step(l, "delete", "done")
  /\ mux' = None
  /\ UNCHANGED <<conn, clients, handler, wire, pcVars, clientVars, countVars, overlapped>>

-----------------------------------------------------------------------------
(* ClientHandler.ServeHTTP.                                                *)

At(c, label) == handler[c].pc = label
Goto(c, label) == handler' = [handler EXCEPT ![c].pc = label]
Forward(c, k)  == handler' = [handler EXCEPT ![c] = [pc |-> "load", env |-> k, seen |-> None]]

Refuse(c) == Goto(c, "done") /\ wire' = [wire EXCEPT ![c] = "gone"]

Arrive(c) ==
  /\ wire[c] = "new"
  /\ wire' = [wire EXCEPT ![c] = "open"]
  /\ UNCHANGED <<sharedVars, relay, handler, pcVars, clientVars, countVars, overlapped>>

\* IsConnected; 503 otherwise.
CheckRelay(c) ==
  /\ At(c, "new") /\ wire[c] # "new"
  /\ IF conn = None THEN Refuse(c) ELSE Goto(c, "checked") /\ UNCHANGED wire
  /\ UNCHANGED <<sharedVars, relay, pcVars, clientVars, countVars, overlapped>>

\* GetMultiplexer; 503 otherwise.
GetMux(c) ==
  /\ At(c, "checked")
  /\ IF mux = None THEN Refuse(c) ELSE Goto(c, "accepted") /\ UNCHANGED wire
  /\ UNCHANGED <<sharedVars, relay, pcVars, clientVars, countVars, overlapped>>

\* Accept, which fails for a client that is gone or may still succeed, and
\* AddClient; NotifyClientConnected is next.
AddClient(c) ==
  /\ At(c, "accepted")
  /\ \/ clients' = clients \cup {c} /\ Forward(c, Connected) /\ UNCHANGED wire
     \/ wire[c] = "gone" /\ Refuse(c) /\ UNCHANGED clients
  /\ UNCHANGED <<conn, mux, relay, pcVars, clientVars, countVars, overlapped>>

\* A message was read; HandleClientMessage is next.
ReadMessage(c) ==
  /\ At(c, "loop") /\ up[c] # <<>>
  /\ up' = [up EXCEPT ![c] = Tail(@)]
  /\ Forward(c, Head(up[c]))
  /\ UNCHANGED <<sharedVars, relay, wire, pcVars, inbox, countVars, overlapped>>

\* Variant: the loop's error returns at once.
ClientReadFailsSilently(c) ==
  /\ At(c, "loop") /\ wire[c] = "gone"
  /\ Goto(c, "remove")
  /\ UNCHANGED <<sharedVars, relay, wire, pcVars, clientVars, countVars, overlapped>>

\* Read fails; NotifyClientDisconnected is next.
ClientReadFails(c) ==
  /\ At(c, "loop") /\ wire[c] = "gone"
  /\ Forward(c, Disconnected)
  /\ UNCHANGED <<sharedVars, relay, wire, pcVars, clientVars, countVars, overlapped>>

After(c) == IF handler[c].env = Disconnected THEN "remove" ELSE "loop"

\* Variant: an envelope is dropped while the multiplexer's lock is taken.
LoadConnBusy(c) ==
  /\ At(c, "load")
  /\ \E busy \in BOOLEAN :
       handler' = [handler EXCEPT ![c] =
                     [pc |-> IF conn = None \/ busy THEN After(c) ELSE "write", env |-> @.env, seen |-> conn]]
  /\ UNCHANGED <<sharedVars, relay, wire, pcVars, clientVars, countVars, overlapped>>

\* ForwardToRelay finds a Conn, or drops the envelope without an error.  The
\* multiplexer's lock is not the one SetRelayConn takes.
LoadConn(c) ==
  /\ At(c, "load")
  /\ handler' = [handler EXCEPT ![c] =
                   [pc |-> IF conn = None THEN After(c) ELSE "write", env |-> @.env, seen |-> conn]]
  /\ UNCHANGED <<sharedVars, relay, wire, pcVars, clientVars, countVars, overlapped>>

\* Conn is named a second time for the write, without a lock: it is the one
\* that was checked or the one there is now.  If that is nil the write panics,
\* and net/http recovers: the deferred calls run and nothing else.
WriteConn(c) ==
  /\ At(c, "write")
  /\ \E l \in {handler[c].seen, conn} :
       /\ toPC' = IF l # None /\ wire[l] = "open"
                    THEN [toPC EXCEPT ![l] = Append(@, Envelope(c, handler[c].env))] ELSE toPC
       /\ Goto(c, IF l = None THEN "remove" ELSE After(c))
  /\ UNCHANGED <<sharedVars, relay, wire, down, clientVars, countVars, overlapped>>

\* Variant: RemoveClient is forgotten.
RemoveClientForgotten(c) ==
  /\ At(c, "remove")
  /\ Refuse(c)
  /\ UNCHANGED <<sharedVars, relay, pcVars, clientVars, countVars, overlapped>>

\* The deferred RemoveClient and Close.
RemoveClient(c) ==
  /\ At(c, "remove")
  /\ clients' = clients \ {c}
  /\ Refuse(c)
  /\ UNCHANGED <<conn, mux, relay, pcVars, clientVars, countVars, overlapped>>

-----------------------------------------------------------------------------
(* The PC, the clients and the network.                                    *)

\* Either end is gone: the handler's next read fails.
Break(x) ==
  /\ wire[x] = "open"
  /\ wire' = [wire EXCEPT ![x] = "gone"]
  /\ UNCHANGED <<sharedVars, relay, handler, pcVars, clientVars, countVars, overlapped>>

\* A client sends once its connection was accepted.
ClientSends(c) ==
  /\ wire[c] = "open" /\ sent[c] < MaxMsgs
  /\ handler[c].pc \in {"load", "write", "loop"}
  /\ sent' = [sent EXCEPT ![c] = @ + 1]
  /\ up' = [up EXCEPT ![c] = Append(@, sent[c] + 1)]
  /\ UNCHANGED <<sharedVars, relay, handler, wire, pcVars, inbox, replied, overlapped>>

\* The PC, once it has the response, sends to a client it has heard of.
PCSends(l, c) ==
  /\ wire[l] = "open" /\ l \in Authenticated /\ replied[c] < MaxReplies
  /\ \E k \in Links : \E i \in DOMAIN toPC[k] : toPC[k][i].of = c
  /\ replied' = [replied EXCEPT ![c] = @ + 1]
  /\ down' = [down EXCEPT ![l] = Append(@, Envelope(c, replied[c] + 1))]
  /\ UNCHANGED <<sharedVars, relay, handler, wire, toPC, clientVars, sent, overlapped>>

-----------------------------------------------------------------------------
RelayStep(l) ==
  \/ Authenticate(l) \/ SetConn(l) \/ StoreMux(l) \/ Route(l)
  \/ ReadFails(l) \/ ClearConn(l) \/ DeleteMux(l)

ClientStep(c) ==
  \/ CheckRelay(c) \/ GetMux(c) \/ AddClient(c) \/ ReadMessage(c) \/ ClientReadFails(c)
  \/ LoadConn(c) \/ WriteConn(c) \/ RemoveClient(c)

Next ==
  \/ \E l \in Links : Dial(l) \/ Break(l) \/ RelayStep(l) \/ \E c \in Clients : PCSends(l, c)
  \/ \E c \in Clients : Arrive(c) \/ Break(c) \/ ClientSends(c) \/ ClientStep(c)

Spec == Init /\ [][Next]_vars

-----------------------------------------------------------------------------
(* Properties.                                                             *)

Numbers == 0 .. MaxMsgs + 1
Replies == [of : Clients, kind : 1 .. MaxReplies]

\* The handlers whose client has an entry in Clients.
Added == {"load", "write", "loop", "remove"}

\* The type invariant of the connections, their handlers and what they share;
\* a client has an entry from AddClient to the end of its handler.
TypeOK ==
  /\ conn \in Links \cup {None} /\ mux \in Links \cup {None}
  /\ clients = {c \in Clients : handler[c].pc \in Added}
  /\ relay \in [Links -> {"new", "auth", "known", "set", "loop", "clear", "delete", "done"}]
  /\ handler \in [Clients -> [pc : {"new", "checked", "accepted", "load", "write", "loop", "remove", "done"},
                              env : Numbers, seen : Links \cup {None}]]
  /\ wire \in [Links \cup Clients -> {"new", "open", "gone"}]
  /\ up \in [Clients -> Seq(1 .. MaxMsgs)] /\ inbox \in [Clients -> Seq(1 .. MaxReplies)]
  /\ down \in [Links -> Seq(Replies)] /\ toPC \in [Links -> Seq([of : Clients, kind : Numbers])]
  /\ sent \in [Clients -> 0 .. MaxMsgs] /\ replied \in [Clients -> 0 .. MaxReplies]
  /\ overlapped \in SUBSET Links

\* Neither Conn nor the multiplexer outlives the handler that set it, however
\* the handlers of a broken and a new connection interleave (relay_handler.go:95-127).
NothingOutlivesItsHandler ==
  /\ conn # None => relay[conn] \in {"set", "loop", "clear"}
  /\ mux # None => relay[mux] \in {"loop", "clear", "delete"}

\* A PC connection that no other one overlapped is in force from its
\* registration to the end of its loop: clients are not refused and their
\* messages not dropped (relay_handler.go:95-105, client_handler.go:41-51).
LoneLinkIsInForce ==
  \A l \in Links \ overlapped :
    /\ relay[l] \in {"set", "loop", "clear"} => conn = l
    /\ relay[l] \in {"loop", "clear", "delete"} => mux = l

Increasing(s) == \A i, j \in DOMAIN s : i < j => s[i] < s[j]

\* Messages keep their order both ways.  On each of its connections the PC hears
\* of a client in order and of nothing twice: "connected", the client's messages
\* as they were sent, "disconnected"; a new connection may begin in the middle,
\* but on one that lasts and that no other one overlapped, nothing is missing
\* before a message.  As long as the PC's connections did not overlap, a client
\* gets the PC's messages in the order they were sent, each at most once,
\* although they come over successive connections with a handler each
\* (client_handler.go:69-104, multiplexer.go:63-72, 119-139).
OrderIsKept ==
  /\ \A l \in Links : \A i, j \in DOMAIN toPC[l] :
       LET d == toPC[l][i]
           e == toPC[l][j] IN
       i < j /\ d.of = e.of =>
         /\ d.kind < e.kind
         /\ l \notin overlapped /\ wire[l] = "open" /\ e.kind <= MaxMsgs =>
              Envelope(e.of, e.kind - 1) \in Range(toPC[l])
  /\ overlapped = {} => \A c \in Clients : Increasing(inbox[c])

\* The PC is told that a client left: if it heard of the client on a connection
\* that lasts and that no other one overlapped, "disconnected" is on that
\* connection before the client's entry goes (client_handler.go:70-75, 101-104).
DepartureIsTold ==
  \A l \in Links \ overlapped : \A c \in Clients :
    wire[l] = "open" /\ Envelope(c, Connected) \in Range(toPC[l]) /\ handler[c].pc \in {"remove", "done"}
      => Envelope(c, Disconnected) \in Range(toPC[l])

\* The relay is a mailbox: it invents nothing and delivers nothing twice, even
\* while the PC's connections overlap; the PC hears of a client in the order of
\* its messages, "disconnected" comes after them and once the client is gone,
\* and on a connection that no other one overlapped nothing is missing in
\* between; a client gets the replies in order as long as none overlapped
\* (client_handler.go:69-104, multiplexer.go:63-72, 119-139).
Mail == INSTANCE Mailbox WITH Goodbye <- Disconnected, heard <- toPC, got <- inbox, split <- overlapped
ImplementsMailbox == Mail!Spec
=============================================================================
