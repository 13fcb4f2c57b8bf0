---------------------------- MODULE RelayAccess ----------------------------
(***************************************************************************)
(* How PCs get and keep a subdomain: the relay clients of the PCs          *)
(* (server/relay/client.go) and the relay's registration, refresh and      *)
(* authentication (relay/api, relay/store/connection.go,                   *)
(* relay/ws/relay_handler.go), before any message is routed.               *)
(*                                                                         *)
(* The relay's tables are in memory, the PC's configuration is in a file.  *)
(* A request may fail on its way there or back, a connection may break at  *)
(* any moment, PCs and the relay restart.  Tokens are fresh and counted.   *)
(***************************************************************************)
EXTENDS Naturals

CONSTANTS PCs,
          Names,       \* subdomains
          None,
          MaxTokens,   \* bound: registrations
          MaxBackoff,  \* maxBackoff, in seconds
          MaxRestarts, \* bound: restarts of the relay
          MaxStarts    \* bound: starts of a PC's server

ASSUME NoneFresh  == None \notin PCs \cup Names
ASSUME BoundsNat  == MaxTokens \in Nat /\ MaxRestarts \in Nat /\ MaxStarts \in Nat
ASSUME BackoffPos == MaxBackoff \in Nat \ {0}

VARIABLES
  relays,     \* Store.relays: subdomain -> token of its RelayConnection, or 0
  tokens,     \* Store.tokens: token -> subdomain of its RelayConnection, or None
  subdomains, \* Store.subdomains
  reg,        \* token -> the call of RegisterHandler that made it
  issued,     \* tokens made so far
  restarts,
  run,        \* PC -> where its client is
  starts,
  file, cfg,  \* PC -> saved and loaded RelayConfig
  link,       \* PC -> its connection: "none", "open" or "broken"
  conn,       \* PCs whose client.conn is set
  stop,       \* PC -> Stop: "no", "closed" after close(done), "over"
  backoff,
  late,       \* history: PCs whose Stop found connect at work and no conn
  missed,     \* history: PCs whose refresh failed on its way
  doubled     \* history: names that two overlapping registrations chose

storeVars == <<relays, tokens, subdomains>>
regVars   == <<reg, issued, restarts>>
stopVars  == <<stop, late>>
fileVars  == <<file, cfg, starts, missed>>
linkVars  == <<link, conn, backoff>>
vars == <<storeVars, regVars, run, fileVars, linkVars, stopVars, doubled>>

Tokens  == 1 .. MaxTokens
Configs == [name : Names, token : Tokens]
ASSUME NoConfig == None \notin Configs
NoReg   == [pc |-> "none", by |-> None, name |-> None]

Init ==
  /\ relays = [n \in Names |-> 0]
  /\ tokens = [t \in Tokens |-> None]
  /\ subdomains = {}
  /\ reg = [t \in Tokens |-> NoReg] /\ issued = 0 /\ restarts = 0
  /\ run = [p \in PCs |-> "off"]
  /\ file = [p \in PCs |-> None] /\ cfg = [p \in PCs |-> None]
  /\ starts = [p \in PCs |-> 0]
  /\ link = [p \in PCs |-> "none"] /\ conn = {} /\ backoff = [p \in PCs |-> 1]
  /\ stop = [p \in PCs |-> "no"]
  /\ late = {} /\ missed = {} /\ doubled = {}

Go(p, from, to) == run[p] = from /\ run' = [run EXCEPT ![p] = to]

-----------------------------------------------------------------------------
(* RegisterHandler, one sync.Map operation at a time.                      *)

RegStep(t, from, to) == reg[t].pc = from /\ reg' = [reg EXCEPT ![t].pc = to]

UnderWay(n) == {t \in Tokens : reg[t].name = n /\ reg[t].pc \in {"relays", "tokens", "subdomains"}}

\* A request of p arrives: GenerateSubdomain finds n unused, GenerateToken.
Generate(p, n) ==
  LET t == issued + 1 IN
  /\ run[p] = "register" /\ issued < MaxTokens
  /\ n \notin subdomains
  /\ issued' = t
  /\ reg' = [reg EXCEPT ![t] = [pc |-> "relays", by |-> p, name |-> n]]
  /\ run' = [run EXCEPT ![p] = "registering"]
  /\ doubled' = IF UnderWay(n) = {} THEN doubled ELSE doubled \cup {n}
  /\ UNCHANGED <<storeVars, restarts, fileVars, linkVars, stopVars>>

\* RegisterRelay.
StoreRelay(t) ==
  /\ RegStep(t, "relays", "tokens")
  /\ relays' = [relays EXCEPT ![reg[t].name] = t]
  /\ UNCHANGED <<tokens, subdomains, issued, restarts, run, fileVars, linkVars, stopVars, doubled>>

StoreToken(t) ==
  /\ RegStep(t, "tokens", "subdomains")
  /\ tokens' = [tokens EXCEPT ![t] = reg[t].name]
  /\ UNCHANGED <<relays, subdomains, issued, restarts, run, fileVars, linkVars, stopVars, doubled>>

\* Variant: the name is not marked as used.
StoreSubdomainForgotten(t) ==
  /\ RegStep(t, "subdomains", "reply")
  /\ UNCHANGED <<storeVars, issued, restarts, run, fileVars, linkVars, stopVars, doubled>>

StoreSubdomain(t) ==
  /\ RegStep(t, "subdomains", "reply")
  /\ subdomains' = subdomains \cup {reg[t].name}
  /\ UNCHANGED <<relays, tokens, issued, restarts, run, fileVars, linkVars, stopVars, doubled>>

\* The relay's process ends and starts again with empty tables.
RelayRestart ==
  /\ restarts < MaxRestarts
  /\ restarts' = restarts + 1
  /\ relays' = [n \in Names |-> 0] /\ tokens' = [t \in Tokens |-> None] /\ subdomains' = {}
  /\ reg' = [t \in Tokens |-> NoReg]
  /\ link' = [p \in PCs |-> IF link[p] = "open" THEN "broken" ELSE link[p]]
  /\ doubled' = {}
  /\ UNCHANGED <<issued, run, fileVars, conn, backoff, stopVars>>

-----------------------------------------------------------------------------
(* Client.Start: loadOrRegister.                                           *)

Start(p) ==
  /\ Go(p, "off", IF file[p] = None THEN "register" ELSE "refresh")
  /\ starts[p] < MaxStarts
  /\ starts' = [starts EXCEPT ![p] = @ + 1]
  /\ missed' = missed \ {p}
  /\ UNCHANGED <<storeVars, regVars, file, cfg, linkVars, stopVars, doubled>>

\* RefreshHandler's test of a configuration, which looks at the token only.
Accepts(c) == tokens[c.token] # None

\* Variant: another status is expected.
RefreshOther(p) ==
  /\ Go(p, "refresh", "register")
  /\ UNCHANGED <<storeVars, regVars, fileVars, linkVars, stopVars, doubled>>

\* refresh, answered: the saved configuration is used as it is, or given up.
Refresh(p) ==
  /\ Go(p, "refresh", IF Accepts(file[p]) THEN "loop" ELSE "register")
  /\ cfg' = IF Accepts(file[p]) THEN [cfg EXCEPT ![p] = file[p]] ELSE cfg
  /\ UNCHANGED <<storeVars, regVars, file, starts, missed, linkVars, stopVars, doubled>>

\* The request or its answer is lost: a new registration is tried.
RefreshFails(p) ==
  /\ Go(p, "refresh", "register")
  /\ missed' = missed \cup {p}
  /\ UNCHANGED <<storeVars, regVars, file, cfg, starts, linkVars, stopVars, doubled>>

\* register, answered, and saveConfig, whose failure is only logged.
Registered(p) ==
  \E t \in Tokens :
    LET c == [name |-> reg[t].name, token |-> t] IN
    /\ reg[t].by = p /\ RegStep(t, "reply", "done")
    /\ Go(p, "registering", "loop")
    /\ cfg' = [cfg EXCEPT ![p] = c]
    /\ file' \in {file, [file EXCEPT ![p] = c]}
    /\ UNCHANGED <<storeVars, issued, restarts, starts, missed, linkVars, stopVars, doubled>>

\* The request or its answer is lost: Start fails, and the server goes on
\* without the relay.  The relay may still be registering.
RegisterFails(p) ==
  /\ Go(p, "register", "failed") \/ Go(p, "registering", "failed")
  /\ reg' = [t \in Tokens |-> IF reg[t].by = p THEN [reg[t] EXCEPT !.by = None] ELSE reg[t]]
  /\ UNCHANGED <<storeVars, issued, restarts, fileVars, linkVars, stopVars, doubled>>

-----------------------------------------------------------------------------
(* connectLoop, connect and messageLoop.                                   *)

\* Variant: done is looked at in the waits only.
LoopTopUnchecked(p) ==
  /\ Go(p, "loop", "dial")
  /\ UNCHANGED <<storeVars, regVars, fileVars, linkVars, stopVars, doubled>>

\* The select before connect.
LoopTop(p) ==
  /\ Go(p, "loop", IF stop[p] # "no" THEN "ended" ELSE "dial")
  /\ UNCHANGED <<storeVars, regVars, fileVars, linkVars, stopVars, doubled>>

DialOk(p) ==
  /\ Go(p, "dial", "auth")
  /\ link' = [link EXCEPT ![p] = "open"]
  /\ UNCHANGED <<storeVars, regVars, fileVars, conn, backoff, stopVars, doubled>>

DialFails(p) ==
  /\ Go(p, "dial", "wait")
  /\ UNCHANGED <<storeVars, regVars, fileVars, linkVars, stopVars, doubled>>

\* authenticate's test: the token's subdomain is the one that was dialled.
Admits(c) == tokens[c.token] = c.name

\* The relay's answer arrives.
Authenticated(p) ==
  /\ Go(p, "auth", "authed")
  /\ link[p] = "open" /\ Admits(cfg[p])
  /\ UNCHANGED <<storeVars, regVars, fileVars, linkVars, stopVars, doubled>>

\* The relay's error arrives, or nothing does.
AuthFails(p) ==
  /\ Go(p, "auth", "wait")
  /\ link[p] = "broken" \/ ~Admits(cfg[p])
  /\ link' = [link EXCEPT ![p] = "none"]
  /\ UNCHANGED <<storeVars, regVars, fileVars, conn, backoff, stopVars, doubled>>

\* c.conn = conn under c.mu.
SetConn(p) ==
  /\ Go(p, "authed", "messages")
  /\ conn' = conn \cup {p}
  /\ UNCHANGED <<storeVars, regVars, fileVars, link, backoff, stopVars, doubled>>

Break(p) ==
  /\ link[p] = "open"
  /\ link' = [link EXCEPT ![p] = "broken"]
  /\ UNCHANGED <<storeVars, regVars, run, fileVars, conn, backoff, stopVars, doubled>>

\* Read fails: messageLoop resets c.conn and returns the error.
ReadFails(p) ==
  /\ Go(p, "messages", "wait")
  /\ link[p] = "broken"
  /\ conn' = conn \ {p} /\ link' = [link EXCEPT ![p] = "none"]
  /\ UNCHANGED <<storeVars, regVars, fileVars, backoff, stopVars, doubled>>

\* Variant: no upper limit.
DoubledBackoff(b) == 2 * b

NextBackoff(b) == IF 2 * b < MaxBackoff THEN 2 * b ELSE MaxBackoff

\* The select after an error: the time is over, or done is closed.
WaitOver(p) ==
  /\ Go(p, "wait", "loop")
  /\ backoff' = [backoff EXCEPT ![p] = NextBackoff(@)]
  /\ UNCHANGED <<storeVars, regVars, fileVars, link, conn, stopVars, doubled>>

WaitStopped(p) ==
  /\ stop[p] # "no" /\ Go(p, "wait", "ended")
  /\ UNCHANGED <<storeVars, regVars, fileVars, linkVars, stopVars, doubled>>

-----------------------------------------------------------------------------
(* Client.Stop, from the signal handler that main starts after Start, and  *)
(* the end of the process, after Stop or for any other reason.             *)

Stop(p) ==
  /\ run[p] \notin {"off", "refresh", "register", "registering"}
  /\ stop[p] = "no"
  /\ stop' = [stop EXCEPT ![p] = "closed"]
  /\ UNCHANGED <<storeVars, regVars, run, fileVars, linkVars, late, doubled>>

\* The section under c.mu: the connection is closed if it is set.
StopConn(p) ==
  /\ stop[p] = "closed"
  /\ stop' = [stop EXCEPT ![p] = "over"]
  /\ link' = IF p \in conn THEN [link EXCEPT ![p] = "broken"] ELSE link
  /\ late' = IF run[p] \in {"dial", "auth", "authed"} THEN late \cup {p} ELSE late
  /\ UNCHANGED <<storeVars, regVars, run, fileVars, conn, backoff, doubled>>

Exit(p) ==
  /\ run[p] # "off"
  /\ run' = [run EXCEPT ![p] = "off"]
  /\ cfg' = [cfg EXCEPT ![p] = None]
  /\ link' = [link EXCEPT ![p] = "none"] /\ conn' = conn \ {p} /\ backoff' = [backoff EXCEPT ![p] = 1]
  /\ stop' = [stop EXCEPT ![p] = "no"] /\ late' = late \ {p}
  /\ reg' = [t \in Tokens |-> IF reg[t].by = p THEN [reg[t] EXCEPT !.by = None] ELSE reg[t]]
  /\ UNCHANGED <<storeVars, issued, restarts, file, starts, missed, doubled>>

-----------------------------------------------------------------------------
Register(t) == StoreRelay(t) \/ StoreToken(t) \/ StoreSubdomain(t)

\* What the client does by itself, once it has a configuration.
Client(p) == \/ LoopTop(p) \/ AuthFails(p) \/ SetConn(p) \/ ReadFails(p)
             \/ WaitOver(p) \/ WaitStopped(p) \/ StopConn(p)

Next ==
  \/ \E t \in Tokens : Register(t)
  \/ \E p \in PCs :
       \/ Start(p) \/ Refresh(p) \/ RefreshFails(p) \/ Registered(p) \/ RegisterFails(p)
       \/ Client(p) \/ DialOk(p) \/ DialFails(p) \/ Authenticated(p) \/ Break(p)
       \/ Stop(p) \/ Exit(p)
       \/ \E n \in Names : Generate(p, n)
  \/ RelayRestart

Spec == Init /\ [][Next]_vars

-----------------------------------------------------------------------------
(* Properties.                                                             *)

\* The clients that have a connection of their own, and those in connectLoop.
Linked  == {"auth", "authed", "messages"}
Looping == {"loop", "dial", "wait"} \cup Linked

\* The type invariant: a client in connectLoop has a configuration, it holds a
\* connection from dial to the end of its loop, and conn is set in that loop.
TypeOK ==
  /\ relays \in [Names -> Tokens \cup {0}] /\ tokens \in [Tokens -> Names \cup {None}]
  /\ subdomains \in SUBSET Names
  /\ reg \in [Tokens -> [pc : {"none", "relays", "tokens", "subdomains", "reply", "done"},
                         by : PCs \cup {None}, name : Names \cup {None}]]
  /\ issued \in 0 .. MaxTokens /\ restarts \in 0 .. MaxRestarts
  /\ run \in [PCs -> {"off", "refresh", "register", "registering", "failed", "ended"} \cup Looping]
  /\ file \in [PCs -> Configs \cup {None}] /\ cfg \in [PCs -> Configs \cup {None}]
  /\ starts \in [PCs -> 0 .. MaxStarts]
  /\ link \in [PCs -> {"none", "open", "broken"}]
  /\ backoff \in [PCs -> 1 .. MaxBackoff]
  /\ stop \in [PCs -> {"no", "closed", "over"}]
  /\ late \in SUBSET PCs /\ missed \in SUBSET PCs /\ doubled \in SUBSET Names
  /\ conn = {p \in PCs : run[p] = "messages"}
  /\ \A p \in PCs : /\ run[p] \in Looping => cfg[p] # None
                    /\ run[p] = "refresh" => file[p] # None
                    /\ link[p] # "none" <=> run[p] \in Linked
  /\ \A t \in Tokens : reg[t].pc # "none" => reg[t].name \in Names

Served(p) == run[p] \in {"authed", "messages"} /\ link[p] = "open"

\* A subdomain leads to one PC: unless two registrations that overlapped chose
\* it, a name has one token, no two PCs are connected under it, and the record
\* it leads to is the connected PC's own, also after the relay has lost its
\* tables and given the name again (connection.go:45-56, 119-128;
\* relay_handler.go:150-155, 89-95).
OneOwner ==
  /\ \A t, u \in Tokens : tokens[t] # None /\ tokens[t] = tokens[u] => t = u \/ tokens[t] \in doubled
  /\ \A p \in PCs : Served(p) /\ cfg[p].name \notin doubled =>
       /\ relays[cfg[p].name] = cfg[p].token
       /\ \A q \in PCs \ {p} : Served(q) => cfg[q].name # cfg[p].name

\* A PC's address outlives its restarts: a saved configuration that the relay
\* would still accept is replaced only if the refresh failed on its way
\* (client.go:119-133).
KeepsItsName ==
  [][\A p \in PCs : file[p] # None /\ file'[p] # file[p] => p \in missed \/ ~Accepts(file[p])]_vars

\* Stop ends the client: no connection stays open and none is made any more,
\* unless Stop found connect on its way, with c.conn not yet set: then the new
\* connection is kept until the process ends (client.go:86-93, 185-210, 243-245).
StopEndsLoop ==
  \A p \in PCs : stop[p] = "over" /\ p \notin late =>
    link[p] # "open" /\ run[p] \notin {"dial", "auth", "authed"}
=============================================================================
