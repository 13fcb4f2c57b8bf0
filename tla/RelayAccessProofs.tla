------------------------- MODULE RelayAccessProofs -------------------------
(***************************************************************************)
(* A subdomain leads to one PC, a stopped client stays away, and an        *)
(* address that would be accepted is kept: for any PCs and names and for   *)
(* every bound.                                                            *)
(***************************************************************************)
EXTENDS RelayAccess, TLAPS

Stored == {"subdomains", "reply", "done"}

\* The relay's tables hold what the registrations have stored so far, a token
\* that was not issued has left no trace, and names that two registrations
\* have are doubled.
Tables ==
  /\ \A t \in Tokens : t > issued => reg[t] = NoReg
  /\ \A t \in Tokens : tokens[t] = IF reg[t].pc \in Stored THEN reg[t].name ELSE None
  /\ \A t \in Tokens : reg[t].pc \in {"reply", "done"} => reg[t].name \in subdomains
  /\ \A t, u \in Tokens :
       t # u /\ reg[t].pc # "none" /\ reg[u].pc # "none" /\ reg[t].name = reg[u].name => reg[t].name \in doubled
  /\ \A t \in Tokens :
       reg[t].pc \in {"tokens"} \cup Stored /\ reg[t].name \notin doubled => relays[reg[t].name] = t

\* The token of a saved or a loaded configuration.
Holds(p, t) == \/ file[p] # None /\ file[p].token = t
               \/ cfg[p] # None /\ cfg[p].token = t

\* A token is issued before a PC holds it, one PC holds it, and none does
\* before its registration is over.
Owned ==
  \A p \in PCs, t \in Tokens : Holds(p, t) =>
    /\ t <= issued /\ reg[t].pc \in {"none", "done"}
    /\ \A q \in PCs : Holds(q, t) => q = p

\* A connected client is the one its token was issued for, and one that
\* registers although it has a configuration has reason to.
Admitted == \A p \in PCs : Served(p) => Admits(cfg[p])
Excused  == \A p \in PCs : run[p] \in {"register", "registering"} /\ file[p] # None =>
                             p \in missed \/ ~Accepts(file[p])

IInv == TypeOK /\ Tables /\ Owned /\ Admitted /\ Excused /\ StopEndsLoop

-----------------------------------------------------------------------------
(* Types.                                                                  *)

LEMMA BackoffType ==
  ASSUME NEW b \in 1 .. MaxBackoff
  PROVE  NextBackoff(b) \in 1 .. MaxBackoff
BY BackoffPos DEF NextBackoff

LEMMA InitInv == Init => IInv
<1> SUFFICES ASSUME Init PROVE IInv
  OBVIOUS
<1> USE NoneFresh, BoundsNat, BackoffPos DEF Init
<1>1. TypeOK
  BY DEF TypeOK, NoReg, Tokens, Looping, Linked, Configs
<1>2. Tables
  BY DEF Tables, NoReg, Stored
<1>3. Owned /\ Admitted /\ Excused /\ StopEndsLoop
  BY DEF Owned, Holds, Admitted, Served, Excused, StopEndsLoop
<1> QED BY <1>1, <1>2, <1>3 DEF IInv

\* The part of the type invariant that is about one client.
ClientOK(p) ==
  /\ run[p] \in Looping => cfg[p] # None
  /\ run[p] = "refresh" => file[p] # None
  /\ link[p] # "none" <=> run[p] \in Linked

RegPcs  == {"none", "relays", "tokens", "subdomains", "reply", "done"}
RegType == [pc : RegPcs, by : PCs \cup {None}, name : Names \cup {None}]

\* A registration goes on: its name and its caller stay.
LEMMA RegStepEffect ==
  ASSUME reg \in [Tokens -> RegType], NEW t \in Tokens, NEW from \in RegPcs, NEW to \in RegPcs,
         RegStep(t, from, to)
  PROVE  /\ reg' \in [Tokens -> RegType]
         /\ reg[t].pc = from /\ reg'[t].pc = to
         /\ reg'[t].name = reg[t].name /\ reg'[t].by = reg[t].by
         /\ \A u \in Tokens \ {t} : reg'[u] = reg[u]
<1>1. reg' = [reg EXCEPT ![t] = [reg[t] EXCEPT !.pc = to]] /\ reg[t].pc = from
  BY DEF RegStep
<1>2. reg[t] \in RegType
  OBVIOUS
<1>3. /\ [reg[t] EXCEPT !.pc = to] \in RegType /\ [reg[t] EXCEPT !.pc = to].pc = to
      /\ [reg[t] EXCEPT !.pc = to].name = reg[t].name /\ [reg[t] EXCEPT !.pc = to].by = reg[t].by
  BY <1>2 DEF RegType
<1> QED BY <1>1, <1>3

\* The caller goes away: nothing else changes.
LEMMA RegForgets ==
  ASSUME reg \in [Tokens -> RegType], NEW p \in PCs,
         reg' = [t \in Tokens |-> IF reg[t].by = p THEN [reg[t] EXCEPT !.by = None] ELSE reg[t]]
  PROVE  /\ reg' \in [Tokens -> RegType]
         /\ \A t \in Tokens : /\ reg'[t].pc = reg[t].pc /\ reg'[t].name = reg[t].name
                              /\ reg[t] = NoReg => reg'[t] = NoReg
<1> SUFFICES ASSUME NEW t \in Tokens
             PROVE  /\ reg'[t] \in RegType
                    /\ reg'[t].pc = reg[t].pc /\ reg'[t].name = reg[t].name
                    /\ reg[t] = NoReg => reg'[t] = NoReg
  BY Zenon
<1>1. reg[t] \in RegType /\ reg'[t] = IF reg[t].by = p THEN [reg[t] EXCEPT !.by = None] ELSE reg[t]
  OBVIOUS
<1>2. reg[t] = NoReg => reg[t].by = None
  BY DEF NoReg
<1> QED BY <1>1, <1>2, NoneFresh DEF RegType

\* What the type invariant says, with the types of reg named.
LEMMA Typed ==
  TypeOK <=>
    /\ relays \in [Names -> Tokens \cup {0}] /\ tokens \in [Tokens -> Names \cup {None}]
    /\ subdomains \in SUBSET Names
    /\ reg \in [Tokens -> RegType]
    /\ issued \in 0 .. MaxTokens /\ restarts \in 0 .. MaxRestarts
    /\ run \in [PCs -> {"off", "refresh", "register", "registering", "failed", "ended"} \cup Looping]
    /\ file \in [PCs -> Configs \cup {None}] /\ cfg \in [PCs -> Configs \cup {None}]
    /\ starts \in [PCs -> 0 .. MaxStarts]
    /\ link \in [PCs -> {"none", "open", "broken"}]
    /\ backoff \in [PCs -> 1 .. MaxBackoff]
    /\ stop \in [PCs -> {"no", "closed", "over"}]
    /\ late \in SUBSET PCs /\ missed \in SUBSET PCs /\ doubled \in SUBSET Names
    /\ conn = {p \in PCs : run[p] = "messages"}
    /\ \A p \in PCs : ClientOK(p)
    /\ \A t \in Tokens : reg[t].pc # "none" => reg[t].name \in Names
BY DEF TypeOK, ClientOK, RegType, RegPcs

\* The steps of a registration.
LEMMA RegisterType ==
  ASSUME TypeOK, NEW t \in Tokens, Register(t)
  PROVE  TypeOK'
<1>1. PICK from \in {"relays", "tokens", "subdomains"}, to \in {"tokens", "subdomains", "reply"} :
        RegStep(t, from, to)
  BY DEF Register, StoreRelay, StoreToken, StoreSubdomain
<1>2. /\ reg' \in [Tokens -> RegType]
      /\ \A u \in Tokens : reg'[u].pc # "none" => reg'[u].name \in Names
      /\ reg[t].name \in Names
  BY <1>1, RegStepEffect, Typed DEF RegPcs
<1>3. /\ relays' \in [Names -> Tokens \cup {0}] /\ tokens' \in [Tokens -> Names \cup {None}]
      /\ subdomains' \in SUBSET Names
  BY <1>2, Typed DEF Register, StoreRelay, StoreToken, StoreSubdomain
<1>4. UNCHANGED <<issued, restarts, run, fileVars, linkVars, stopVars, doubled>>
  BY DEF Register, StoreRelay, StoreToken, StoreSubdomain
<1> QED BY <1>2, <1>3, <1>4 DEF TypeOK, RegType, RegPcs, fileVars, linkVars, stopVars

LEMMA GenerateType ==
  ASSUME TypeOK, NEW p \in PCs, NEW n \in Names, Generate(p, n)
  PROVE  TypeOK'
<1> DEFINE t == issued + 1
           r == [pc |-> "relays", by |-> p, name |-> n]
<1>1. t \in Tokens /\ t \in 0 .. MaxTokens
  BY BoundsNat, Typed DEF Generate, Tokens
<1>2. r \in RegType /\ r.name \in Names
  BY DEF RegType, RegPcs
<1>3. reg' = [reg EXCEPT ![t] = r] /\ issued' = t
  BY DEF Generate
<1> HIDE DEF t, r
<1>4. reg' \in [Tokens -> RegType] /\ \A u \in Tokens : reg'[u].pc # "none" => reg'[u].name \in Names
  BY <1>1, <1>2, <1>3, Typed
<1>5. /\ doubled' \in SUBSET Names
      /\ run[p] = "register" /\ run' = [run EXCEPT ![p] = "registering"]
      /\ UNCHANGED <<storeVars, restarts, fileVars, linkVars, stopVars>>
  BY Typed DEF Generate
<1> QED BY <1>1, <1>3, <1>4, <1>5
        DEF TypeOK, RegType, RegPcs, storeVars, fileVars, linkVars, stopVars, Linked, Looping

\* The steps of a client that leave the registrations alone.
LEMMA ClientType ==
  ASSUME TypeOK, NEW p \in PCs,
         \/ Start(p) \/ Refresh(p) \/ RefreshFails(p) \/ LoopTop(p) \/ DialOk(p) \/ DialFails(p)
         \/ Authenticated(p) \/ AuthFails(p) \/ SetConn(p) \/ Break(p) \/ ReadFails(p)
         \/ WaitOver(p) \/ WaitStopped(p) \/ Stop(p) \/ StopConn(p)
  PROVE  TypeOK'
<1> USE NoneFresh DEF TypeOK, Go, Looping, Linked, storeVars, regVars, fileVars, linkVars, stopVars
<1>1. CASE Start(p)
  BY <1>1, BoundsNat DEF Start
<1>2. CASE Refresh(p)
  BY <1>2 DEF Refresh
<1>3. CASE RefreshFails(p)
  BY <1>3 DEF RefreshFails
<1>4. CASE LoopTop(p)
  BY <1>4 DEF LoopTop
<1>5. CASE DialOk(p)
  BY <1>5 DEF DialOk
<1>6. CASE DialFails(p)
  BY <1>6 DEF DialFails
<1>7. CASE Authenticated(p)
  BY <1>7 DEF Authenticated
<1>8. CASE AuthFails(p)
  BY <1>8 DEF AuthFails
<1>9. CASE SetConn(p)
  BY <1>9 DEF SetConn
<1>10. CASE Break(p)
  BY <1>10 DEF Break
<1>11. CASE ReadFails(p)
  BY <1>11 DEF ReadFails
<1>12. CASE WaitStopped(p)
  BY <1>12 DEF WaitStopped
<1>13. CASE Stop(p)
  BY <1>13 DEF Stop
<1>14. CASE StopConn(p)
  BY <1>14 DEF StopConn
<1>15. CASE WaitOver(p)
  <2>1. NextBackoff(backoff[p]) \in 1 .. MaxBackoff
    BY BackoffType
  <2>2. backoff' \in [PCs -> 1 .. MaxBackoff]
    BY <1>15, <2>1 DEF WaitOver
  <2> HIDE DEF NextBackoff
  <2> QED BY <1>15, <2>2 DEF WaitOver
<1> QED BY <1>1, <1>2, <1>3, <1>4, <1>5, <1>6, <1>7, <1>8, <1>9, <1>10, <1>11, <1>12, <1>13, <1>14, <1>15

LEMMA RegisteredType ==
  ASSUME TypeOK, NEW p \in PCs, Registered(p)
  PROVE  TypeOK'
<1>a. PICK t \in Tokens : \E c :
        /\ c = [name |-> reg[t].name, token |-> t] /\ RegStep(t, "reply", "done")
        /\ run[p] = "registering" /\ run' = [run EXCEPT ![p] = "loop"]
        /\ cfg' = [cfg EXCEPT ![p] = c]
        /\ file' \in {file, [file EXCEPT ![p] = c]}
        /\ UNCHANGED <<storeVars, issued, restarts, starts, missed, linkVars, stopVars, doubled>>
  BY DEF Registered, Go
<1>1. PICK c :
        /\ c = [name |-> reg[t].name, token |-> t] /\ RegStep(t, "reply", "done")
        /\ run[p] = "registering" /\ run' = [run EXCEPT ![p] = "loop"]
        /\ cfg' = [cfg EXCEPT ![p] = c]
        /\ file' \in {file, [file EXCEPT ![p] = c]}
        /\ UNCHANGED <<storeVars, issued, restarts, starts, missed, linkVars, stopVars, doubled>>
  BY <1>a
<1>2. reg[t].name \in Names /\ reg' \in [Tokens -> RegType]
      /\ \A u \in Tokens : reg'[u].pc # "none" => reg'[u].name \in Names
  BY <1>1, RegStepEffect, Typed DEF RegPcs, RegStep
<1>3. c \in Configs /\ c # None
  BY <1>1, <1>2, NoConfig DEF Configs
<1>4. /\ cfg' \in [PCs -> Configs \cup {None}] /\ file' \in [PCs -> Configs \cup {None}]
      /\ \A q \in PCs : (cfg[q] # None => cfg'[q] # None) /\ (file[q] # None => file'[q] # None)
      /\ cfg'[p] # None
  BY <1>1, <1>3 DEF TypeOK
<1> QED BY <1>1, <1>2, <1>4
        DEF TypeOK, RegType, RegPcs, storeVars, linkVars, stopVars, Linked, Looping

LEMMA LeavingType ==
  ASSUME TypeOK, NEW p \in PCs, RegisterFails(p) \/ Exit(p)
  PROVE  TypeOK'
<1>1. /\ reg' \in [Tokens -> RegType]
      /\ \A t \in Tokens : reg'[t].pc # "none" => reg'[t].name \in Names
  BY RegForgets, Typed DEF RegisterFails, Exit
<1>2. CASE RegisterFails(p)
  <2>1. /\ run[p] \in {"register", "registering"} /\ run' = [run EXCEPT ![p] = "failed"]
        /\ UNCHANGED <<storeVars, issued, restarts, fileVars, linkVars, stopVars, doubled>>
    BY <1>2 DEF RegisterFails, Go
  <2> QED BY <1>1, <2>1
          DEF TypeOK, RegType, RegPcs, storeVars, fileVars, linkVars, stopVars, Linked, Looping
<1>3. CASE Exit(p)
  <2>1. /\ run' = [run EXCEPT ![p] = "off"] /\ cfg' = [cfg EXCEPT ![p] = None]
        /\ link' = [link EXCEPT ![p] = "none"] /\ conn' = conn \ {p}
        /\ backoff' = [backoff EXCEPT ![p] = 1] /\ stop' = [stop EXCEPT ![p] = "no"] /\ late' = late \ {p}
        /\ UNCHANGED <<storeVars, issued, restarts, file, starts, missed, doubled>>
    BY <1>3 DEF Exit
  <2> QED BY <1>1, <2>1, BackoffPos DEF TypeOK, RegType, RegPcs, storeVars, Linked, Looping
<1> QED BY <1>2, <1>3

LEMMA RestartType ==
  ASSUME TypeOK, RelayRestart
  PROVE  TypeOK'
<1>1. /\ relays' \in [Names -> Tokens \cup {0}] /\ tokens' \in [Tokens -> Names \cup {None}]
      /\ subdomains' = {} /\ doubled' = {} /\ restarts' \in 0 .. MaxRestarts
  BY BoundsNat DEF TypeOK, RelayRestart
<1>2. /\ reg' \in [Tokens -> RegType] /\ \A t \in Tokens : reg'[t].pc = "none"
  BY DEF RelayRestart, NoReg, RegType, RegPcs
<1>3. /\ link' = [q \in PCs |-> IF link[q] = "open" THEN "broken" ELSE link[q]]
      /\ UNCHANGED <<issued, run, fileVars, conn, backoff, stopVars>>
  BY DEF RelayRestart
<1> QED BY <1>1, <1>2, <1>3 DEF TypeOK, RegType, RegPcs, fileVars, stopVars

\* Every step keeps the type invariant.
LEMMA NextType == TypeOK /\ [Next]_vars => TypeOK'
<1>1. TypeOK /\ UNCHANGED vars => TypeOK'
  BY DEF TypeOK, vars, storeVars, regVars, fileVars, linkVars, stopVars
<1> QED BY <1>1, RegisterType, GenerateType, ClientType, RegisteredType, LeavingType, RestartType
        DEF Next, Client

-----------------------------------------------------------------------------
(* The relay's tables.                                                     *)

\* A step that is not the relay's changes who asked, or ends a registration
\* that has been answered.
LEMMA TablesQuiet ==
  ASSUME TypeOK, Tables, reg' \in [Tokens -> RegType],
         UNCHANGED <<storeVars, issued, doubled>>,
         \A t \in Tokens : /\ reg[t] = NoReg => reg'[t] = NoReg
                           /\ reg'[t].name = reg[t].name
                           /\ reg'[t].pc = reg[t].pc \/ (reg[t].pc = "reply" /\ reg'[t].pc = "done")
  PROVE  Tables'
<1>1. /\ relays' = relays /\ tokens' = tokens /\ subdomains' = subdomains
      /\ issued' = issued /\ doubled' = doubled
  BY DEF storeVars
<1>2. \A t \in Tokens : /\ reg'[t].pc \in Stored <=> reg[t].pc \in Stored
                        /\ reg'[t].pc \in {"reply", "done"} <=> reg[t].pc \in {"reply", "done"}
                        /\ reg'[t].pc = "none" <=> reg[t].pc = "none"
                        /\ reg'[t].pc = "tokens" <=> reg[t].pc = "tokens"
  BY DEF Stored
<1>3. \A t \in Tokens : t > issued => reg'[t] = NoReg
  BY DEF Tables
<1>4. \A t \in Tokens : tokens[t] = IF reg'[t].pc \in Stored THEN reg'[t].name ELSE None
  BY <1>2 DEF Tables
<1>5. \A t \in Tokens : reg'[t].pc \in {"reply", "done"} => reg'[t].name \in subdomains
  BY <1>2 DEF Tables
<1>6. \A t, u \in Tokens :
        t # u /\ reg'[t].pc # "none" /\ reg'[u].pc # "none" /\ reg'[t].name = reg'[u].name
          => reg'[t].name \in doubled
  BY <1>2 DEF Tables
<1>7. \A t \in Tokens :
        reg'[t].pc \in {"tokens"} \cup Stored /\ reg'[t].name \notin doubled => relays[reg'[t].name] = t
  BY <1>2 DEF Tables
<1> QED BY <1>1, <1>3, <1>4, <1>5, <1>6, <1>7 DEF Tables

LEMMA TablesRegister ==
  ASSUME TypeOK, Tables, NEW t \in Tokens, Register(t)
  PROVE  Tables'
<1> USE NoneFresh, Typed
<1>0. /\ reg[t].pc # "none" => reg[t].name \in Names /\ ~(t > issued)
      /\ UNCHANGED <<issued, doubled>>
  BY DEF Tables, NoReg, Register, StoreRelay, StoreToken, StoreSubdomain
<1>1. CASE StoreRelay(t)
  <2>1. /\ reg[t].pc = "relays" /\ reg'[t].pc = "tokens" /\ reg'[t].name = reg[t].name
        /\ \A u \in Tokens \ {t} : reg'[u] = reg[u]
    BY <1>1, RegStepEffect DEF StoreRelay, RegPcs
  <2>2. /\ relays' = [relays EXCEPT ![reg[t].name] = t] /\ tokens' = tokens /\ subdomains' = subdomains
    BY <1>1 DEF StoreRelay
  <2> QED BY <1>0, <2>1, <2>2 DEF Tables, Stored
<1>2. CASE StoreToken(t)
  <2>1. /\ reg[t].pc = "tokens" /\ reg'[t].pc = "subdomains" /\ reg'[t].name = reg[t].name
        /\ \A u \in Tokens \ {t} : reg'[u] = reg[u]
    BY <1>2, RegStepEffect DEF StoreToken, RegPcs
  <2>2. /\ tokens' = [tokens EXCEPT ![t] = reg[t].name] /\ relays' = relays /\ subdomains' = subdomains
    BY <1>2 DEF StoreToken
  <2> QED BY <1>0, <2>1, <2>2 DEF Tables, Stored
<1>3. CASE StoreSubdomain(t)
  <2>1. /\ reg[t].pc = "subdomains" /\ reg'[t].pc = "reply" /\ reg'[t].name = reg[t].name
        /\ \A u \in Tokens \ {t} : reg'[u] = reg[u]
    BY <1>3, RegStepEffect DEF StoreSubdomain, RegPcs
  <2>2. /\ subdomains' = subdomains \cup {reg[t].name} /\ relays' = relays /\ tokens' = tokens
    BY <1>3 DEF StoreSubdomain
  <2> QED BY <1>0, <2>1, <2>2 DEF Tables, Stored
<1> QED BY <1>1, <1>2, <1>3 DEF Register

\* A name that is not among the subdomains is a name of registrations under
\* way only.
LEMMA TablesGenerate ==
  ASSUME TypeOK, Tables, NEW p \in PCs, NEW n \in Names, Generate(p, n)
  PROVE  Tables'
<1> DEFINE t == issued + 1
<1>1. t \in Tokens /\ t > issued /\ issued \in Nat /\ issued' = t
  BY BoundsNat, Typed DEF Generate, Tokens
<1>2. /\ reg'[t].pc = "relays" /\ reg'[t].name = n
      /\ \A u \in Tokens \ {t} : reg'[u] = reg[u]
      /\ UNCHANGED storeVars
  BY <1>1, Typed DEF Generate
<1>3. reg[t].pc = "none"
  BY <1>1 DEF Tables, NoReg
<1>4. \A u \in Tokens : reg[u].pc # "none" /\ reg[u].name = n => u \in UnderWay(n)
  <2> SUFFICES ASSUME NEW u \in Tokens, reg[u].pc # "none", reg[u].name = n PROVE u \in UnderWay(n)
    OBVIOUS
  <2>1. n \notin subdomains
    BY DEF Generate
  <2>2. reg[u].pc \in RegPcs
    BY Typed DEF RegType
  <2> QED BY <2>1, <2>2 DEF Tables, UnderWay, RegPcs
<1>5. /\ doubled \subseteq doubled'
      /\ \A u \in Tokens : reg[u].pc # "none" /\ reg[u].name = n => n \in doubled'
  BY <1>4 DEF Generate
<1> HIDE DEF t
<1>6. \A u \in Tokens : u > t => u > issued /\ u # t
  BY <1>1 DEF Tokens
<1> QED BY <1>1, <1>2, <1>3, <1>5, <1>6 DEF Tables, Stored, storeVars

LEMMA TablesNext == TypeOK /\ Tables /\ [Next]_vars => Tables'
<1> SUFFICES ASSUME TypeOK, Tables, [Next]_vars PROVE Tables'
  OBVIOUS
<1>0. TypeOK' /\ reg' \in [Tokens -> RegType]
  BY NextType, Typed DEF TypeOK, RegType, RegPcs
<1>1. ASSUME UNCHANGED <<storeVars, reg, issued, doubled>> PROVE Tables'
  BY <1>1, <1>0, TablesQuiet
<1>2. ASSUME NEW p \in PCs, RegisterFails(p) \/ Exit(p) PROVE Tables'
  BY <1>0, <1>2, Typed, RegForgets, TablesQuiet DEF RegisterFails, Exit
<1>3. ASSUME NEW p \in PCs, Registered(p) PROVE Tables'
  <2>1. PICK t \in Tokens : RegStep(t, "reply", "done") /\ UNCHANGED <<storeVars, issued, doubled>>
    BY <1>3 DEF Registered
  <2>2. /\ reg[t].pc = "reply" /\ reg'[t].pc = "done" /\ reg'[t].name = reg[t].name
        /\ \A u \in Tokens \ {t} : reg'[u] = reg[u]
    BY <2>1, Typed, RegStepEffect DEF RegPcs
  <2>3. reg[t] # NoReg
    BY <2>2 DEF NoReg
  <2> QED BY <1>0, <2>1, <2>2, <2>3, TablesQuiet
<1>4. CASE RelayRestart
  BY <1>4, Typed DEF RelayRestart, Tables, NoReg, Stored
<1>5. ASSUME NEW p \in PCs,
             \/ Start(p) \/ Refresh(p) \/ RefreshFails(p) \/ Client(p)
             \/ DialOk(p) \/ DialFails(p) \/ Authenticated(p) \/ Break(p) \/ Stop(p)
      PROVE  UNCHANGED <<storeVars, reg, issued, doubled>>
  BY <1>5 DEF Start, Refresh, RefreshFails, Client, LoopTop, AuthFails, SetConn, ReadFails, WaitOver,
              WaitStopped, StopConn, DialOk, DialFails, Authenticated, Break, Stop, regVars
<1>6. CASE UNCHANGED vars
  BY <1>1, <1>6 DEF vars, regVars
<1> QED BY <1>1, <1>2, <1>3, <1>4, <1>5, <1>6, TablesRegister, TablesGenerate DEF Next

-----------------------------------------------------------------------------
(* Who holds a token.                                                      *)

\* A step that brings nobody a configuration that nobody had.
LEMMA OwnedQuiet ==
  ASSUME TypeOK, Owned, issued' \in Nat, issued <= issued',
         \A t \in Tokens : t <= issued /\ reg[t].pc \in {"none", "done"} => reg'[t].pc \in {"none", "done"},
         \A p \in PCs, t \in Tokens : Holds(p, t)' => Holds(p, t)
  PROVE  Owned'
<1>1. issued \in Nat /\ \A t \in Tokens : t \in Nat
  BY Typed DEF Tokens
<1> QED BY <1>1 DEF Owned

LEMMA OwnedRegistered ==
  ASSUME TypeOK, Tables, Owned, NEW p \in PCs, Registered(p)
  PROVE  Owned'
<1>a. PICK t \in Tokens : \E c :
        /\ c = [name |-> reg[t].name, token |-> t] /\ RegStep(t, "reply", "done")
        /\ cfg' = [cfg EXCEPT ![p] = c]
        /\ file' \in {file, [file EXCEPT ![p] = c]}
        /\ issued' = issued
  BY DEF Registered
<1>1. PICK c :
        /\ c = [name |-> reg[t].name, token |-> t] /\ RegStep(t, "reply", "done")
        /\ cfg' = [cfg EXCEPT ![p] = c]
        /\ file' \in {file, [file EXCEPT ![p] = c]}
        /\ issued' = issued
  BY <1>a
<1>2. c.token = t
  BY <1>1
<1>3. /\ reg[t].pc = "reply" /\ reg'[t].pc = "done"
      /\ \A u \in Tokens \ {t} : reg'[u] = reg[u]
  BY <1>1, Typed, RegStepEffect DEF RegPcs
<1>4. t <= issued
  BY <1>3, Typed DEF Tables, NoReg, Tokens
<1>5. \A q \in PCs : ~Holds(q, t)
  BY <1>3 DEF Owned
<1>6. \A q \in PCs, u \in Tokens : Holds(q, u)' => Holds(q, u) \/ (q = p /\ u = t)
  BY <1>1, <1>2, Typed DEF Holds
<1> QED BY <1>1, <1>3, <1>4, <1>5, <1>6 DEF Owned

LEMMA OwnedNext == TypeOK /\ Tables /\ Owned /\ [Next]_vars => Owned'
<1> SUFFICES ASSUME TypeOK, Tables, Owned, [Next]_vars PROVE Owned'
  OBVIOUS
<1>0. issued \in Nat
  BY Typed
<1>1. ASSUME NEW t \in Tokens, Register(t) PROVE Owned'
  <2>1. /\ reg[t].pc \notin {"none", "done"} /\ \A u \in Tokens \ {t} : reg'[u] = reg[u]
        /\ UNCHANGED <<file, cfg, issued>>
    BY <1>1, Typed, RegStepEffect
       DEF Register, StoreRelay, StoreToken, StoreSubdomain, RegPcs, fileVars
  <2>2. \A p \in PCs, u \in Tokens : Holds(p, u)' => Holds(p, u)
    BY <2>1 DEF Holds
  <2> QED BY <1>0, <2>1, <2>2, OwnedQuiet
<1>2. ASSUME NEW p \in PCs, NEW n \in Names, Generate(p, n) PROVE Owned'
  <2>1. /\ issued' = issued + 1 /\ file' = file /\ cfg' = cfg
        /\ \A u \in Tokens : u # issued + 1 => reg'[u] = reg[u]
    BY <1>2, Typed DEF Generate, fileVars
  <2>2. \A u \in Tokens : u <= issued => reg'[u] = reg[u]
    BY <1>0, <2>1
  <2>3. \A q \in PCs, u \in Tokens : Holds(q, u)' => Holds(q, u)
    BY <2>1 DEF Holds
  <2> QED BY <1>0, <2>1, <2>2, <2>3, OwnedQuiet
<1>3. CASE RelayRestart
  <2>1. issued' = issued /\ file' = file /\ cfg' = cfg /\ \A t \in Tokens : reg'[t].pc = "none"
    BY <1>3 DEF RelayRestart, fileVars, NoReg
  <2>2. \A q \in PCs, u \in Tokens : Holds(q, u)' => Holds(q, u)
    BY <2>1 DEF Holds
  <2> QED BY <1>0, <2>1, <2>2, OwnedQuiet
<1>4. ASSUME NEW p \in PCs, Refresh(p) PROVE Owned'
  <2>1. /\ issued' = issued /\ reg' = reg /\ file' = file
        /\ cfg' \in {cfg, [cfg EXCEPT ![p] = file[p]]}
    BY <1>4 DEF Refresh, regVars
  <2>2. \A q \in PCs, u \in Tokens : Holds(q, u)' => Holds(q, u)
    BY <2>1, Typed DEF Holds
  <2> QED BY <1>0, <2>1, <2>2, OwnedQuiet
<1>5. ASSUME NEW p \in PCs, RegisterFails(p) \/ Exit(p) PROVE Owned'
  <2>1. /\ issued' = issued /\ file' = file
        /\ cfg' \in {cfg, [cfg EXCEPT ![p] = None]}
        /\ \A t \in Tokens : reg'[t].pc = reg[t].pc
    BY <1>5, Typed, RegForgets DEF RegisterFails, Exit, fileVars
  <2>2. \A q \in PCs, u \in Tokens : Holds(q, u)' => Holds(q, u)
    BY <2>1, Typed DEF Holds
  <2> QED BY <1>0, <2>1, <2>2, OwnedQuiet
<1>6. ASSUME UNCHANGED <<issued, reg, file, cfg>> PROVE Owned'
  <2>1. \A q \in PCs, u \in Tokens : Holds(q, u)' => Holds(q, u)
    BY <1>6 DEF Holds
  <2> QED BY <1>0, <1>6, <2>1, OwnedQuiet
<1>7. ASSUME NEW p \in PCs,
             \/ Start(p) \/ RefreshFails(p) \/ Client(p)
             \/ DialOk(p) \/ DialFails(p) \/ Authenticated(p) \/ Break(p) \/ Stop(p)
      PROVE  UNCHANGED <<issued, reg, file, cfg>>
  BY <1>7 DEF Start, RefreshFails, Client, LoopTop, AuthFails, SetConn, ReadFails, WaitOver,
              WaitStopped, StopConn, DialOk, DialFails, Authenticated, Break, Stop, regVars, fileVars
<1>8. CASE UNCHANGED vars
  BY <1>6, <1>8 DEF vars, regVars, fileVars
<1> QED BY <1>1, <1>2, <1>3, <1>4, <1>5, <1>6, <1>7, <1>8, OwnedRegistered DEF Next

-----------------------------------------------------------------------------
(* Who is connected, and who registers.                                    *)

\* A token that is held keeps its name at the relay, unless the relay restarts.
LEMMA HeldKeeps ==
  ASSUME TypeOK, Tables, Owned, [Next]_vars, NEW p \in PCs, NEW t \in Tokens, Holds(p, t)
  PROVE  tokens'[t] = tokens[t] \/ (RelayRestart /\ tokens'[t] = None)
<1>1. reg[t].pc \in {"none", "done"}
  BY DEF Owned
<1>2. CASE RelayRestart
  BY <1>2 DEF RelayRestart
<1>3. ASSUME NEW u \in Tokens, Register(u) PROVE tokens'[t] = tokens[t]
  <2>1. reg[u].pc \notin {"none", "done"} /\ tokens' \in {tokens, [tokens EXCEPT ![u] = reg[u].name]}
    BY <1>3 DEF Register, StoreRelay, StoreToken, StoreSubdomain, RegStep
  <2> QED BY <1>1, <2>1, Typed
<1>4. ASSUME UNCHANGED storeVars PROVE tokens'[t] = tokens[t]
  BY <1>4 DEF storeVars
<1>5. ASSUME NEW q \in PCs,
             \/ Start(q) \/ Refresh(q) \/ RefreshFails(q) \/ Registered(q) \/ RegisterFails(q)
             \/ Client(q) \/ DialOk(q) \/ DialFails(q) \/ Authenticated(q) \/ Break(q)
             \/ Stop(q) \/ Exit(q) \/ (\E n \in Names : Generate(q, n))
      PROVE  UNCHANGED storeVars
  BY <1>5 DEF Start, Refresh, RefreshFails, Registered, RegisterFails, Client, LoopTop, AuthFails, SetConn,
              ReadFails, WaitOver, WaitStopped, StopConn, DialOk, DialFails, Authenticated, Break, Stop,
              Exit, Generate
<1>6. UNCHANGED vars => UNCHANGED storeVars
  BY DEF vars
<1> QED BY <1>2, <1>3, <1>4, <1>5, <1>6 DEF Next

\* A client becomes connected by an answer of the relay, and stays so with the
\* same configuration, as long as the relay runs.
LEMMA ServedStep ==
  ASSUME TypeOK, [Next]_vars, NEW p \in PCs, Served(p)'
  PROVE  /\ cfg'[p] = cfg[p] /\ ~RelayRestart
         /\ Served(p) \/ (Admits(cfg[p]) /\ UNCHANGED storeVars)
         /\ cfg[p] # None
<1> USE DEF Go
<1>1. /\ run \in [PCs -> {"off", "refresh", "register", "registering", "failed", "ended"} \cup Looping]
      /\ link \in [PCs -> {"none", "open", "broken"}] /\ cfg \in [PCs -> Configs \cup {None}]
      /\ \A q \in PCs : run[q] \in Looping => cfg[q] # None
  BY DEF TypeOK
<1>2. CASE RelayRestart
  BY <1>1, <1>2 DEF RelayRestart, Served
<1>3. ASSUME NEW q \in PCs, Authenticated(q)
      PROVE  /\ cfg' = cfg /\ cfg[p] # None
             /\ Served(p) \/ (Admits(cfg[p]) /\ UNCHANGED storeVars)
  <2>1. /\ run[q] = "auth" /\ run' = [run EXCEPT ![q] = "authed"] /\ link' = link /\ cfg' = cfg
        /\ Admits(cfg[q]) /\ UNCHANGED storeVars
    BY <1>3 DEF Authenticated, linkVars, fileVars
  <2> QED BY <1>1, <2>1 DEF Served, Looping, Linked
<1>4. ASSUME NEW q \in PCs, SetConn(q) PROVE Served(p) /\ cfg' = cfg
  <2>1. run[q] = "authed" /\ run' = [run EXCEPT ![q] = "messages"] /\ link' = link /\ cfg' = cfg
    BY <1>4 DEF SetConn, fileVars
  <2> QED BY <1>1, <2>1 DEF Served
<1>5. ASSUME NEW q \in PCs, Exit(q) \/ Refresh(q) \/ Registered(q) PROVE Served(p) /\ cfg'[p] = cfg[p]
  <2>1. /\ run' \in {[run EXCEPT ![q] = l] : l \in {"off", "loop", "register"}}
        /\ link' \in {link, [link EXCEPT ![q] = "none"]}
        /\ cfg' = cfg \/ \E c : cfg' = [cfg EXCEPT ![q] = c]
    BY <1>5 DEF Exit, Refresh, Registered, linkVars
  <2>2. p # q
    BY <1>1, <2>1 DEF Served
  <2> QED BY <1>1, <2>1, <2>2 DEF Served
<1>6. ASSUME NEW q \in PCs, DialOk(q) PROVE Served(p) /\ cfg' = cfg
  <2>1. run' = [run EXCEPT ![q] = "auth"] /\ link' = [link EXCEPT ![q] = "open"] /\ cfg' = cfg
    BY <1>6 DEF DialOk, fileVars
  <2> QED BY <1>1, <2>1 DEF Served
<1>7. ASSUME /\ cfg' = cfg
             /\ run' = run \/ \E q \in PCs : \E l : l \notin {"authed", "messages"} /\ run' = [run EXCEPT ![q] = l]
             /\ link' = link \/ \E q \in PCs : \E l : l # "open" /\ link' = [link EXCEPT ![q] = l]
      PROVE  Served(p) /\ cfg' = cfg
  BY <1>1, <1>7 DEF Served
<1>8. ASSUME NEW q \in PCs,
             \/ Start(q) \/ RefreshFails(q) \/ RegisterFails(q) \/ LoopTop(q) \/ AuthFails(q) \/ ReadFails(q)
             \/ WaitOver(q) \/ WaitStopped(q) \/ StopConn(q) \/ DialFails(q) \/ Break(q)
             \/ Stop(q) \/ (\E n \in Names : Generate(q, n))
      PROVE  Served(p) /\ cfg' = cfg
  <2>1. cfg' = cfg
    BY <1>8 DEF Start, RefreshFails, RegisterFails, LoopTop, AuthFails, ReadFails, WaitOver, WaitStopped,
                StopConn, DialFails, Break, Stop, Generate, fileVars
  <2>2. run' = run \/ \E l : l \notin {"authed", "messages"} /\ run' = [run EXCEPT ![q] = l]
    BY <1>8 DEF Start, RefreshFails, RegisterFails, LoopTop, AuthFails, ReadFails, WaitOver, WaitStopped,
                StopConn, DialFails, Break, Stop, Generate
  <2>3. link' = link \/ \E l : l # "open" /\ link' = [link EXCEPT ![q] = l]
    BY <1>8 DEF Start, RefreshFails, RegisterFails, LoopTop, AuthFails, ReadFails, WaitOver, WaitStopped,
                StopConn, DialFails, Break, Stop, Generate, linkVars
  <2> QED BY <1>7, <2>1, <2>2, <2>3
<1>9. ASSUME NEW t \in Tokens, Register(t) PROVE Served(p) /\ cfg' = cfg
  BY <1>7, <1>9 DEF Register, StoreRelay, StoreToken, StoreSubdomain, fileVars, linkVars
<1>10. ASSUME UNCHANGED vars PROVE Served(p) /\ cfg' = cfg
  <2>1. cfg' = cfg /\ run' = run /\ link' = link
    BY <1>10 DEF vars, fileVars, linkVars
  <2> QED BY <1>7, <2>1
<1>11. Served(p) => cfg[p] # None
  BY <1>1 DEF Served, Looping, Linked
<1>12. RelayRestart \/ ~RelayRestart
  OBVIOUS
<1> QED BY <1>2, <1>3, <1>4, <1>5, <1>6, <1>8, <1>9, <1>10, <1>11, <1>12 DEF Next, Client

LEMMA AdmittedNext == TypeOK /\ Tables /\ Owned /\ Admitted /\ [Next]_vars => Admitted'
<1> SUFFICES ASSUME TypeOK, Tables, Owned, Admitted, [Next]_vars, NEW p \in PCs, Served(p)'
             PROVE  Admits(cfg[p])'
  BY DEF Admitted
<1>1. /\ cfg'[p] = cfg[p] /\ ~RelayRestart /\ cfg[p] \in Configs
      /\ Served(p) \/ (Admits(cfg[p]) /\ UNCHANGED storeVars)
  BY ServedStep, Typed
<1>2. cfg[p].token \in Tokens /\ Holds(p, cfg[p].token)
  BY <1>1, NoConfig DEF Configs, Holds
<1>3. tokens'[cfg[p].token] = tokens[cfg[p].token]
  BY <1>1, <1>2, HeldKeeps
<1> QED BY <1>1, <1>3 DEF Admitted, Admits

\* A client registers because it has no configuration, because the refresh was
\* refused, or because the refresh failed on its way.
LEMMA ExcusedStep ==
  ASSUME TypeOK, [Next]_vars, NEW p \in PCs, run'[p] \in {"register", "registering"}
  PROVE  /\ file'[p] = file[p]
         /\ \/ run[p] \in {"register", "registering"} /\ (p \in missed => p \in missed')
            \/ file[p] = None
            \/ p \in missed'
            \/ ~Accepts(file[p]) /\ UNCHANGED storeVars
<1> USE DEF Go
<1>1. run \in [PCs -> {"off", "refresh", "register", "registering", "failed", "ended"} \cup Looping]
      /\ file \in [PCs -> Configs \cup {None}]
  BY DEF TypeOK
<1>2. ASSUME NEW q \in PCs, Start(q)
      PROVE  /\ file' = file
             /\ \/ run[p] \in {"register", "registering"} /\ (p \in missed => p \in missed')
                \/ file[p] = None
  BY <1>1, <1>2 DEF Start
<1>3. ASSUME NEW q \in PCs, Refresh(q)
      PROVE  /\ file' = file /\ missed' = missed /\ UNCHANGED storeVars
             /\ run[p] \in {"register", "registering"} \/ ~Accepts(file[p])
  BY <1>1, <1>3 DEF Refresh
<1>4. ASSUME NEW q \in PCs, RefreshFails(q)
      PROVE  /\ file' = file
             /\ \/ run[p] \in {"register", "registering"} /\ (p \in missed => p \in missed')
                \/ p \in missed'
  BY <1>1, <1>4 DEF RefreshFails
<1>5. ASSUME NEW q \in PCs, Registered(q)
      PROVE  file'[p] = file[p] /\ missed' = missed /\ run[p] \in {"register", "registering"}
  <2>1. /\ run' = [run EXCEPT ![q] = "loop"] /\ missed' = missed
        /\ file' = file \/ \E c : file' = [file EXCEPT ![q] = c]
    BY <1>5 DEF Registered
  <2>2. p # q
    BY <1>1, <2>1
  <2> QED BY <1>1, <2>1, <2>2
<1>6. ASSUME /\ file' = file /\ missed' = missed
             /\ \/ run' = run
                \/ \E q \in PCs : \E l : l \notin {"register", "registering"} /\ run' = [run EXCEPT ![q] = l]
      PROVE  run[p] \in {"register", "registering"}
  BY <1>1, <1>6
<1>7. ASSUME NEW q \in PCs,
             \/ RegisterFails(q) \/ LoopTop(q) \/ AuthFails(q) \/ SetConn(q) \/ ReadFails(q)
             \/ WaitOver(q) \/ WaitStopped(q) \/ StopConn(q) \/ DialOk(q) \/ DialFails(q)
             \/ Authenticated(q) \/ Break(q) \/ Stop(q) \/ Exit(q)
      PROVE  /\ file' = file /\ missed' = missed
             /\ run' = run \/ \E l : l \notin {"register", "registering"} /\ run' = [run EXCEPT ![q] = l]
  BY <1>7 DEF RegisterFails, LoopTop, AuthFails, SetConn, ReadFails, WaitOver, WaitStopped, StopConn,
              DialOk, DialFails, Authenticated, Break, Stop, Exit, fileVars
<1>8. ASSUME NEW q \in PCs, NEW n \in Names, Generate(q, n)
      PROVE  file' = file /\ missed' = missed /\ run[p] \in {"register", "registering"}
  BY <1>1, <1>8 DEF Generate, fileVars
<1>9. ASSUME (\E t \in Tokens : Register(t)) \/ RelayRestart
      PROVE  file' = file /\ missed' = missed /\ run' = run
  BY <1>9 DEF Register, StoreRelay, StoreToken, StoreSubdomain, RelayRestart, fileVars
<1>10. UNCHANGED vars => file' = file /\ missed' = missed /\ run' = run
  BY DEF vars, fileVars
<1> QED BY <1>2, <1>3, <1>4, <1>5, <1>6, <1>7, <1>8, <1>9, <1>10 DEF Next, Client

LEMMA ExcusedNext == TypeOK /\ Tables /\ Owned /\ Excused /\ [Next]_vars => Excused'
<1> SUFFICES ASSUME TypeOK, Tables, Owned, Excused, [Next]_vars, NEW p \in PCs,
                    run'[p] \in {"register", "registering"}, file'[p] # None
             PROVE  p \in missed' \/ ~Accepts(file[p])'
  BY DEF Excused
<1>1. /\ file'[p] = file[p] /\ file[p] \in Configs
      /\ \/ p \in missed \/ p \in missed' \/ ~Accepts(file[p])
      /\ p \in missed => p \in missed' \/ ~Accepts(file[p])
  BY ExcusedStep, Typed DEF Excused
<1>2. file[p].token \in Tokens /\ Holds(p, file[p].token)
  BY <1>1, NoConfig DEF Configs, Holds
<1>3. tokens'[file[p].token] \in {tokens[file[p].token], None}
  BY <1>2, HeldKeeps
<1> QED BY <1>1, <1>3 DEF Accepts

-----------------------------------------------------------------------------
(* Stop.                                                                   *)

LEMMA StopNext == TypeOK /\ StopEndsLoop /\ [Next]_vars => StopEndsLoop'
<1> SUFFICES ASSUME TypeOK, StopEndsLoop, [Next]_vars PROVE StopEndsLoop'
  OBVIOUS
<1> USE DEF Go, StopEndsLoop
<1>1. /\ run \in [PCs -> {"off", "refresh", "register", "registering", "failed", "ended"} \cup Looping]
      /\ link \in [PCs -> {"none", "open", "broken"}] /\ stop \in [PCs -> {"no", "closed", "over"}]
      /\ conn = {p \in PCs : run[p] = "messages"}
      /\ \A p \in PCs : link[p] # "none" <=> run[p] \in Linked
  BY DEF TypeOK
<1>2. ASSUME NEW q \in PCs, LoopTop(q) PROVE StopEndsLoop'
  BY <1>1, <1>2 DEF LoopTop, linkVars, stopVars
<1>3. ASSUME NEW q \in PCs, DialOk(q) PROVE StopEndsLoop'
  BY <1>1, <1>3 DEF DialOk, stopVars
<1>4. ASSUME NEW q \in PCs, Authenticated(q) PROVE StopEndsLoop'
  BY <1>1, <1>4 DEF Authenticated, linkVars, stopVars
<1>5. ASSUME NEW q \in PCs, StopConn(q) PROVE StopEndsLoop'
  BY <1>1, <1>5 DEF StopConn, Linked
<1>6. ASSUME NEW q \in PCs, Exit(q) \/ Stop(q) PROVE StopEndsLoop'
  BY <1>1, <1>6 DEF Exit, Stop, linkVars
<1>7. ASSUME /\ stop' = stop /\ late' = late
             /\ \/ run' = run
                \/ \E q \in PCs : \E l : l \notin {"dial", "auth", "authed"} /\ run' = [run EXCEPT ![q] = l]
             /\ \A p \in PCs : link'[p] = "open" => link[p] = "open"
      PROVE  StopEndsLoop'
  BY <1>1, <1>7
<1>8. ASSUME NEW q \in PCs,
             \/ Start(q) \/ Refresh(q) \/ RefreshFails(q) \/ Registered(q) \/ RegisterFails(q)
             \/ AuthFails(q) \/ SetConn(q) \/ ReadFails(q) \/ WaitOver(q) \/ WaitStopped(q)
             \/ DialFails(q) \/ Break(q) \/ (\E n \in Names : Generate(q, n))
      PROVE  StopEndsLoop'
  <2>1. stop' = stop /\ late' = late
    BY <1>8 DEF Start, Refresh, RefreshFails, Registered, RegisterFails, AuthFails, SetConn, ReadFails,
                WaitOver, WaitStopped, DialFails, Break, Generate, stopVars
  <2>2. run' = run \/ \E l : l \notin {"dial", "auth", "authed"} /\ run' = [run EXCEPT ![q] = l]
    BY <1>8 DEF Start, Refresh, RefreshFails, Registered, RegisterFails, AuthFails, SetConn, ReadFails,
                WaitOver, WaitStopped, DialFails, Break, Generate
  <2>3. link' \in {link, [link EXCEPT ![q] = "none"], [link EXCEPT ![q] = "broken"]}
    BY <1>8 DEF Start, Refresh, RefreshFails, Registered, RegisterFails, AuthFails, SetConn, ReadFails,
                WaitOver, WaitStopped, DialFails, Break, Generate, linkVars
  <2>4. \A p \in PCs : link'[p] = "open" => link[p] = "open"
    BY <1>1, <2>3
  <2> QED BY <1>7, <2>1, <2>2, <2>4
<1>9. ASSUME NEW t \in Tokens, Register(t) PROVE StopEndsLoop'
  BY <1>7, <1>9 DEF Register, StoreRelay, StoreToken, StoreSubdomain, linkVars, stopVars
<1>10. CASE RelayRestart
  BY <1>1, <1>7, <1>10 DEF RelayRestart, stopVars
<1>11. CASE UNCHANGED vars
  <2>1. run' = run /\ link' = link /\ stop' = stop /\ late' = late
    BY <1>11 DEF vars, linkVars, stopVars
  <2> QED BY <1>7, <2>1
<1> QED BY <1>2, <1>3, <1>4, <1>5, <1>6, <1>8, <1>9, <1>10, <1>11 DEF Next, Client

-----------------------------------------------------------------------------
(* The theorems.                                                           *)

\* The invariant holds at the start and every step keeps it: registrations
\* that overlap, lost requests, restarts of the relay and of the PCs included.
THEOREM AccessInvariant == Spec => []IInv
<1>1. IInv /\ [Next]_vars => IInv'
  BY NextType, TablesNext, OwnedNext, AdmittedNext, ExcusedNext, StopNext DEF IInv
<1> QED BY InitInv, <1>1, PTL DEF Spec

\* The clients' and the relay's tables have their types; a client in its loop
\* has a configuration, and c.conn is set exactly in messageLoop (client.go:185-264).
THEOREM AccessTypes == Spec => []TypeOK
<1>1. IInv => TypeOK
  BY DEF IInv
<1> QED BY <1>1, AccessInvariant, PTL

\* A subdomain leads to one PC, the one whose token it was given with, unless
\* two registrations that overlapped chose it (connection.go:45-56, 119-128).
THEOREM OnePCPerName == Spec => []OneOwner
<1>1. IInv => OneOwner
  <2> SUFFICES ASSUME IInv PROVE OneOwner
    OBVIOUS
  <2> USE NoneFresh
  <2>1. ASSUME NEW t \in Tokens, NEW u \in Tokens, tokens[t] # None, tokens[t] = tokens[u], t # u
        PROVE  tokens[t] \in doubled
    <3>1. reg[t].pc \in Stored /\ reg[u].pc \in Stored /\ reg[t].name = reg[u].name /\ tokens[t] = reg[t].name
      BY <2>1 DEF IInv, Tables
    <3> QED BY <2>1, <3>1 DEF IInv, Tables, Stored
  <2>2. ASSUME NEW p \in PCs, Served(p), cfg[p].name \notin doubled
        PROVE  relays[cfg[p].name] = cfg[p].token /\ cfg[p].token \in Tokens /\ Holds(p, cfg[p].token)
    <3>1. /\ cfg[p] \in Configs /\ cfg[p] # None /\ tokens[cfg[p].token] = cfg[p].name
      BY <2>2 DEF IInv, TypeOK, Admitted, Admits, Served, Looping, Linked
    <3>2. cfg[p].token \in Tokens /\ cfg[p].name \in Names /\ Holds(p, cfg[p].token)
      BY <3>1 DEF Configs, Holds
    <3>3. reg[cfg[p].token].pc \in Stored /\ reg[cfg[p].token].name = cfg[p].name
      BY <3>1, <3>2 DEF IInv, Tables
    <3> QED BY <2>2, <3>2, <3>3 DEF IInv, Tables
  <2>3. ASSUME NEW p \in PCs, Served(p), cfg[p].name \notin doubled, NEW q \in PCs \ {p}, Served(q)
        PROVE  cfg[q].name # cfg[p].name
    <3> SUFFICES ASSUME cfg[q].name = cfg[p].name PROVE FALSE
      OBVIOUS
    <3>1. cfg[p].token = cfg[q].token /\ Holds(p, cfg[p].token) /\ Holds(q, cfg[q].token) /\ cfg[p].token \in Tokens
      BY <2>2, <2>3
    <3> QED BY <3>1 DEF IInv, Owned
  <2> QED BY <2>1, <2>2, <2>3 DEF OneOwner
<1> QED BY <1>1, AccessInvariant, PTL

\* A client that was stopped has no connection and makes none, unless Stop
\* came while connect was on its way (client.go:86-93, 185-210, 243-245).
THEOREM StopIsFinal == Spec => []StopEndsLoop
<1>1. IInv => StopEndsLoop
  BY DEF IInv
<1> QED BY <1>1, AccessInvariant, PTL

\* A saved configuration that the relay would still accept is replaced only
\* after a refresh that failed on its way (client.go:119-133).
THEOREM AddressIsKept == Spec => KeepsItsName
<1>1. IInv /\ [Next]_vars =>
        [\A p \in PCs : file[p] # None /\ file'[p] # file[p] => p \in missed \/ ~Accepts(file[p])]_vars
  <2> SUFFICES ASSUME IInv, Next, NEW p \in PCs, file[p] # None, file'[p] # file[p]
               PROVE  p \in missed \/ ~Accepts(file[p])
    OBVIOUS
  <2>1. ASSUME NEW q \in PCs, Registered(q) PROVE run[q] = "registering" /\ q = p
    BY <2>1 DEF Registered, Go, IInv, TypeOK
  <2>2. ASSUME NEW q \in PCs,
               \/ Start(q) \/ Refresh(q) \/ RefreshFails(q) \/ RegisterFails(q) \/ Client(q)
               \/ DialOk(q) \/ DialFails(q) \/ Authenticated(q) \/ Break(q)
               \/ Stop(q) \/ Exit(q) \/ (\E n \in Names : Generate(q, n))
        PROVE  file' = file
    BY <2>2 DEF Start, Refresh, RefreshFails, RegisterFails, Client, LoopTop, AuthFails, SetConn,
                ReadFails, WaitOver, WaitStopped, StopConn, DialOk, DialFails, Authenticated, Break, Stop,
                Exit, Generate, fileVars
  <2>3. (\E t \in Tokens : Register(t)) \/ RelayRestart => file' = file
    BY DEF Register, StoreRelay, StoreToken, StoreSubdomain, RelayRestart, fileVars
  <2> QED BY <2>1, <2>2, <2>3 DEF Next, IInv, Excused
<1> QED BY <1>1, AccessInvariant, PTL DEF Spec, KeepsItsName
=============================================================================
