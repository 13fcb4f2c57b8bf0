-------------------------- MODULE RelayServerProofs --------------------------
(***************************************************************************)
(* The relay server for any numbers of connections, clients and messages:  *)
(* the registration of a PC's connections, who is told of a client that    *)
(* leaves, and the order of messages both ways.                            *)
(***************************************************************************)
EXTENDS RelayServer, SequenceTheorems, TLAPS

Labels == {"new", "auth", "known", "set", "loop", "clear", "delete", "done"}

\* What the registration works on.
registration == <<relay, conn, mux, overlapped>>

RegistrationType ==
  /\ relay \in [Links -> Labels]
  /\ conn \in Links \cup {None} /\ mux \in Links \cup {None}
  /\ overlapped \in SUBSET Links

\* Two handlers at work together are both known to have overlapped.
Together == \A k, l \in Authenticated : k # l => k \in overlapped /\ l \in overlapped

\* The inductive invariant of the registration.
IInv == RegistrationType /\ Together /\ NothingOutlivesItsHandler /\ LoneLinkIsInForce

USE DEF Labels, Added
-----------------------------------------------------------------------------
(* The registration.                                                       *)

LEMMA InitRegistered == Init => IInv
  BY NoneIsFresh
  DEF Init, IInv, RegistrationType, Together, Authenticated, NothingOutlivesItsHandler, LoneLinkIsInForce

\* A step that leaves the registration alone.
LEMMA RestRegistered == IInv /\ UNCHANGED registration => IInv'
  BY DEF registration, IInv, RegistrationType, Together, Authenticated, NothingOutlivesItsHandler,
         LoneLinkIsInForce

\* The steps of the clients' handlers and those of the two ends do.
LEMMA ClientsRest ==
  ASSUME NEW c \in Clients,
         Arrive(c) \/ ClientSends(c) \/ ClientStep(c) \/ \E l \in Links : PCSends(l, c)
  PROVE  UNCHANGED registration
  BY DEF Arrive, ClientSends, ClientStep, PCSends, CheckRelay, GetMux, AddClient,
         ReadMessage, ClientReadFails, LoadConn, WriteConn, RemoveClient, registration, sharedVars

\* The steps of a PC connection's handler.
LEMMA RelayRegistered ==
  ASSUME IInv, NEW l \in Links,
         \/ Dial(l) \/ Authenticate(l) \/ SetConn(l) \/ StoreMux(l)
         \/ ReadFails(l) \/ ClearConn(l) \/ DeleteMux(l)
  PROVE  IInv'
<1> USE NoneIsFresh DEF IInv, RegistrationType, Together, Authenticated, NothingOutlivesItsHandler,
        LoneLinkIsInForce, Step, sharedVars
<1>1. CASE Dial(l)
  BY <1>1 DEF Dial
<1>2. CASE Authenticate(l)
  BY <1>2 DEF Authenticate
<1>3. CASE SetConn(l)
  BY <1>3 DEF SetConn
<1>4. CASE StoreMux(l)
  BY <1>4 DEF StoreMux
<1>5. CASE ReadFails(l)
  BY <1>5 DEF ReadFails
<1>6. CASE ClearConn(l)
  BY <1>6 DEF ClearConn
<1>7. CASE DeleteMux(l)
  BY <1>7 DEF DeleteMux
<1> QED
  BY <1>1, <1>2, <1>3, <1>4, <1>5, <1>6, <1>7

LEMMA NextRegistered == IInv /\ [Next]_vars => IInv'
<1> SUFFICES ASSUME IInv, [Next]_vars PROVE IInv'
  OBVIOUS
<1>1. ASSUME NEW l \in Links, Dial(l) \/ RelayStep(l) PROVE IInv'
  <2>1. CASE Route(l)
    BY <2>1, RestRegistered DEF Route, registration, sharedVars
  <2> QED
    BY <1>1, <2>1, RelayRegistered DEF RelayStep
<1>2. ASSUME NEW x \in Links \cup Clients, Break(x) PROVE IInv'
  BY <1>2, RestRegistered DEF Break, registration, sharedVars
<1>3. ASSUME NEW c \in Clients,
             Arrive(c) \/ ClientSends(c) \/ ClientStep(c) \/ \E l \in Links : PCSends(l, c)
      PROVE  IInv'
  BY <1>3, ClientsRest, RestRegistered
<1>4. CASE UNCHANGED vars
  BY <1>4, RestRegistered DEF vars, registration, sharedVars
<1> QED
  BY <1>1, <1>2, <1>3, <1>4 DEF Next

-----------------------------------------------------------------------------
(* Types.                                                                  *)

HandlerLabels == {"new", "checked", "accepted", "load", "write", "loop", "remove", "done"}

LEMMA NumbersNat == Connected \in Numbers /\ Disconnected \in Numbers /\ 1 .. MaxMsgs \subseteq Numbers
  BY BoundsOK DEF Connected, Disconnected, Numbers

LEMMA InitType == Init => TypeOK
  BY NumbersNat, BoundsOK DEF Init, TypeOK

\* A PC connection's steps, then a client's, then any.
LEMMA RelayType ==
  ASSUME TypeOK, NEW l \in Links, Dial(l) \/ RelayStep(l)
  PROVE  TypeOK'
<1> USE DEF TypeOK, Step, sharedVars, pcVars, clientVars, countVars
<1>1. CASE Dial(l)
  BY <1>1 DEF Dial
<1>2. CASE Authenticate(l)
  BY <1>2 DEF Authenticate, Authenticated
<1>3. CASE SetConn(l)
  BY <1>3 DEF SetConn
<1>4. CASE StoreMux(l)
  BY <1>4 DEF StoreMux
<1>5. CASE Route(l)
  <2>1. down[l] \in Seq(Replies) /\ down[l] # <<>>
    BY <1>5 DEF Route
  <2>2. Head(down[l]) \in Replies /\ Tail(down[l]) \in Seq(Replies)
    BY <2>1
  <2>3. Head(down[l]).of \in Clients /\ Head(down[l]).kind \in 1 .. MaxReplies
    BY <2>2 DEF Replies
  <2>4. inbox' \in [Clients -> Seq(1 .. MaxReplies)]
    BY <1>5, <2>3 DEF Route
  <2>5. down' \in [Links -> Seq(Replies)]
    BY <1>5, <2>2 DEF Route
  <2> QED
    BY <1>5, <2>4, <2>5 DEF Route
<1>6. CASE ReadFails(l)
  BY <1>6 DEF ReadFails
<1>7. CASE ClearConn(l)
  BY <1>7 DEF ClearConn
<1>8. CASE DeleteMux(l)
  BY <1>8 DEF DeleteMux
<1> QED
  BY <1>1, <1>2, <1>3, <1>4, <1>5, <1>6, <1>7, <1>8 DEF RelayStep

HandlerType == [Clients -> [pc : HandlerLabels, env : Numbers, seen : Links \cup {None}]]

LEMMA GotoType ==
  ASSUME TypeOK, NEW c \in Clients, NEW label \in HandlerLabels, Goto(c, label)
  PROVE  handler' \in HandlerType
  BY DEF TypeOK, Goto, HandlerType, HandlerLabels

LEMMA ForwardType ==
  ASSUME TypeOK, NEW c \in Clients, NEW k \in Numbers, Forward(c, k)
  PROVE  handler' \in HandlerType
  BY DEF TypeOK, Forward, HandlerType, HandlerLabels

LEMMA WireType ==
  ASSUME TypeOK, NEW x \in Links \cup Clients, NEW state \in {"new", "open", "gone"},
         wire' = [wire EXCEPT ![x] = state]
  PROVE  wire' \in [Links \cup Clients -> {"new", "open", "gone"}]
  BY DEF TypeOK

LEMMA RefuseType ==
  ASSUME TypeOK, NEW c \in Clients, Refuse(c)
  PROVE  /\ handler' \in HandlerType
         /\ wire' \in [Links \cup Clients -> {"new", "open", "gone"}]
<1>1. "done" \in HandlerLabels
  BY DEF HandlerLabels
<1> QED
  BY <1>1, GotoType, WireType DEF Refuse

\* A handler's move keeps the table of clients in step.
EntriesOK == clients = {k \in Clients : handler[k].pc \in Added}

LEMMA EntriesMove ==
  ASSUME EntriesOK, handler \in HandlerType, NEW c \in Clients, NEW r, NEW label,
         r.pc = label, handler' = [handler EXCEPT ![c] = r],
         clients' = IF label \in Added THEN clients \cup {c} ELSE clients \ {c}
  PROVE  EntriesOK'
<1>1. \A k \in Clients : handler'[k].pc = IF k = c THEN label ELSE handler[k].pc
  BY DEF HandlerType
<1> QED
  BY <1>1 DEF EntriesOK

LEMMA EntriesGoto ==
  ASSUME EntriesOK, handler \in HandlerType, NEW c \in Clients, NEW label, Goto(c, label),
         clients' = IF label \in Added THEN clients \cup {c} ELSE clients \ {c}
  PROVE  EntriesOK'
<1> DEFINE r == [handler[c] EXCEPT !.pc = label]
<1>1. r.pc = label /\ handler' = [handler EXCEPT ![c] = r]
  BY DEF HandlerType, Goto
<1> QED
  BY <1>1, EntriesMove

LEMMA EntriesForward ==
  ASSUME EntriesOK, handler \in HandlerType, NEW c \in Clients, NEW k, Forward(c, k),
         clients' = clients \cup {c}
  PROVE  EntriesOK'
<1> DEFINE r == [pc |-> "load", env |-> k, seen |-> None]
<1>1. r.pc = "load" /\ "load" \in Added /\ handler' = [handler EXCEPT ![c] = r]
  BY DEF Forward
<1> QED
  BY <1>1, EntriesMove

LEMMA ClientType ==
  ASSUME TypeOK, NEW c \in Clients, Arrive(c) \/ ClientSends(c) \/ ClientStep(c)
  PROVE  TypeOK'
<1> DEFINE HandlerOK == handler' \in HandlerType
           WireOK    == wire' \in [Links \cup Clients -> {"new", "open", "gone"}]
<1> USE DEF sharedVars, pcVars, clientVars, countVars
<1>0. handler \in HandlerType /\ wire \in [Links \cup Clients -> {"new", "open", "gone"}]
  BY DEF TypeOK, HandlerType, HandlerLabels
<1>e. EntriesOK /\ \A k \in Clients : k \in clients <=> handler[k].pc \in Added
  BY DEF TypeOK, EntriesOK
<1>a. ASSUME HandlerOK, WireOK, EntriesOK',
             UNCHANGED <<conn, mux, relay, pcVars, clientVars, countVars, overlapped>>
      PROVE  TypeOK'
  BY <1>a DEF TypeOK, EntriesOK, HandlerType, HandlerLabels
<1>b. \A label \in HandlerLabels : Goto(c, label) => HandlerOK
  BY GotoType
<1>1. CASE Arrive(c)
  BY <1>1, <1>0, <1>a, WireType DEF Arrive, TypeOK
<1>2. CASE ClientSends(c)
  <2>1. sent[c] + 1 \in 1 .. MaxMsgs /\ sent[c] + 1 \in 0 .. MaxMsgs
    BY <1>2, BoundsOK DEF ClientSends, TypeOK
  <2>2. up' \in [Clients -> Seq(1 .. MaxMsgs)]
    BY <1>2, <2>1 DEF ClientSends, TypeOK
  <2>3. sent' \in [Clients -> 0 .. MaxMsgs]
    BY <1>2, <2>1 DEF ClientSends, TypeOK
  <2> QED
    BY <1>2, <2>2, <2>3 DEF ClientSends, TypeOK
<1>3. CASE CheckRelay(c)
  <2>1. EntriesOK'
    BY <1>3, <1>0, <1>e, EntriesGoto DEF CheckRelay, Refuse, At
  <2> QED
    BY <1>3, <2>1, <1>0, <1>a, <1>b, RefuseType DEF CheckRelay, HandlerLabels
<1>4. CASE GetMux(c)
  <2>1. EntriesOK'
    BY <1>4, <1>0, <1>e, EntriesGoto DEF GetMux, Refuse, At
  <2> QED
    BY <1>4, <2>1, <1>0, <1>a, <1>b, RefuseType DEF GetMux, HandlerLabels
<1>5. CASE AddClient(c)
  <2>1. HandlerOK /\ WireOK
    BY <1>5, <1>0, RefuseType, ForwardType, NumbersNat DEF AddClient
  <2>2. EntriesOK'
    BY <1>5, <1>0, <1>e, EntriesGoto, EntriesForward DEF AddClient, Refuse, At
  <2> QED
    BY <1>5, <2>1, <2>2, <1>a DEF AddClient
<1>6. CASE ReadMessage(c)
  <2>0. up[c] \in Seq(1 .. MaxMsgs) /\ up[c] # <<>>
    BY <1>6 DEF ReadMessage, TypeOK
  <2> DEFINE M == 1 .. MaxMsgs
  <2>a. M \subseteq Numbers /\ up[c] \in Seq(M)
    BY <2>0, NumbersNat
  <2> HIDE DEF M
  <2>b. Head(up[c]) \in M /\ Tail(up[c]) \in Seq(M)
    BY <2>0, <2>a
  <2>1. Head(up[c]) \in Numbers /\ Tail(up[c]) \in Seq(1 .. MaxMsgs)
    BY <2>a, <2>b DEF M
  <2>2. HandlerOK
    BY <1>6, <2>1, ForwardType DEF ReadMessage
  <2>3. up' \in [Clients -> Seq(1 .. MaxMsgs)]
    BY <1>6, <2>1 DEF ReadMessage, TypeOK
  <2>4. clients' = clients \cup {c} /\ Forward(c, Head(up[c]))
    BY <1>6, <1>e DEF ReadMessage, At
  <2>5. EntriesOK'
    BY <2>4, <1>0, <1>e, EntriesForward
  <2> QED
    BY <1>6, <2>2, <2>3, <2>5 DEF ReadMessage, TypeOK, EntriesOK, HandlerType, HandlerLabels
<1>7. CASE ClientReadFails(c)
  <2>1. clients' = clients \cup {c} /\ Forward(c, Disconnected)
    BY <1>7, <1>e DEF ClientReadFails, At
  <2>2. EntriesOK'
    BY <2>1, <1>0, <1>e, EntriesForward
  <2> QED
    BY <1>7, <2>1, <2>2, <1>0, <1>a, ForwardType, NumbersNat DEF ClientReadFails
<1>8. CASE LoadConn(c)
  <2> DEFINE label == IF conn = None THEN After(c) ELSE "write"
             new   == [pc |-> label, env |-> handler[c].env, seen |-> conn]
  <2>a. handler[c].env \in Numbers /\ conn \in Links \cup {None} /\ label \in HandlerLabels
    BY <1>0 DEF TypeOK, HandlerType, HandlerLabels, After
  <2>b. new \in [pc : HandlerLabels, env : Numbers, seen : Links \cup {None}]
    BY <2>a
  <2>c. handler' = [handler EXCEPT ![c] = new]
    BY <1>8 DEF LoadConn
  <2> HIDE DEF new
  <2>1. handler' \in HandlerType
    BY <2>b, <2>c, <1>0 DEF HandlerType
  <2>2. new.pc = label /\ label \in Added /\ clients' = clients \cup {c}
    BY <1>8, <1>e DEF new, After, LoadConn, At
  <2>3. EntriesOK'
    BY <2>2, <2>c, <1>0, <1>e, EntriesMove
  <2> QED
    BY <1>8, <2>1, <2>3, <1>0, <1>a DEF LoadConn
<1>9. CASE WriteConn(c)
  <2>1. PICK l \in {handler[c].seen, conn} :
          /\ toPC' = IF l # None /\ wire[l] = "open"
                       THEN [toPC EXCEPT ![l] = Append(@, Envelope(c, handler[c].env))] ELSE toPC
          /\ Goto(c, IF l = None THEN "remove" ELSE After(c))
    BY <1>9 DEF WriteConn
  <2>2. Envelope(c, handler[c].env) \in [of : Clients, kind : Numbers]
    BY <1>0 DEF Envelope, HandlerType
  <2> DEFINE E == [of : Clients, kind : Numbers]
             e == Envelope(c, handler[c].env)
  <2>a. toPC \in [Links -> Seq(E)] /\ e \in E /\ (l # None => l \in Links)
    BY <2>2, <1>0 DEF TypeOK, HandlerType
  <2> HIDE DEF E, e
  <2>b. \A k \in Links : Append(toPC[k], e) \in Seq(E)
    BY <2>a
  <2>c. toPC' = IF l # None /\ wire[l] = "open" THEN [toPC EXCEPT ![l] = Append(@, e)] ELSE toPC
    BY <2>1 DEF e
  <2>3. toPC' \in [Links -> Seq([of : Clients, kind : Numbers])]
    BY <2>a, <2>b, <2>c DEF E
  <2>4. HandlerOK
    BY <2>1, <1>b DEF After, HandlerLabels
  <2>5. clients' = clients \cup {c} /\ After(c) \in Added /\ "remove" \in Added
    BY <1>9, <1>e DEF WriteConn, After, At
  <2>6. EntriesOK'
    BY <2>1, <2>5, <1>0, <1>e, EntriesGoto
  <2> QED
    BY <1>9, <2>3, <2>4, <2>6 DEF WriteConn, TypeOK, EntriesOK, HandlerType, HandlerLabels
<1>10. CASE RemoveClient(c)
  <2>1. EntriesOK'
    BY <1>10, <1>0, <1>e, EntriesGoto DEF RemoveClient, Refuse
  <2> QED
    BY <1>10, <2>1, <1>a, RefuseType DEF RemoveClient
<1> QED
  BY <1>1, <1>2, <1>3, <1>4, <1>5, <1>6, <1>7, <1>8, <1>9, <1>10 DEF ClientStep

LEMMA NextType == TypeOK /\ [Next]_vars => TypeOK'
<1> SUFFICES ASSUME TypeOK, [Next]_vars PROVE TypeOK'
  OBVIOUS
<1> USE DEF TypeOK, sharedVars, pcVars, clientVars, countVars
<1>1. ASSUME NEW x \in Links \cup Clients, Break(x) PROVE TypeOK'
  BY <1>1 DEF Break
<1>2. ASSUME NEW l \in Links, NEW c \in Clients, PCSends(l, c) PROVE TypeOK'
  <2>0. replied[c] \in 0 .. MaxReplies /\ replied[c] < MaxReplies
    BY <1>2 DEF PCSends
  <2>1. replied[c] + 1 \in 1 .. MaxReplies /\ replied[c] + 1 \in 0 .. MaxReplies
    BY <2>0, BoundsOK
  <2>2. Envelope(c, replied[c] + 1) \in Replies
    BY <2>1 DEF Envelope, Replies
  <2>3. replied' \in [Clients -> 0 .. MaxReplies]
    BY <1>2, <2>1 DEF PCSends
  <2>4. down' \in [Links -> Seq(Replies)]
    BY <1>2, <2>2 DEF PCSends
  <2> QED
    BY <1>2, <2>3, <2>4 DEF PCSends
<1>3. CASE UNCHANGED vars
  BY <1>3 DEF vars
<1> QED
  BY <1>1, <1>2, <1>3, RelayType, ClientType DEF Next
-----------------------------------------------------------------------------
(* Sequences, by their indices.                                            *)

\* Append keeps what is there and adds one element at the end.
LEMMA AppendAt ==
  ASSUME NEW T, NEW q \in Seq(T), NEW e \in T
  PROVE  /\ Append(q, e) \in Seq(T) /\ Append(q, e) # <<>>
         /\ Len(q) \in Nat /\ DOMAIN q = 1 .. Len(q)
         /\ DOMAIN Append(q, e) = 1 .. Len(q) + 1 /\ Len(Append(q, e)) = Len(q) + 1
         /\ \A i \in DOMAIN q : Append(q, e)[i] = q[i]
         /\ Append(q, e)[Len(q) + 1] = e
<1>1. Len(q) \in Nat /\ DOMAIN q = 1 .. Len(q)
  OBVIOUS
<1>2. Append(q, e) \in Seq(T) /\ Append(q, e) # <<>> /\ Len(Append(q, e)) = Len(q) + 1
  BY AppendProperties
<1>3. DOMAIN Append(q, e) = 1 .. Len(Append(q, e))
  BY <1>2
<1>4. (\A i \in 1 .. Len(q) : Append(q, e)[i] = q[i]) /\ Append(q, e)[Len(q) + 1] = e
  BY AppendProperties
<1> QED
  BY <1>1, <1>2, <1>3, <1>4

\* Tail moves every element down by one.
LEMMA TailAt ==
  ASSUME NEW T, NEW q \in Seq(T), q # <<>>
  PROVE  /\ Tail(q) \in Seq(T) /\ Len(q) \in Nat \ {0} /\ Len(Tail(q)) = Len(q) - 1
         /\ DOMAIN q = 1 .. Len(q) /\ DOMAIN Tail(q) = 1 .. Len(q) - 1
         /\ Head(q) \in T /\ Head(q) = q[1] /\ 1 \in DOMAIN q
         /\ \A i \in DOMAIN Tail(q) : i + 1 \in DOMAIN q /\ Tail(q)[i] = q[i + 1]
         /\ \A i \in DOMAIN q : i # 1 => i - 1 \in DOMAIN Tail(q) /\ Tail(q)[i - 1] = q[i]
<1>1. Len(q) \in Nat \ {0} /\ DOMAIN q = 1 .. Len(q) /\ Head(q) = q[1]
  OBVIOUS
<1>2. /\ Head(q) \in T /\ Tail(q) \in Seq(T) /\ Len(Tail(q)) = Len(q) - 1
        /\ \A i \in 1 .. Len(Tail(q)) : Tail(q)[i] = q[i + 1]
  BY HeadTailProperties
<1>3. DOMAIN Tail(q) = 1 .. Len(Tail(q))
  BY <1>2
<1> QED
  BY <1>1, <1>2, <1>3


\* The elements of a sequence are in its set.
LEMMA ElementAt ==
  ASSUME NEW T, NEW q \in Seq(T), NEW i \in DOMAIN q
  PROVE  q[i] \in T
  BY ElementOfSeq

-----------------------------------------------------------------------------
(* DepartureIsTold.  On a connection that lasts and that no other one      *)
(* overlapped, Conn is that connection from the moment the PC can have     *)
(* heard of a client: no envelope misses it.                               *)

Heard(c, k, l) == Envelope(c, k) \in Range(toPC[l])
Known(l)       == relay[l] \notin {"new", "auth", "known"}
Lasting(l)     == l \notin overlapped /\ wire[l] = "open"
Early          == {"new", "checked", "accepted"}

\* Who has envelopes or was seen as Conn has been registered; who is past its
\* loop is gone.
LinksKnown ==
  /\ \A l \in Links : toPC[l] # <<>> => Known(l)
  /\ \A c \in Clients : handler[c].seen # None => Known(handler[c].seen)
  /\ \A l \in Links : relay[l] \in {"clear", "delete", "done"} => wire[l] = "gone"

\* Where a client's handler is, given what the PC has heard.
ClientsHeard ==
  \A c \in Clients :
    /\ handler[c].pc = "write" => handler[c].seen # None
    /\ \A l \in Links :
         /\ handler[c].pc \in Early => ~ Heard(c, Connected, l)
         /\ Lasting(l) /\ Heard(c, Connected, l) =>
              /\ handler[c].pc = "write" /\ handler[c].env = Disconnected => handler[c].seen = l
              /\ handler[c].pc \in {"remove", "done"} => Heard(c, Disconnected, l)

DInv == TypeOK /\ IInv /\ LinksKnown /\ ClientsHeard

LEMMA HandlerTyped ==
  ASSUME TypeOK
  PROVE  handler \in HandlerType
  BY DEF TypeOK, HandlerType, HandlerLabels

LEMMA HeardKnown ==
  ASSUME DInv, NEW c \in Clients, NEW l \in Links, Lasting(l), Heard(c, Connected, l)
  PROVE  conn = l /\ relay[l] \in {"set", "loop"}
<1>1. toPC[l] # <<>>
  BY DEF Heard, Range, DInv, TypeOK
<1>2. Known(l) /\ relay[l] \notin {"clear", "delete", "done"}
  BY <1>1 DEF DInv, LinksKnown, Lasting
<1>3. relay[l] \in {"set", "loop"}
  BY <1>2 DEF Known, DInv, TypeOK
<1> QED
  BY <1>3 DEF DInv, IInv, LoneLinkIsInForce, Lasting

LEMMA InitHeard == Init => LinksKnown /\ ClientsHeard
<1> SUFFICES ASSUME Init PROVE LinksKnown /\ ClientsHeard
  OBVIOUS
<1>1. \A l \in Links : toPC[l] = <<>> /\ relay[l] = "new"
  BY DEF Init
<1>2. \A c \in Clients : handler[c].pc = "new" /\ handler[c].seen = None
  BY DEF Init
<1>3. \A c \in Clients, l \in Links : ~ Heard(c, Connected, l)
  BY <1>1 DEF Heard, Range
<1> QED
  BY <1>1, <1>2, <1>3 DEF LinksKnown, ClientsHeard

\* A step of a PC connection's handler, or of a wire.
LEMMA RelayHeard ==
  ASSUME DInv, UNCHANGED <<handler, toPC>>, overlapped \subseteq overlapped',
         \A l \in Links : Known(l) => Known(l)',
         \A l \in Links : relay'[l] \in {"clear", "delete", "done"} => wire'[l] = "gone",
         \A l \in Links : wire'[l] = "open" => wire[l] = "open" \/ toPC[l] = <<>>
  PROVE  LinksKnown' /\ ClientsHeard'
<1>1. \A c \in Clients : handler[c].seen # None => handler[c].seen \in Links
  BY HandlerTyped DEF DInv, HandlerType
<1>2. LinksKnown'
  BY <1>1 DEF DInv, LinksKnown
<1>3. \A c \in Clients, l \in Links, k \in {Connected, Disconnected} : Heard(c, k, l)' <=> Heard(c, k, l)
  BY DEF Heard
<1>4. \A c \in Clients, l \in Links : Heard(c, Connected, l) => toPC[l] # <<>>
  BY DEF Heard, Range, DInv, TypeOK
<1>5. \A c \in Clients, l \in Links : Heard(c, Connected, l) /\ Lasting(l)' => Lasting(l)
  BY <1>4 DEF Lasting
<1> QED
  BY <1>2, <1>3, <1>5 DEF DInv, ClientsHeard

LEMMA LinkStepHeard ==
  ASSUME DInv, NEW l \in Links, Dial(l) \/ RelayStep(l)
  PROVE  LinksKnown' /\ ClientsHeard'
<1> USE DEF DInv, TypeOK, Known, Step, sharedVars, pcVars, clientVars, countVars
<1>1. CASE Dial(l)
  <2>1. relay[l] = "new" /\ toPC[l] = <<>>
    BY <1>1 DEF Dial, LinksKnown
  <2> QED
    BY <1>1, <2>1, RelayHeard DEF Dial, LinksKnown
<1>2. CASE Authenticate(l)
  BY <1>2, RelayHeard DEF Authenticate, LinksKnown
<1>3. CASE SetConn(l)
  BY <1>3, RelayHeard DEF SetConn, LinksKnown
<1>4. CASE StoreMux(l)
  BY <1>4, RelayHeard DEF StoreMux, LinksKnown
<1>5. CASE Route(l)
  BY <1>5, RelayHeard DEF Route, LinksKnown
<1>6. CASE ReadFails(l)
  BY <1>6, RelayHeard DEF ReadFails, LinksKnown
<1>7. CASE ClearConn(l)
  BY <1>7, RelayHeard DEF ClearConn, LinksKnown
<1>8. CASE DeleteMux(l)
  BY <1>8, RelayHeard DEF DeleteMux, LinksKnown
<1> QED
  BY <1>1, <1>2, <1>3, <1>4, <1>5, <1>6, <1>7, <1>8 DEF RelayStep

\* A step of a client's handler that writes nothing.
LEMMA HandlerHeard ==
  ASSUME DInv, NEW c \in Clients, handler' \in HandlerType,
         \A k \in Clients \ {c} : handler'[k] = handler[k],
         UNCHANGED <<relay, toPC, overlapped>>, \A l \in Links : wire'[l] = wire[l],
         handler'[c].seen # None => Known(handler'[c].seen),
         handler'[c].pc = "write" => handler'[c].seen # None,
         handler'[c].pc \in Early => handler[c].pc \in Early,
         \A l \in Links : Lasting(l) /\ Heard(c, Connected, l) =>
           /\ handler'[c].pc = "write" /\ handler'[c].env = Disconnected => handler'[c].seen = l
           /\ handler'[c].pc \in {"remove", "done"} => Heard(c, Disconnected, l)
  PROVE  LinksKnown' /\ ClientsHeard'
<1>1. \A k \in Clients : handler'[k].seen # None => Known(handler'[k].seen)
  BY DEF DInv, LinksKnown
<1>2. \A l \in Links : Known(l)' <=> Known(l)
  BY DEF Known
<1>3. \A k \in Clients : handler'[k].seen # None => handler'[k].seen \in Links
  BY DEF HandlerType
<1>4. LinksKnown'
  BY <1>1, <1>2, <1>3 DEF DInv, LinksKnown
<1>5. \A k \in Clients, l \in Links, n \in {Connected, Disconnected} : Heard(k, n, l)' <=> Heard(k, n, l)
  BY DEF Heard
<1>6. \A l \in Links : Lasting(l)' <=> Lasting(l)
  BY DEF Lasting
<1> QED
  BY <1>4, <1>5, <1>6 DEF DInv, ClientsHeard

LEMMA GotoEffect ==
  ASSUME TypeOK, NEW c \in Clients, NEW label \in HandlerLabels, Goto(c, label)
  PROVE  /\ handler' \in HandlerType
         /\ handler'[c].pc = label /\ handler'[c].env = handler[c].env /\ handler'[c].seen = handler[c].seen
         /\ \A k \in Clients \ {c} : handler'[k] = handler[k]
  BY GotoType, HandlerTyped DEF Goto, HandlerType

LEMMA ForwardEffect ==
  ASSUME TypeOK, NEW c \in Clients, NEW k \in Numbers, Forward(c, k)
  PROVE  /\ handler' \in HandlerType
         /\ handler'[c].pc = "load" /\ handler'[c].env = k /\ handler'[c].seen = None
         /\ \A h \in Clients \ {c} : handler'[h] = handler[h]
  BY ForwardType, HandlerTyped DEF Forward, HandlerType

\* A handler that is refused early has not been heard of.
LEMMA RefusedEarly ==
  ASSUME DInv, NEW c \in Clients, handler[c].pc \in Early, Refuse(c), UNCHANGED <<relay, toPC, overlapped>>
  PROVE  LinksKnown' /\ ClientsHeard'
<1>1. Goto(c, "done") /\ \A l \in Links : wire'[l] = wire[l]
  BY EndsDiffer DEF Refuse, DInv, TypeOK
<1>2. TypeOK /\ "done" \in HandlerLabels
  BY DEF DInv, HandlerLabels
<1> QED
  BY <1>1, <1>2, GotoEffect, HandlerHeard DEF DInv, LinksKnown, ClientsHeard, Early

LEMMA AppendRange ==
  ASSUME NEW E, NEW s \in Seq(E), NEW e \in E
  PROVE  Range(Append(s, e)) = Range(s) \cup {e}
<1>1. DOMAIN Append(s, e) = DOMAIN s \cup {Len(s) + 1} /\ Append(s, e)[Len(s) + 1] = e
      /\ \A i \in DOMAIN s : Append(s, e)[i] = s[i]
  OBVIOUS
<1> QED
  BY <1>1 DEF Range

LEMMA WriteConnHeard ==
  ASSUME DInv, NEW c \in Clients, WriteConn(c)
  PROVE  LinksKnown' /\ ClientsHeard'
<1>0. TypeOK /\ IInv /\ LinksKnown /\ ClientsHeard /\ handler \in HandlerType
  BY HandlerTyped DEF DInv
<1>n. PICK n \in Numbers : handler[c].env = n
  BY <1>0 DEF HandlerType
<1>1. PICK k \in {handler[c].seen, conn} :
        /\ toPC' = IF k # None /\ wire[k] = "open"
                     THEN [toPC EXCEPT ![k] = Append(@, Envelope(c, n))] ELSE toPC
        /\ Goto(c, IF k = None THEN "remove" ELSE After(c))
  BY <1>n DEF WriteConn
<1>2. n \in Numbers /\ k \in Links \cup {None} /\ handler[c].seen \in Links \cup {None}
  BY <1>0 DEF HandlerType, TypeOK
<1>3. handler[c].pc = "write" /\ handler[c].seen # None
      /\ UNCHANGED <<relay, wire, conn, overlapped>>
  BY <1>0 DEF WriteConn, At, sharedVars, ClientsHeard
<1>4. \A l \in Links : Range(toPC'[l]) =
        Range(toPC[l]) \cup IF l = k /\ wire[k] = "open" THEN {Envelope(c, n)} ELSE {}
  <2> DEFINE E == [of : Clients, kind : Numbers]
             e == Envelope(c, n)
  <2>1. toPC \in [Links -> Seq(E)] /\ e \in E /\ None \notin Links
    BY <1>0, NoneIsFresh DEF TypeOK, Envelope
  <2>2. toPC' = IF k # None /\ wire[k] = "open" THEN [toPC EXCEPT ![k] = Append(@, e)] ELSE toPC
    BY <1>1
  <2> HIDE DEF E, e
  <2>3. \A l \in Links : toPC'[l] = IF l = k /\ wire[k] = "open" THEN Append(toPC[l], e) ELSE toPC[l]
    BY <1>2, <2>1, <2>2
  <2>4. \A l \in Links : Range(Append(toPC[l], e)) = Range(toPC[l]) \cup {e}
    BY <2>1, AppendRange
  <2>5. \A l \in Links : Range(toPC'[l]) = Range(toPC[l]) \cup IF l = k /\ wire[k] = "open" THEN {e} ELSE {}
    BY <2>3, <2>4
  <2> QED
    BY <2>5 DEF e
<1>5. \A l \in Links : (Known(l)' <=> Known(l)) /\ (Lasting(l)' <=> Lasting(l))
  BY <1>3 DEF Known, Lasting
<1>6. k # None => Known(k)
  BY <1>0, <1>1, <1>2, NoneIsFresh DEF LinksKnown, IInv, NothingOutlivesItsHandler, Known
<1> DEFINE label == IF k = None THEN "remove" ELSE After(c)
<1>7. label \in {"remove", "loop"} /\ (label = "remove" => k = None \/ n = Disconnected)
  BY <1>n DEF After
<1>8. /\ handler' \in HandlerType
      /\ handler'[c].pc = label /\ handler'[c].env = n /\ handler'[c].seen = handler[c].seen
      /\ \A h \in Clients \ {c} : handler'[h] = handler[h]
  BY <1>0, <1>1, <1>7, <1>n, GotoEffect DEF HandlerLabels
<1> HIDE DEF label
<1>9. LinksKnown'
  <2>1. \A l \in Links : toPC'[l] # <<>> => toPC[l] # <<>> \/ l = k
    BY <1>0, <1>1 DEF TypeOK
  <2>2. \A l \in Links : toPC'[l] # <<>> => relay'[l] \notin {"new", "auth", "known"}
    BY <2>1, <1>0, <1>2, <1>3, <1>6, NoneIsFresh DEF LinksKnown, Known
  <2>3. \A h \in Clients : handler'[h].seen = handler[h].seen
    BY <1>8
  <2>4. \A h \in Clients : handler'[h].seen # None => relay'[handler'[h].seen] \notin {"new", "auth", "known"}
    BY <2>3, <1>0, <1>3 DEF LinksKnown, Known
  <2>5. \A l \in Links : relay'[l] \in {"clear", "delete", "done"} => wire'[l] = "gone"
    BY <1>0, <1>3 DEF LinksKnown
  <2> QED
    BY <2>2, <2>4, <2>5 DEF LinksKnown, Known
<1>10. \A h \in Clients \ {c}, l \in Links, m \in {Connected, Disconnected} :
         Heard(h, m, l)' <=> Heard(h, m, l)
  BY <1>4 DEF Heard, Envelope
<1>11. \A l \in Links, m \in {Connected, Disconnected} :
         Heard(c, m, l)' <=> Heard(c, m, l) \/ (l = k /\ wire[k] = "open" /\ m = n)
  BY <1>4 DEF Heard, Envelope
<1>12. Connected # Disconnected
  BY BoundsOK DEF Connected, Disconnected
<1>13. ASSUME NEW l \in Links, Lasting(l), Heard(c, Connected, l)', label = "remove"
       PROVE  Heard(c, Disconnected, l)'
  <2>1. CASE Heard(c, Connected, l)
    <3>1. conn = l /\ wire[l] = "open" /\ l # None
      BY <1>13, <2>1, HeardKnown, NoneIsFresh DEF Lasting
    <3>2. n = Disconnected
      BY <1>1, <1>3, <1>7, <1>13, <3>1
    <3>3. handler[c].seen = l
      BY <1>0, <1>3, <1>13, <1>n, <2>1, <3>2 DEF ClientsHeard
    <3> QED
      BY <1>1, <1>11, <3>1, <3>2, <3>3
  <2>2. CASE ~ Heard(c, Connected, l)
    <3>1. l = k /\ n = Connected
      BY <1>11, <1>13, <2>2
    <3> QED
      BY <1>2, <1>7, <1>12, <1>13, <3>1, NoneIsFresh
  <2> QED
    BY <2>1, <2>2
<1>14. ClientsHeard'
  <2> SUFFICES ASSUME NEW h \in Clients
               PROVE  /\ handler'[h].pc = "write" => handler'[h].seen # None
                      /\ \A l \in Links :
                           /\ handler'[h].pc \in Early => ~ Heard(h, Connected, l)'
                           /\ Lasting(l)' /\ Heard(h, Connected, l)' =>
                                /\ handler'[h].pc = "write" /\ handler'[h].env = Disconnected => handler'[h].seen = l
                                /\ handler'[h].pc \in {"remove", "done"} => Heard(h, Disconnected, l)'
    BY DEF ClientsHeard
  <2>1. CASE h = c
    BY <2>1, <1>5, <1>7, <1>8, <1>13 DEF Early
  <2>2. CASE h # c
    BY <2>2, <1>0, <1>5, <1>8, <1>10 DEF ClientsHeard
  <2> QED
    BY <2>1, <2>2
<1> QED
  BY <1>9, <1>14

LEMMA ClientStepHeard ==
  ASSUME DInv, NEW c \in Clients, ClientStep(c)
  PROVE  LinksKnown' /\ ClientsHeard'
<1>0. TypeOK /\ IInv /\ LinksKnown /\ ClientsHeard /\ handler \in HandlerType
  BY HandlerTyped DEF DInv
<1> USE DEF sharedVars, pcVars, clientVars, countVars, At
<1>1. ASSUME Goto(c, "checked") \/ Goto(c, "accepted"), handler[c].pc \in Early,
             UNCHANGED <<relay, toPC, overlapped, wire>>
      PROVE  LinksKnown' /\ ClientsHeard'
  <2>1. PICK label \in {"checked", "accepted"} : Goto(c, label)
    BY <1>1
  <2>2. label \in HandlerLabels
    BY DEF HandlerLabels
  <2> QED
    BY <1>0, <1>1, <2>1, <2>2, GotoEffect, HandlerHeard DEF LinksKnown, ClientsHeard, Early
<1>2. CASE CheckRelay(c)
  BY <1>1, <1>2, RefusedEarly DEF CheckRelay, Early
<1>3. CASE GetMux(c)
  BY <1>1, <1>3, RefusedEarly DEF GetMux, Early
<1>4. CASE AddClient(c)
  <2>1. CASE Refuse(c)
    BY <1>4, <2>1, RefusedEarly DEF AddClient, Early
  <2>2. CASE Forward(c, Connected) /\ UNCHANGED wire
    BY <1>0, <1>4, <2>2, NumbersNat, ForwardEffect, HandlerHeard DEF AddClient, Early
  <2> QED
    BY <1>4, <2>1, <2>2 DEF AddClient
<1>5. CASE ReadMessage(c)
  <2>1. up[c] \in Seq(1 .. MaxMsgs) /\ up[c] # <<>>
    BY <1>0, <1>5 DEF ReadMessage, TypeOK
  <2> DEFINE M == 1 .. MaxMsgs
  <2>2. M \subseteq Numbers /\ up[c] \in Seq(M)
    BY <2>1, NumbersNat
  <2> HIDE DEF M
  <2>3. Head(up[c]) \in Numbers
    BY <2>1, <2>2
  <2> QED
    BY <1>0, <1>5, <2>3, ForwardEffect, HandlerHeard DEF ReadMessage, Early
<1>6. CASE ClientReadFails(c)
  BY <1>0, <1>6, NumbersNat, ForwardEffect, HandlerHeard DEF ClientReadFails, Early
<1>7. CASE LoadConn(c)
  <2>1. PICK n \in Numbers : handler[c].env = n
    BY <1>0 DEF HandlerType
  <2> DEFINE label == IF conn = None THEN After(c) ELSE "write"
             new   == [pc |-> label, env |-> n, seen |-> conn]
  <2>2. label \in HandlerLabels \ Early /\ conn \in Links \cup {None}
    BY <1>0 DEF TypeOK, After, HandlerLabels, Early
  <2>3. handler' = [handler EXCEPT ![c] = new]
    BY <1>7, <2>1 DEF LoadConn
  <2>4. new \in [pc : HandlerLabels, env : Numbers, seen : Links \cup {None}]
    BY <2>2
  <2>5. new.pc = label /\ new.env = n /\ new.seen = conn
    OBVIOUS
  <2>6. (label = "write" => conn # None) /\ (conn # None => label = "write")
    BY DEF After
  <2> HIDE DEF label, new
  <2>7. /\ handler' \in HandlerType
        /\ handler'[c].pc = label /\ handler'[c].env = n /\ handler'[c].seen = conn
        /\ \A k \in Clients \ {c} : handler'[k] = handler[k]
    BY <1>0, <2>3, <2>4, <2>5 DEF HandlerType
  <2>8. conn # None => Known(conn)
    BY <1>0 DEF IInv, NothingOutlivesItsHandler, Known
  <2>9. \A l \in Links : Lasting(l) /\ Heard(c, Connected, l) => conn = l /\ label = "write"
    BY <2>6, HeardKnown, NoneIsFresh
  <2>10. UNCHANGED <<relay, toPC, overlapped, wire>>
    BY <1>7 DEF LoadConn
  <2> QED
    BY <2>2, <2>6, <2>7, <2>8, <2>9, <2>10, HandlerHeard
<1>8. CASE WriteConn(c)
  BY <1>8, WriteConnHeard
<1>9. CASE RemoveClient(c)
  <2>1. Goto(c, "done") /\ handler[c].pc = "remove" /\ (\A l \in Links : wire'[l] = wire[l])
        /\ UNCHANGED <<relay, toPC, overlapped>>
    BY <1>0, <1>9, EndsDiffer DEF RemoveClient, Refuse, TypeOK
  <2>2. "done" \in HandlerLabels
    BY DEF HandlerLabels
  <2> QED
    BY <1>0, <2>1, <2>2, GotoEffect, HandlerHeard DEF LinksKnown, ClientsHeard, Early
<1> QED
  BY <1>2, <1>3, <1>4, <1>5, <1>6, <1>7, <1>8, <1>9 DEF ClientStep

LEMMA NextHeard == DInv /\ [Next]_vars => DInv'
<1> SUFFICES ASSUME DInv, [Next]_vars PROVE LinksKnown' /\ ClientsHeard'
  BY NextType, NextRegistered DEF DInv
<1> USE DEF sharedVars, pcVars, clientVars, countVars
<1>1. ASSUME UNCHANGED <<handler, toPC, relay, overlapped>>,
             \A l \in Links : wire'[l] \in {wire[l], "gone"}
      PROVE  LinksKnown' /\ ClientsHeard'
  BY <1>1, RelayHeard DEF DInv, LinksKnown, Known
<1>2. ASSUME NEW x \in Links \cup Clients, Break(x) PROVE LinksKnown' /\ ClientsHeard'
  BY <1>1, <1>2 DEF Break, DInv, TypeOK
<1>3. ASSUME NEW c \in Clients, Arrive(c) PROVE LinksKnown' /\ ClientsHeard'
  BY <1>1, <1>3, EndsDiffer DEF Arrive, DInv, TypeOK
<1>4. ASSUME NEW c \in Clients, ClientSends(c) \/ \E l \in Links : PCSends(l, c)
      PROVE  LinksKnown' /\ ClientsHeard'
  BY <1>1, <1>4 DEF ClientSends, PCSends
<1>5. CASE UNCHANGED vars
  BY <1>1, <1>5 DEF vars
<1> QED
  BY <1>2, <1>3, <1>4, <1>5, LinkStepHeard, ClientStepHeard DEF Next

-----------------------------------------------------------------------------
(* OrderIsKept, towards the PC.  What is queued and not read continues     *)
(* what was read; what the PC has received of a client comes before the    *)
(* envelope at hand, and on a connection that lasts it ends right there.   *)

ReadOf(c)   == sent[c] - Len(up[c])
Knows(c, l) == \E i \in DOMAIN toPC[l] : toPC[l][i].of = c

Queued(c) ==
  /\ Len(up[c]) <= sent[c]
  /\ \A i \in DOMAIN up[c] : up[c][i] = ReadOf(c) + i
  /\ handler[c].pc \in Early => sent[c] = 0
  /\ handler[c].pc \in {"load", "write"} /\ handler[c].env # Disconnected => handler[c].env = ReadOf(c)

Behind(c) ==
  \A l \in Links : \A i \in DOMAIN toPC[l] : toPC[l][i].of = c =>
    /\ handler[c].pc \notin Early
    /\ handler[c].pc \in {"load", "write"} => toPC[l][i].kind < handler[c].env
    /\ handler[c].pc = "loop" => toPC[l][i].kind <= ReadOf(c)

UpToDate(c) ==
  \A l \in Links : Lasting(l) /\ Knows(c, l) =>
    /\ handler[c].pc \in {"load", "write"} /\ handler[c].env # Disconnected => Heard(c, handler[c].env - 1, l)
    /\ handler[c].pc = "loop" => Heard(c, ReadOf(c), l)
    /\ handler[c].pc = "write" => handler[c].seen = l

Ordered(l) ==
  \A i, j \in DOMAIN toPC[l] : i < j /\ toPC[l][i].of = toPC[l][j].of =>
    /\ toPC[l][i].kind < toPC[l][j].kind
    /\ Lasting(l) /\ toPC[l][j].kind <= MaxMsgs => Heard(toPC[l][j].of, toPC[l][j].kind - 1, l)

Streams == /\ \A c \in Clients : Queued(c) /\ Behind(c) /\ UpToDate(c)
           /\ \A l \in Links : Ordered(l)

SInv == DInv /\ Streams

\* The numbers of a client's messages.
LEMMA CountsOf ==
  ASSUME TypeOK, NEW c \in Clients, Queued(c)
  PROVE  /\ sent[c] \in Nat /\ sent[c] <= MaxMsgs /\ Len(up[c]) \in Nat /\ up[c] \in Seq(1 .. MaxMsgs)
         /\ ReadOf(c) \in Nat /\ ReadOf(c) <= sent[c] /\ ReadOf(c) # Disconnected
         /\ MaxMsgs \in Nat
         /\ handler[c].env \in Nat /\ handler[c].env <= Disconnected
         /\ \A l \in Links : \A i \in DOMAIN toPC[l] : toPC[l][i].of \in Clients /\ toPC[l][i].kind \in Nat
<1>1. sent[c] \in Nat /\ sent[c] <= MaxMsgs /\ up[c] \in Seq(1 .. MaxMsgs) /\ MaxMsgs \in Nat
  BY BoundsOK DEF TypeOK
<1>2. Len(up[c]) \in Nat
  BY <1>1
<1>3. handler[c].env \in Numbers
  BY HandlerTyped DEF HandlerType
<1>4. ASSUME NEW l \in Links, NEW i \in DOMAIN toPC[l]
      PROVE  toPC[l][i].of \in Clients /\ toPC[l][i].kind \in Nat
  <2>1. toPC[l] \in Seq([of : Clients, kind : Numbers])
    BY DEF TypeOK
  <2>2. toPC[l][i] \in [of : Clients, kind : Numbers]
    BY <2>1, ElementAt
  <2> QED
    BY <1>1, <2>2 DEF Numbers
<1> QED
  BY <1>1, <1>2, <1>3, <1>4 DEF Queued, ReadOf, Disconnected, Numbers

LEMMA KnownOf ==
  ASSUME DInv, NEW c \in Clients, NEW l \in Links, Lasting(l), Knows(c, l)
  PROVE  conn = l /\ l # None
<1>1. toPC[l] # <<>>
  <2>1. DOMAIN <<>> = {}
    OBVIOUS
  <2> QED
    BY <2>1 DEF Knows
<1>2. Known(l) /\ relay[l] \notin {"clear", "delete", "done"}
  BY <1>1 DEF DInv, LinksKnown, Lasting
<1>3. relay[l] \in {"set", "loop"}
  BY <1>2 DEF Known, DInv, TypeOK
<1> QED
  BY <1>3, NoneIsFresh DEF DInv, IInv, LoneLinkIsInForce, Lasting

LEMMA InitStreams == Init => Streams
<1> SUFFICES ASSUME Init PROVE Streams
  OBVIOUS
<1>1. Len(<<>>) = 0 /\ DOMAIN <<>> = {}
  OBVIOUS
<1>2. /\ \A l \in Links : DOMAIN toPC[l] = {}
      /\ \A c \in Clients : Len(up[c]) = 0 /\ DOMAIN up[c] = {} /\ sent[c] = 0 /\ handler[c].pc = "new"
  BY <1>1 DEF Init
<1> QED
  BY <1>2 DEF Streams, Queued, Behind, UpToDate, Ordered, Knows

\* A step of a PC connection's handler, of a wire, or of the PC.
LEMMA LinkStreams ==
  ASSUME SInv, UNCHANGED <<handler, toPC, sent, up>>, overlapped \subseteq overlapped',
         \A l \in Links : wire'[l] = "open" => wire[l] = "open" \/ toPC[l] = <<>>
  PROVE  Streams'
<1>1. DOMAIN <<>> = {}
  OBVIOUS
<1>2. \A l \in Links : Lasting(l)' => Lasting(l) \/ DOMAIN toPC[l] = {}
  BY <1>1 DEF Lasting
<1>3. \A c \in Clients : Queued(c)' /\ Behind(c)'
  BY DEF SInv, Streams, Queued, Behind, ReadOf
<1>4. \A c \in Clients : UpToDate(c)'
  <2> SUFFICES ASSUME NEW c \in Clients, NEW l \in Links, Lasting(l)', Knows(c, l)'
               PROVE  /\ handler'[c].pc \in {"load", "write"} /\ handler'[c].env # Disconnected
                           => Heard(c, handler[c].env - 1, l)'
                      /\ handler'[c].pc = "loop" => Heard(c, ReadOf(c), l)'
                      /\ handler'[c].pc = "write" => handler'[c].seen = l
    BY DEF UpToDate
  <2>1. Knows(c, l) /\ Lasting(l)
    BY <1>2 DEF Knows
  <2> QED
    BY <2>1 DEF SInv, Streams, UpToDate, Heard, ReadOf
<1>5. \A l \in Links : Ordered(l)'
  BY <1>2 DEF SInv, Streams, Ordered, Heard
<1> QED
  BY <1>3, <1>4, <1>5 DEF Streams

\* A step of a client's handler that writes nothing.
LEMMA HandlerStreams ==
  ASSUME SInv, NEW c \in Clients, \A k \in Clients \ {c} : handler'[k] = handler[k] /\ up'[k] = up[k],
         UNCHANGED <<toPC, sent, overlapped>>, \A l \in Links : wire'[l] = wire[l],
         Queued(c)', Behind(c)', UpToDate(c)'
  PROVE  Streams'
<1>1. \A l \in Links : Lasting(l)' <=> Lasting(l)
  BY DEF Lasting
<1>2. ASSUME NEW k \in Clients \ {c} PROVE Queued(k)' /\ Behind(k)' /\ UpToDate(k)'
  <2>1. ReadOf(k)' = ReadOf(k) /\ handler'[k] = handler[k]
    BY DEF ReadOf
  <2>2. Queued(k) /\ Behind(k) /\ UpToDate(k)
    BY DEF SInv, Streams
  <2>3. Queued(k)' /\ Behind(k)'
    BY <2>1, <2>2 DEF Queued, Behind
  <2>4. UpToDate(k)'
    BY <1>1, <2>1, <2>2 DEF UpToDate, Knows, Heard
  <2> QED
    BY <2>3, <2>4
<1>3. \A l \in Links : Ordered(l)'
  BY <1>1 DEF SInv, Streams, Ordered, Heard
<1> QED
  BY <1>2, <1>3 DEF Streams

\* A client sends: the queue grows behind what is read.
LEMMA SendStreams ==
  ASSUME SInv, NEW c \in Clients, ClientSends(c)
  PROVE  Streams'
<1>0. TypeOK /\ Queued(c) /\ Behind(c) /\ UpToDate(c)
  BY DEF SInv, DInv, Streams
<1>1. sent[c] \in Nat /\ Len(up[c]) \in Nat /\ up[c] \in Seq(1 .. MaxMsgs) /\ sent[c] < MaxMsgs /\ MaxMsgs \in Nat
  BY <1>0, CountsOf DEF ClientSends
<1>2. PICK q \in Seq(1 .. MaxMsgs) : q = up[c]
  BY <1>1
<1>3. PICK p : p = Append(q, sent[c] + 1)
  OBVIOUS
<1>4. sent[c] + 1 \in 1 .. MaxMsgs
  BY <1>1
<1>5. /\ Len(p) = Len(q) + 1 /\ DOMAIN p = 1 .. Len(q) + 1 /\ DOMAIN q = 1 .. Len(q)
      /\ \A i \in DOMAIN q : p[i] = q[i]
      /\ p[Len(q) + 1] = sent[c] + 1
  BY <1>3, <1>4, AppendAt
<1>6. /\ up'[c] = p /\ sent'[c] = sent[c] + 1 /\ handler' = handler /\ toPC' = toPC /\ wire' = wire
      /\ overlapped' = overlapped /\ handler[c].pc \notin Early
      /\ \A k \in Clients \ {c} : up'[k] = up[k] /\ sent'[k] = sent[k]
  <2>1. up \in [Clients -> Seq(1 .. MaxMsgs)] /\ sent \in [Clients -> 0 .. MaxMsgs]
    BY <1>0 DEF TypeOK
  <2>2. up' = [up EXCEPT ![c] = p] /\ sent' = [sent EXCEPT ![c] = @ + 1]
    BY <1>2, <1>3 DEF ClientSends
  <2>3. UNCHANGED <<handler, toPC, wire, overlapped>> /\ handler[c].pc \notin Early
    BY DEF ClientSends, pcVars, Early
  <2> QED
    BY <2>1, <2>2, <2>3
<1>7. \A k \in Clients : ReadOf(k)' = ReadOf(k)
  <2> DEFINE n == Len(q)
             m == sent[c]
  <2>a. n \in Nat /\ m \in Nat
    BY <1>1
  <2>b. Len(up'[c]) = n + 1 /\ sent'[c] = m + 1 /\ Len(up[c]) = n
    BY <1>2, <1>5, <1>6
  <2> HIDE DEF n, m
  <2>1. (m + 1) - (n + 1) = m - n
    BY <2>a
  <2>2. ReadOf(c)' = ReadOf(c)
    BY <2>b, <2>1 DEF ReadOf, m
  <2> QED
    BY <1>6, <2>2 DEF ReadOf
<1>8. Queued(c)'
  <2>1. sent[c] + 1 = ReadOf(c) + (Len(q) + 1)
    BY <1>1, <1>2 DEF ReadOf
  <2>2. \A i \in DOMAIN q : q[i] = ReadOf(c) + i
    BY <1>0, <1>2 DEF Queued
  <2>3. Len(q) \in Nat
    OBVIOUS
  <2>4. \A i \in DOMAIN p : p[i] = ReadOf(c) + i
    BY <1>5, <2>1, <2>2, <2>3
  <2> QED
    BY <1>0, <1>1, <1>2, <1>5, <1>6, <1>7, <2>4 DEF Queued
<1>9. \A k \in Clients \ {c} : Queued(k)'
  BY <1>6, <1>7 DEF SInv, Streams, Queued
<1>10. \A k \in Clients : Behind(k)' /\ UpToDate(k)'
  BY <1>6, <1>7 DEF SInv, Streams, Behind, UpToDate, Knows, Heard, Lasting
<1>11. \A l \in Links : Ordered(l)'
  BY <1>6 DEF SInv, Streams, Ordered, Heard, Lasting
<1> QED
  BY <1>8, <1>9, <1>10, <1>11 DEF Streams

\* A handler that the PC cannot have heard of yet goes on.
LEMMA EarlyStreams ==
  ASSUME SInv, NEW c \in Clients, handler[c].pc \in Early, \A k \in Clients \ {c} : handler'[k] = handler[k],
         UNCHANGED <<toPC, sent, up, overlapped>>, \A l \in Links : wire'[l] = wire[l],
         handler'[c].pc \in {"load", "write"} => handler'[c].env = Connected
  PROVE  Streams'
<1>1. TypeOK /\ Queued(c) /\ Behind(c)
  BY DEF SInv, DInv, Streams
<1>2. sent[c] = 0 /\ Len(up[c]) = 0 /\ ReadOf(c) = 0
  BY <1>1, CountsOf DEF Queued, ReadOf
<1>3. \A l \in Links : \A i \in DOMAIN toPC[l] : toPC[l][i].of # c
  BY <1>1 DEF Behind
<1>4. ReadOf(c)' = ReadOf(c)
  BY DEF ReadOf
<1>5. Queued(c)'
  BY <1>1, <1>2, <1>4 DEF Queued, Connected
<1>6. Behind(c)' /\ UpToDate(c)'
  BY <1>3 DEF Behind, UpToDate, Knows
<1> QED
  BY <1>5, <1>6, HandlerStreams

\* A handler that is past its loop forwards nothing more.
LEMMA LateStreams ==
  ASSUME SInv, NEW c \in Clients, handler'[c].pc \in {"remove", "done"},
         \A k \in Clients \ {c} : handler'[k] = handler[k],
         UNCHANGED <<toPC, sent, up, overlapped>>, \A l \in Links : wire'[l] = wire[l]
  PROVE  Streams'
<1>1. Queued(c) /\ ReadOf(c)' = ReadOf(c) /\ handler'[c].pc \notin Early \cup {"load", "write", "loop"}
  BY DEF SInv, Streams, ReadOf, Early
<1>2. Queued(c)' /\ Behind(c)' /\ UpToDate(c)'
  BY <1>1 DEF Queued, Behind, UpToDate
<1> QED
  BY <1>2, HandlerStreams

LEMMA ReadMessageStreams ==
  ASSUME SInv, NEW c \in Clients, ReadMessage(c)
  PROVE  Streams'
<1>0. TypeOK /\ Queued(c) /\ Behind(c) /\ UpToDate(c)
  BY DEF SInv, DInv, Streams
<1>1. PICK q \in Seq(1 .. MaxMsgs) : q = up[c]
  BY <1>0, CountsOf
<1>2. PICK p : p = Tail(q)
  OBVIOUS
<1>3. q # <<>> /\ handler[c].pc = "loop" /\ UNCHANGED <<toPC, sent, overlapped, wire>>
  BY <1>1 DEF ReadMessage, At, pcVars, countVars
<1>4. /\ Len(q) \in Nat \ {0} /\ DOMAIN q = 1 .. Len(q) /\ DOMAIN p = 1 .. Len(q) - 1
      /\ Head(q) \in 1 .. MaxMsgs /\ Head(q) = q[1] /\ 1 \in DOMAIN q
      /\ \A i \in DOMAIN p : i + 1 \in DOMAIN q /\ p[i] = q[i + 1]
  BY <1>2, <1>3, TailAt
<1>5. Len(p) = Len(q) - 1
  BY <1>2, <1>3, TailAt
<1>6. up'[c] = p /\ \A k \in Clients \ {c} : up'[k] = up[k]
  <2>1. up \in [Clients -> Seq(1 .. MaxMsgs)]
    BY <1>0 DEF TypeOK
  <2>2. up' = [up EXCEPT ![c] = p]
    BY <1>1, <1>2 DEF ReadMessage
  <2> QED
    BY <2>1, <2>2
<1>7. PICK n \in 1 .. MaxMsgs : n = q[1]
  BY <1>4
<1>8. n \in Numbers /\ n # Disconnected /\ n \in Nat
  BY BoundsOK DEF Numbers, Disconnected
<1>9. /\ handler'[c].pc = "load" /\ handler'[c].env = n
      /\ \A k \in Clients \ {c} : handler'[k] = handler[k]
  <2>1. Forward(c, n)
    BY <1>1, <1>4, <1>7 DEF ReadMessage
  <2> QED
    BY <1>0, <1>8, <2>1, ForwardEffect
<1>10. ReadOf(c)' = ReadOf(c) + 1 /\ ReadOf(c) \in Nat /\ sent[c] \in Nat /\ Len(q) <= sent[c]
  <2> DEFINE x == Len(q)
             y == sent[c]
  <2>1. x \in Nat /\ y \in Nat /\ ReadOf(c) \in Nat /\ x <= y
    BY <1>0, <1>1, <1>4, CountsOf DEF Queued
  <2>2. ReadOf(c) = y - x /\ ReadOf(c)' = y - (x - 1)
    BY <1>1, <1>3, <1>5, <1>6 DEF ReadOf
  <2> HIDE DEF x, y
  <2>3. y - (x - 1) = (y - x) + 1
    BY <2>1
  <2> QED
    BY <2>1, <2>2, <2>3 DEF x, y
<1>11. n = ReadOf(c) + 1
  BY <1>0, <1>1, <1>4, <1>7 DEF Queued
<1>12. Queued(c)'
  <2>1. \A i \in DOMAIN p : p[i] = (ReadOf(c) + 1) + i
    <3> SUFFICES ASSUME NEW i \in DOMAIN p PROVE p[i] = (ReadOf(c) + 1) + i
      OBVIOUS
    <3>1. i + 1 \in DOMAIN q /\ p[i] = q[i + 1] /\ i \in Nat
      BY <1>4
    <3>2. q[i + 1] = ReadOf(c) + (i + 1)
      BY <1>0, <1>1, <3>1 DEF Queued
    <3> QED
      BY <1>10, <3>1, <3>2
  <2>2. Len(p) <= sent[c]
    BY <1>4, <1>5, <1>10
  <2> QED
    BY <1>3, <1>6, <1>9, <1>10, <1>11, <2>1, <2>2 DEF Queued, Early
<1>13. Behind(c)'
  <2>1. \A l \in Links : \A i \in DOMAIN toPC[l] : toPC[l][i].of = c => toPC[l][i].kind <= ReadOf(c) /\ toPC[l][i].kind \in Nat
    BY <1>0, <1>3, CountsOf DEF Behind
  <2>2. \A l \in Links : \A i \in DOMAIN toPC[l] : toPC[l][i].of = c => toPC[l][i].kind < n
    BY <1>10, <1>11, <2>1
  <2> QED
    BY <1>3, <1>9, <2>2 DEF Behind, Early
<1>14. UpToDate(c)'
  <2>1. n - 1 = ReadOf(c)
    BY <1>10, <1>11
  <2>2. \A l \in Links : Lasting(l) /\ Knows(c, l) => Heard(c, n - 1, l)
    BY <1>0, <1>3, <2>1 DEF UpToDate
  <2> QED
    BY <1>3, <1>9, <2>2 DEF UpToDate, Lasting, Knows, Heard
<1> QED
  BY <1>3, <1>6, <1>9, <1>12, <1>13, <1>14, HandlerStreams

LEMMA ReadFailsStreams ==
  ASSUME SInv, NEW c \in Clients, ClientReadFails(c)
  PROVE  Streams'
<1>0. TypeOK /\ Queued(c) /\ Behind(c) /\ UpToDate(c)
  BY DEF SInv, DInv, Streams
<1>1. handler[c].pc = "loop" /\ UNCHANGED <<toPC, sent, up, overlapped, wire>>
  BY DEF ClientReadFails, At, pcVars, countVars, clientVars
<1>2. /\ handler'[c].pc = "load" /\ handler'[c].env = Disconnected
      /\ \A k \in Clients \ {c} : handler'[k] = handler[k]
  BY <1>0, NumbersNat, ForwardEffect DEF ClientReadFails
<1>3. Queued(c)'
  BY <1>0, <1>1, <1>2 DEF Queued, ReadOf, Early
<1>4. Behind(c)'
  <2>1. \A l \in Links : \A i \in DOMAIN toPC[l] : toPC[l][i].of = c => toPC[l][i].kind <= ReadOf(c) /\ toPC[l][i].kind \in Nat
    BY <1>0, <1>1, CountsOf DEF Behind
  <2>2. ReadOf(c) < Disconnected /\ ReadOf(c) \in Nat /\ Disconnected \in Nat
    BY <1>0, CountsOf DEF Disconnected
  <2>3. \A l \in Links : \A i \in DOMAIN toPC[l] : toPC[l][i].of = c => toPC[l][i].kind < Disconnected
    BY <2>1, <2>2
  <2> QED
    BY <1>1, <1>2, <2>3 DEF Behind, Early
<1>5. UpToDate(c)'
  BY <1>1, <1>2 DEF UpToDate
<1> QED
  BY <1>1, <1>2, <1>3, <1>4, <1>5, HandlerStreams

LEMMA LoadConnStreams ==
  ASSUME SInv, NEW c \in Clients, LoadConn(c)
  PROVE  Streams'
<1>0. TypeOK /\ Queued(c) /\ Behind(c) /\ UpToDate(c) /\ handler \in HandlerType
  BY HandlerTyped DEF SInv, DInv, Streams
<1>1. handler[c].pc = "load" /\ UNCHANGED <<toPC, sent, up, overlapped, wire>>
  BY DEF LoadConn, At, pcVars, countVars, clientVars
<1>2. PICK n \in Numbers : handler[c].env = n
  BY <1>0 DEF HandlerType
<1>3. PICK label : label = IF conn = None THEN IF n = Disconnected THEN "remove" ELSE "loop" ELSE "write"
  OBVIOUS
<1>4. handler'[c] = [pc |-> label, env |-> n, seen |-> conn] /\ \A k \in Clients \ {c} : handler'[k] = handler[k]
  BY <1>0, <1>2, <1>3 DEF LoadConn, After, HandlerType
<1>5. ReadOf(c)' = ReadOf(c) /\ ReadOf(c) \in Nat /\ n \in Nat
  BY <1>0, <1>1, <1>2, CountsOf DEF ReadOf
<1>6. /\ n # Disconnected => n = ReadOf(c)
      /\ \A l \in Links : \A i \in DOMAIN toPC[l] : toPC[l][i].of = c => toPC[l][i].kind < n /\ toPC[l][i].kind \in Nat
      /\ \A l \in Links : Lasting(l) /\ Knows(c, l) /\ n # Disconnected => Heard(c, n - 1, l)
  BY <1>0, <1>1, <1>2, CountsOf DEF Queued, Behind, UpToDate
<1>7. Queued(c)'
  BY <1>0, <1>1, <1>3, <1>4, <1>5, <1>6 DEF Queued, Early
<1>8. Behind(c)'
  BY <1>1, <1>3, <1>4, <1>5, <1>6 DEF Behind, Early
<1>9. \A l \in Links : Lasting(l) /\ Knows(c, l) => conn = l /\ conn # None
  BY KnownOf DEF SInv
<1>10. UpToDate(c)'
  BY <1>1, <1>3, <1>4, <1>6, <1>9 DEF UpToDate, Lasting, Knows, Heard
<1> QED
  BY <1>1, <1>4, <1>7, <1>8, <1>10, HandlerStreams

LEMMA WriteConnStreams ==
  ASSUME SInv, NEW c \in Clients, WriteConn(c)
  PROVE  Streams'
<1>0. TypeOK /\ Queued(c) /\ Behind(c) /\ UpToDate(c) /\ handler \in HandlerType
  BY HandlerTyped DEF SInv, DInv, Streams
<1>1. PICK n \in Numbers : handler[c].env = n
  BY <1>0 DEF HandlerType
<1>2. PICK k \in {handler[c].seen, conn} :
        /\ toPC' = IF k # None /\ wire[k] = "open"
                     THEN [toPC EXCEPT ![k] = Append(@, Envelope(c, n))] ELSE toPC
        /\ Goto(c, IF k = None THEN "remove" ELSE After(c))
  BY <1>1 DEF WriteConn
<1>3. handler[c].pc = "write" /\ UNCHANGED <<wire, sent, up, overlapped>> /\ k \in Links \cup {None}
  BY <1>0 DEF WriteConn, At, countVars, clientVars, HandlerType, TypeOK
<1>4. PICK label : label = IF k = None \/ n = Disconnected THEN "remove" ELSE "loop"
  OBVIOUS
<1>5. handler'[c].pc = label /\ \A h \in Clients \ {c} : handler'[h] = handler[h]
  BY <1>0, <1>1, <1>2, <1>4, GotoEffect DEF After, HandlerLabels
<1>6. PICK e : e = Envelope(c, n)
  OBVIOUS
<1>7. e.of = c /\ e.kind = n /\ n \in Nat /\ \A l \in Links : \A i \in DOMAIN toPC[l] : toPC[l][i].kind \in Nat
  BY <1>0, <1>1, <1>6, CountsOf DEF Envelope
\* Everything received is old, or is the envelope, at the end.
<1>8. \A l \in Links :
        /\ l = k /\ wire[k] = "open" => \E i \in DOMAIN toPC'[l] : toPC'[l][i] = e
        /\ \A i \in DOMAIN toPC[l] : i \in DOMAIN toPC'[l] /\ toPC'[l][i] = toPC[l][i]
        /\ \A i \in DOMAIN toPC'[l] :
             \/ i \in DOMAIN toPC[l]
             \/ /\ l = k /\ wire[k] = "open" /\ toPC'[l][i] = e
                /\ \A j \in DOMAIN toPC'[l] : ~ (i < j) /\ (j < i => j \in DOMAIN toPC[l])
  <2> SUFFICES ASSUME NEW l \in Links
               PROVE  /\ l = k /\ wire[k] = "open" => \E i \in DOMAIN toPC'[l] : toPC'[l][i] = e
                      /\ \A i \in DOMAIN toPC[l] : i \in DOMAIN toPC'[l] /\ toPC'[l][i] = toPC[l][i]
                      /\ \A i \in DOMAIN toPC'[l] :
                           \/ i \in DOMAIN toPC[l]
                           \/ /\ l = k /\ wire[k] = "open" /\ toPC'[l][i] = e
                              /\ \A j \in DOMAIN toPC'[l] : ~ (i < j) /\ (j < i => j \in DOMAIN toPC[l])
    OBVIOUS
  <2> DEFINE E == [of : Clients, kind : Numbers]
  <2>1. toPC \in [Links -> Seq(E)] /\ None \notin Links /\ e \in E
    BY <1>0, <1>6, NoneIsFresh DEF TypeOK, Envelope
  <2>2. toPC' = IF k # None /\ wire[k] = "open" THEN [toPC EXCEPT ![k] = Append(@, e)] ELSE toPC
    BY <1>2, <1>6
  <2> HIDE DEF E
  <2>3. PICK q \in Seq(E) : q = toPC[l]
    BY <2>1
  <2>4. PICK p : p = Append(q, e)
    OBVIOUS
  <2>5. /\ Len(q) \in Nat /\ DOMAIN q = 1 .. Len(q) /\ DOMAIN p = 1 .. Len(q) + 1
        /\ \A i \in DOMAIN q : p[i] = q[i]
        /\ p[Len(q) + 1] = e
    BY <2>1, <2>4, AppendAt
  <2>6. CASE l = k /\ wire[k] = "open"
    <3>1. toPC'[l] = p
      BY <2>1, <2>2, <2>3, <2>4, <2>6
    <3>2. Len(q) + 1 \in DOMAIN p /\ \A i \in DOMAIN q : i \in DOMAIN p
      BY <2>5
    <3>3. \A i \in DOMAIN p : i \in DOMAIN q \/ i = Len(q) + 1
      BY <2>5
    <3>4. \A j \in DOMAIN p : ~ (Len(q) + 1 < j) /\ (j < Len(q) + 1 => j \in DOMAIN q)
      BY <2>5
    <3> QED
      BY <2>3, <2>5, <2>6, <3>1, <3>2, <3>3, <3>4
  <2>7. CASE ~ (l = k /\ wire[k] = "open")
    <3>1. toPC'[l] = toPC[l]
      BY <2>1, <2>2, <2>7
    <3> QED
      BY <2>7, <3>1
  <2> QED
    BY <2>6, <2>7
<1>9. \A l \in Links, h \in Clients : \A m : Heard(h, m, l) => Heard(h, m, l)'
  BY <1>8 DEF Heard, Range
<1>10. \A l \in Links : Lasting(l)' <=> Lasting(l)
  BY <1>3 DEF Lasting
<1>11. \A h \in Clients : ReadOf(h)' = ReadOf(h)
  BY <1>3 DEF ReadOf
<1>12. n # Disconnected => n = ReadOf(c)
  BY <1>0, <1>1, <1>3 DEF Queued
<1>13. Queued(c)' /\ Behind(c)' /\ UpToDate(c)'
  <2>1. Queued(c)'
    BY <1>0, <1>3, <1>4, <1>5, <1>11 DEF Queued, Early
  <2>2. \A l \in Links : \A i \in DOMAIN toPC[l] : toPC[l][i].of = c => toPC[l][i].kind < n
    BY <1>0, <1>1, <1>3 DEF Behind
  <2>3. \A l \in Links : \A i \in DOMAIN toPC'[l] : toPC'[l][i].of = c => toPC'[l][i].kind <= n
    <3> SUFFICES ASSUME NEW l \in Links, NEW i \in DOMAIN toPC'[l], toPC'[l][i].of = c
                 PROVE  toPC'[l][i].kind <= n
      OBVIOUS
    <3>1. CASE i \in DOMAIN toPC[l]
      <4>1. toPC'[l][i] = toPC[l][i]
        BY <1>8, <3>1
      <4> QED
        BY <1>7, <2>2, <3>1, <4>1
    <3>2. CASE i \notin DOMAIN toPC[l]
      <4>1. toPC'[l][i] = e
        BY <1>8, <3>2
      <4> QED
        BY <1>7, <4>1
    <3> QED
      BY <3>1, <3>2
  <2>4. Behind(c)'
    BY <1>4, <1>5, <1>11, <1>12, <2>3 DEF Behind, Early
  <2>5. ASSUME NEW l \in Links, Lasting(l), Knows(c, l)', label = "loop" PROVE Heard(c, n, l)'
    <3>1. CASE Knows(c, l)
      <4>1. k = l /\ wire[k] = "open"
        BY <1>0, <1>3, <2>5, <3>1, KnownOf DEF SInv, UpToDate, Lasting
      <4> QED
        BY <1>6, <1>8, <4>1 DEF Heard, Range
    <3>2. CASE ~ Knows(c, l)
      <4>1. PICK i \in DOMAIN toPC'[l] : toPC'[l][i].of = c
        BY <2>5 DEF Knows
      <4>2. i \notin DOMAIN toPC[l]
        BY <1>8, <3>2, <4>1 DEF Knows
      <4>3. toPC'[l][i] = e
        BY <1>8, <4>1, <4>2
      <4> QED
        BY <1>6, <4>1, <4>3 DEF Heard, Range
    <3> QED
      BY <3>1, <3>2
  <2>6. UpToDate(c)'
    BY <1>4, <1>5, <1>10, <1>11, <1>12, <2>5 DEF UpToDate
  <2> QED
    BY <2>1, <2>4, <2>6
<1>14. ASSUME NEW h \in Clients \ {c} PROVE Queued(h)' /\ Behind(h)' /\ UpToDate(h)'
  <2>1. Queued(h) /\ Behind(h) /\ UpToDate(h) /\ handler'[h] = handler[h]
    BY <1>5 DEF SInv, Streams
  <2>2. Queued(h)'
    BY <1>3, <1>11, <2>1 DEF Queued
  <2>3. \A l \in Links : \A i \in DOMAIN toPC'[l] :
          toPC'[l][i].of = h => i \in DOMAIN toPC[l] /\ toPC'[l][i] = toPC[l][i]
    BY <1>7, <1>8
  <2>4. Behind(h)'
    BY <1>11, <2>1, <2>3 DEF Behind
  <2>5. UpToDate(h)'
    BY <1>9, <1>10, <1>11, <2>1, <2>3 DEF UpToDate, Knows
  <2> QED
    BY <2>2, <2>4, <2>5
<1>15. ASSUME NEW l \in Links PROVE Ordered(l)'
  <2>0. ASSUME NEW i \in DOMAIN toPC'[l], NEW j \in DOMAIN toPC'[l], i < j,
               NEW d, d = toPC'[l][i], NEW f, f = toPC'[l][j], d.of = f.of
        PROVE  d.kind < f.kind /\ (Lasting(l) /\ f.kind <= MaxMsgs => Heard(f.of, f.kind - 1, l)')
    <3>1. i \in DOMAIN toPC[l] /\ d = toPC[l][i]
      BY <1>8, <2>0
    <3>2. CASE j \in DOMAIN toPC[l]
      <4>1. f = toPC[l][j] /\ f.of \in Clients
        BY <1>0, <1>8, <2>0, <3>2, CountsOf
      <4>2. d.kind < f.kind /\ (Lasting(l) /\ f.kind <= MaxMsgs => Heard(f.of, f.kind - 1, l))
        BY <2>0, <3>1, <3>2, <4>1 DEF SInv, Streams, Ordered
      <4> QED
        BY <1>9, <4>1, <4>2
    <3>3. CASE j \notin DOMAIN toPC[l]
      <4>1. f = e /\ d.of = c
        BY <1>7, <1>8, <2>0, <3>1, <3>3
      <4>2. d.kind < n
        BY <1>0, <1>1, <1>3, <3>1, <4>1 DEF Behind
      <4>3. n <= MaxMsgs => n # Disconnected
        BY <1>7, BoundsOK DEF Disconnected
      <4>4. Lasting(l) /\ n <= MaxMsgs => Heard(c, n - 1, l)
        BY <1>0, <1>1, <1>3, <3>1, <4>1, <4>3 DEF UpToDate, Knows
      <4> QED
        BY <1>7, <1>9, <4>1, <4>2, <4>4
    <3> QED
      BY <3>2, <3>3
  <2> QED
    BY <1>10, <2>0 DEF Ordered
<1> QED
  BY <1>13, <1>14, <1>15 DEF Streams

LEMMA ClientStepStreams ==
  ASSUME SInv, NEW c \in Clients, ClientStep(c)
  PROVE  Streams'
<1>0. TypeOK /\ handler \in HandlerType
  BY HandlerTyped DEF SInv, DInv
<1> USE DEF sharedVars, pcVars, clientVars, countVars, At
<1>1. ASSUME Refuse(c) PROVE handler'[c].pc = "done" /\ (\A k \in Clients \ {c} : handler'[k] = handler[k])
                             /\ \A l \in Links : wire'[l] = wire[l]
  BY <1>0, <1>1, GotoEffect, EndsDiffer DEF Refuse, TypeOK, HandlerLabels
<1>2. CASE CheckRelay(c)
  BY <1>0, <1>1, <1>2, GotoEffect, EarlyStreams DEF CheckRelay, Early, HandlerLabels
<1>3. CASE GetMux(c)
  BY <1>0, <1>1, <1>3, GotoEffect, EarlyStreams DEF GetMux, Early, HandlerLabels
<1>4. CASE AddClient(c)
  BY <1>0, <1>1, <1>4, NumbersNat, ForwardEffect, EarlyStreams DEF AddClient, Early
<1>5. CASE RemoveClient(c)
  BY <1>1, <1>5, LateStreams DEF RemoveClient
<1> QED
  BY <1>2, <1>3, <1>4, <1>5, ReadMessageStreams, ReadFailsStreams, LoadConnStreams, WriteConnStreams
     DEF ClientStep

LEMMA NextStreams == SInv /\ [Next]_vars => SInv'
<1> SUFFICES ASSUME SInv, [Next]_vars PROVE Streams'
  BY NextHeard DEF SInv
<1>0. DInv /\ TypeOK
  BY DEF SInv, DInv
<1> USE DEF sharedVars, pcVars, countVars, clientVars
<1>1. ASSUME NEW l \in Links, Dial(l) PROVE Streams'
  <2>1. relay[l] = "new" /\ toPC[l] = <<>>
    BY <1>0, <1>1 DEF Dial, Step, DInv, LinksKnown, Known
  <2> QED
    BY <1>0, <1>1, <2>1, LinkStreams DEF Dial, TypeOK
<1>2. ASSUME NEW l \in Links, RelayStep(l) PROVE Streams'
  BY <1>2, LinkStreams
     DEF RelayStep, Authenticate, SetConn, StoreMux, Route, ReadFails, ClearConn, DeleteMux
<1>3. ASSUME NEW x \in Links \cup Clients, Break(x) PROVE Streams'
  BY <1>0, <1>3, LinkStreams DEF Break, TypeOK
<1>4. ASSUME NEW c \in Clients, Arrive(c) PROVE Streams'
  BY <1>0, <1>4, LinkStreams, EndsDiffer DEF Arrive, TypeOK
<1>5. ASSUME NEW c \in Clients, NEW l \in Links, PCSends(l, c) PROVE Streams'
  BY <1>5, LinkStreams DEF PCSends
<1>6. CASE UNCHANGED vars
  BY <1>6, LinkStreams DEF vars
<1> QED
  BY <1>1, <1>2, <1>3, <1>4, <1>5, <1>6, SendStreams, ClientStepStreams DEF Next

-----------------------------------------------------------------------------
(* OrderIsKept, towards a client.  While no handlers overlapped, what the  *)
(* one at work has still to read was sent after all that was delivered.    *)

InService == {"known", "set", "loop"}

Delivered(c) == Increasing(inbox[c]) /\ \A i \in DOMAIN inbox[c] : inbox[c][i] <= replied[c]

Ahead(l) ==
  /\ relay[l] \in {"new", "auth"} => down[l] = <<>>
  /\ relay[l] \in InService => \A i \in DOMAIN down[l] :
       /\ down[l][i].kind <= replied[down[l][i].of]
       /\ \A j \in DOMAIN down[l] : j < i /\ down[l][j].of = down[l][i].of => down[l][j].kind < down[l][i].kind
       /\ \A j \in DOMAIN inbox[down[l][i].of] : inbox[down[l][i].of][j] < down[l][i].kind

RepliesInOrder == overlapped = {} => (\A c \in Clients : Delivered(c)) /\ (\A l \in Links : Ahead(l))

OInv == SInv /\ RepliesInOrder

LEMMA InitReplies == Init => RepliesInOrder
<1> SUFFICES ASSUME Init PROVE RepliesInOrder
  OBVIOUS
<1>1. DOMAIN <<>> = {}
  OBVIOUS
<1>2. (\A c \in Clients : DOMAIN inbox[c] = {}) /\ (\A l \in Links : down[l] = <<>> /\ DOMAIN down[l] = {})
  BY <1>1 DEF Init
<1> QED
  BY <1>2 DEF RepliesInOrder, Delivered, Ahead, Increasing

\* What is delivered and on its way are numbers, of clients.
LEMMA ReplyNumbers ==
  ASSUME TypeOK
  PROVE  /\ \A c \in Clients : replied[c] \in Nat /\ \A i \in DOMAIN inbox[c] : inbox[c][i] \in Nat
         /\ \A l \in Links : \A i \in DOMAIN down[l] : down[l][i].of \in Clients /\ down[l][i].kind \in Nat
<1>1. \A c \in Clients : replied[c] \in 0 .. MaxReplies /\ inbox[c] \in Seq(1 .. MaxReplies)
  BY DEF TypeOK
<1>2. \A l \in Links : down[l] \in Seq(Replies)
  BY DEF TypeOK
<1>3. \A c \in Clients : \A i \in DOMAIN inbox[c] : inbox[c][i] \in 1 .. MaxReplies
  BY <1>1, ElementAt
<1>4. \A l \in Links : \A i \in DOMAIN down[l] : down[l][i] \in Replies
  BY <1>2, ElementAt
<1> QED
  BY <1>1, <1>3, <1>4, BoundsOK DEF Replies

\* A step that neither sends nor routes a reply.
LEMMA RestReplies ==
  ASSUME OInv, UNCHANGED <<inbox, down, replied>>, overlapped \subseteq overlapped',
         \A l \in Links : relay'[l] \in {"new", "auth"} => relay[l] \in {"new", "auth"},
         \A l \in Links : relay'[l] \in InService => relay[l] \in InService \cup {"auth"}
  PROVE  RepliesInOrder'
<1> SUFFICES ASSUME overlapped' = {} PROVE (\A c \in Clients : Delivered(c)') /\ (\A l \in Links : Ahead(l)')
  BY DEF RepliesInOrder
<1>1. (\A c \in Clients : Delivered(c)) /\ (\A l \in Links : Ahead(l))
  BY DEF OInv, RepliesInOrder
<1>2. DOMAIN <<>> = {}
  OBVIOUS
<1>3. \A l \in Links : relay'[l] \in InService => relay[l] \in InService \/ DOMAIN down[l] = {}
  BY <1>1, <1>2 DEF Ahead
<1> QED
  BY <1>1, <1>3 DEF Delivered, Ahead

\* There is one handler at work, as long as none overlapped.
LEMMA OneInService ==
  ASSUME IInv, overlapped = {}, NEW k \in Links, NEW l \in Links, relay[k] \in InService, relay[l] \in InService
  PROVE  k = l
  BY DEF IInv, Together, Authenticated, InService

LEMMA RouteReplies ==
  ASSUME OInv, NEW l \in Links, Route(l)
  PROVE  RepliesInOrder'
<1> SUFFICES ASSUME overlapped' = {} PROVE (\A c \in Clients : Delivered(c)') /\ (\A k \in Links : Ahead(k)')
  BY DEF RepliesInOrder
<1>0. TypeOK /\ IInv /\ overlapped = {}
  BY DEF OInv, SInv, DInv, Route
<1>1. (\A c \in Clients : Delivered(c)) /\ (\A k \in Links : Ahead(k))
  BY <1>0 DEF OInv, RepliesInOrder
<1>2. relay[l] = "loop" /\ down[l] # <<>> /\ relay' = relay /\ replied' = replied
  BY DEF Route, countVars
<1>3. PICK q \in Seq(Replies) : q = down[l]
  BY <1>0 DEF TypeOK
<1>4. PICK p : p = Tail(q)
  OBVIOUS
<1>5. /\ Len(q) \in Nat \ {0} /\ DOMAIN q = 1 .. Len(q) /\ DOMAIN p = 1 .. Len(q) - 1
      /\ Head(q) = q[1] /\ 1 \in DOMAIN q /\ Head(q) \in Replies
      /\ \A i \in DOMAIN p : i + 1 \in DOMAIN q /\ p[i] = q[i + 1]
  BY <1>2, <1>3, <1>4, TailAt
<1>6. PICK e \in Replies : e = q[1]
  BY <1>5
<1>7. e.of \in Clients /\ e.kind \in Nat /\ e.kind \in 1 .. MaxReplies
  BY <1>6, BoundsOK DEF Replies
<1>8. down'[l] = p /\ \A k \in Links \ {l} : down'[k] = down[k]
  <2>1. down \in [Links -> Seq(Replies)]
    BY <1>0 DEF TypeOK
  <2>2. down' = [down EXCEPT ![l] = p]
    BY <1>3, <1>4 DEF Route
  <2> QED
    BY <2>1, <2>2
<1>9. /\ \A c \in Clients \ {e.of} : inbox'[c] = inbox[c]
      /\ inbox'[e.of] \in {inbox[e.of], Append(inbox[e.of], e.kind)}
  <2>1. inbox \in [Clients -> Seq(1 .. MaxReplies)]
    BY <1>0 DEF TypeOK
  <2>2. inbox' = inbox \/ inbox' = [inbox EXCEPT ![e.of] = Append(@, e.kind)]
    BY <1>3, <1>5, <1>6 DEF Route
  <2> QED
    BY <1>7, <2>1, <2>2
\* What is delivered is old, or is the reply at hand, at the end.
<1>10. \A i \in DOMAIN inbox'[e.of] :
         \/ i \in DOMAIN inbox[e.of] /\ inbox'[e.of][i] = inbox[e.of][i]
         \/ inbox'[e.of][i] = e.kind /\ \A j \in DOMAIN inbox'[e.of] : ~ (i < j) /\ (j < i => j \in DOMAIN inbox[e.of])
  <2>1. PICK r \in Seq(1 .. MaxReplies) : r = inbox[e.of]
    BY <1>0, <1>7 DEF TypeOK
  <2>2. PICK t : t = Append(r, e.kind)
    OBVIOUS
  <2>3. /\ Len(r) \in Nat /\ DOMAIN r = 1 .. Len(r) /\ DOMAIN t = 1 .. Len(r) + 1
        /\ \A i \in DOMAIN r : t[i] = r[i]
        /\ t[Len(r) + 1] = e.kind
    BY <1>7, <2>2, AppendAt
  <2>4. \A i \in DOMAIN t : \/ i \in DOMAIN r /\ t[i] = r[i]
                            \/ t[i] = e.kind /\ \A j \in DOMAIN t : ~ (i < j) /\ (j < i => j \in DOMAIN r)
    BY <2>3
  <2>5. inbox'[e.of] = r \/ inbox'[e.of] = t
    BY <1>9, <2>1, <2>2
  <2> QED
    BY <2>1, <2>4, <2>5
<1>11. (\A j \in DOMAIN inbox[e.of] : inbox[e.of][j] < e.kind) /\ e.kind <= replied[e.of]
  BY <1>1, <1>2, <1>3, <1>5, <1>6 DEF Ahead, InService
<1>12. ASSUME NEW c \in Clients PROVE Delivered(c)'
  <2>1. CASE c # e.of
    <3>1. inbox'[c] = inbox[c]
      BY <1>9, <2>1
    <3> QED
      BY <1>1, <1>2, <3>1 DEF Delivered, Increasing
  <2>2. CASE c = e.of
    <3>1. Delivered(e.of)
      BY <1>1, <1>7
    <3> QED
      BY <1>2, <1>10, <1>11, <2>2, <3>1 DEF Delivered, Increasing
  <2> QED
    BY <2>1, <2>2
<1>13. ASSUME NEW k \in Links PROVE Ahead(k)'
  <2>1. CASE k # l
    <3>1. relay[k] \notin InService
      BY <1>0, <1>2, <2>1, OneInService DEF InService
    <3> QED
      BY <1>1, <1>2, <1>8, <2>1, <3>1 DEF Ahead
  <2>2. CASE k = l
    <3>1. ASSUME NEW i \in DOMAIN p
          PROVE  /\ p[i].kind <= replied[p[i].of]
                 /\ \A j \in DOMAIN p : j < i /\ p[j].of = p[i].of => p[j].kind < p[i].kind
                 /\ p[i].of \in Clients /\ \A j \in DOMAIN inbox'[p[i].of] : inbox'[p[i].of][j] < p[i].kind
      <4>1. i + 1 \in DOMAIN q /\ p[i] = q[i + 1] /\ i \in Nat /\ 1 < i + 1
        BY <1>5
      <4>2. PICK f : f = p[i]
        OBVIOUS
      <4>3. /\ f.kind <= replied[f.of]
            /\ \A j \in DOMAIN q : j < i + 1 /\ q[j].of = f.of => q[j].kind < f.kind
            /\ \A j \in DOMAIN inbox[f.of] : inbox[f.of][j] < f.kind
        BY <1>1, <1>2, <1>3, <4>1, <4>2 DEF Ahead, InService
      <4>4. ASSUME NEW j \in DOMAIN p, j < i, p[j].of = f.of PROVE p[j].kind < f.kind
        <5>1. j + 1 \in DOMAIN q /\ p[j] = q[j + 1] /\ j + 1 < i + 1
          BY <1>5, <4>1, <4>4
        <5> QED
          BY <4>3, <4>4, <5>1
      <4>5. f.of \in Clients
        BY <1>0, <1>3, <4>1, <4>2, ReplyNumbers
      <4>6. e.of = f.of => e.kind < f.kind
        BY <1>5, <1>6, <4>1, <4>3
      <4>7. ASSUME NEW j \in DOMAIN inbox'[f.of] PROVE inbox'[f.of][j] < f.kind
        <5>1. CASE f.of # e.of
          BY <1>9, <4>3, <4>5, <4>7, <5>1
        <5>2. CASE f.of = e.of
          BY <1>10, <4>3, <4>6, <4>7, <5>2
        <5> QED
          BY <5>1, <5>2
      <4> QED
        BY <4>2, <4>3, <4>4, <4>5, <4>7
    <3> QED
      BY <1>2, <1>8, <2>2, <3>1 DEF Ahead, InService
  <2> QED
    BY <2>1, <2>2
<1> QED
  BY <1>12, <1>13

LEMMA PCSendsReplies ==
  ASSUME OInv, NEW l \in Links, NEW c \in Clients, PCSends(l, c)
  PROVE  RepliesInOrder'
<1> SUFFICES ASSUME overlapped' = {} PROVE (\A h \in Clients : Delivered(h)') /\ (\A k \in Links : Ahead(k)')
  BY DEF RepliesInOrder
<1>0. TypeOK /\ IInv /\ overlapped = {}
  BY DEF OInv, SInv, DInv, PCSends
<1>1. (\A h \in Clients : Delivered(h)) /\ (\A k \in Links : Ahead(k))
  BY <1>0 DEF OInv, RepliesInOrder
<1>2. relay[l] \notin {"new", "auth"} /\ relay' = relay /\ inbox' = inbox
  BY DEF PCSends, Authenticated, clientVars
<1>3. PICK n \in Nat : n = replied[c]
  BY <1>0, ReplyNumbers
<1>4. replied'[c] = n + 1 /\ \A h \in Clients \ {c} : replied'[h] = replied[h]
  BY <1>0, <1>3 DEF PCSends, TypeOK
<1>5. PICK e : e = Envelope(c, n + 1)
  OBVIOUS
<1>6. e \in Replies /\ e.of = c /\ e.kind = n + 1
  <2>1. n + 1 \in 1 .. MaxReplies
    BY <1>3, BoundsOK DEF PCSends
  <2> QED
    BY <1>5, <2>1 DEF Replies, Envelope
<1>7. PICK q \in Seq(Replies) : q = down[l]
  BY <1>0 DEF TypeOK
<1>8. PICK p : p = Append(q, e)
  OBVIOUS
<1>9. /\ Len(q) \in Nat /\ DOMAIN q = 1 .. Len(q) /\ DOMAIN p = 1 .. Len(q) + 1
      /\ \A i \in DOMAIN q : p[i] = q[i]
      /\ p[Len(q) + 1] = e
  BY <1>6, <1>8, AppendAt
<1>10. down'[l] = p /\ \A k \in Links \ {l} : down'[k] = down[k]
  <2>1. down \in [Links -> Seq(Replies)]
    BY <1>0 DEF TypeOK
  <2>2. down' = [down EXCEPT ![l] = p]
    BY <1>3, <1>5, <1>7, <1>8 DEF PCSends
  <2> QED
    BY <2>1, <2>2
<1>11. \A h \in Clients : replied[h] <= replied'[h] /\ replied[h] \in Nat /\ replied'[h] \in Nat
  BY <1>0, <1>3, <1>4, ReplyNumbers
<1>12. ASSUME NEW h \in Clients PROVE Delivered(h)'
  <2>1. \A i \in DOMAIN inbox[h] : inbox[h][i] <= replied[h] /\ inbox[h][i] \in Nat
    BY <1>0, <1>1, ReplyNumbers DEF Delivered
  <2> QED
    BY <1>1, <1>2, <1>11, <2>1 DEF Delivered
<1>13. ASSUME NEW k \in Links PROVE Ahead(k)'
  <2>0. \A i \in DOMAIN down[k] : down[k][i].of \in Clients /\ down[k][i].kind \in Nat
    BY <1>0, ReplyNumbers
  <2>1. CASE k # l
    <3>1. \A i \in DOMAIN down[k] : (down[k][i].kind <= replied[down[k][i].of])
                                      => (down[k][i].kind <= replied'[down[k][i].of])
      BY <1>11, <2>0
    <3> QED
      BY <1>1, <1>2, <1>10, <2>1, <3>1 DEF Ahead
  <2>2. CASE k = l /\ relay[l] \in InService
    <3>1. ASSUME NEW i \in DOMAIN p
          PROVE  /\ p[i].kind <= replied'[p[i].of]
                 /\ \A j \in DOMAIN p : j < i /\ p[j].of = p[i].of => p[j].kind < p[i].kind
                 /\ \A j \in DOMAIN inbox[p[i].of] : inbox[p[i].of][j] < p[i].kind
      <4>1. CASE i \in DOMAIN q
        <5>1. \A j \in DOMAIN p : j < i => j \in DOMAIN q
          BY <1>9, <4>1
        <5>2. PICK f : f = q[i] /\ f = p[i]
          BY <1>9, <4>1
        <5>3. /\ f.kind <= replied[f.of] /\ f.of \in Clients /\ f.kind \in Nat
              /\ \A j \in DOMAIN q : j < i /\ q[j].of = f.of => q[j].kind < f.kind
              /\ \A j \in DOMAIN inbox[f.of] : inbox[f.of][j] < f.kind
          BY <1>1, <1>7, <2>0, <2>2, <4>1, <5>2 DEF Ahead
        <5>4. f.kind <= replied'[f.of]
          BY <1>11, <5>3
        <5> QED
          BY <1>9, <5>1, <5>2, <5>3, <5>4
      <4>2. CASE i \notin DOMAIN q
        <5>1. p[i] = e /\ \A j \in DOMAIN p : j < i => j \in DOMAIN q
          BY <1>9, <4>2
        <5>2. \A j \in DOMAIN q : q[j].of = c => q[j].kind < n + 1
          <6>1. \A j \in DOMAIN q : q[j].of = c => q[j].kind <= n /\ q[j].kind \in Nat
            BY <1>1, <1>3, <1>7, <2>0, <2>2 DEF Ahead
          <6> QED
            BY <6>1
        <5>3. \A j \in DOMAIN inbox[c] : inbox[c][j] < n + 1
          <6>1. \A j \in DOMAIN inbox[c] : inbox[c][j] <= n /\ inbox[c][j] \in Nat
            BY <1>0, <1>1, <1>3, ReplyNumbers DEF Delivered
          <6> QED
            BY <6>1
        <5> QED
          BY <1>4, <1>6, <1>9, <5>1, <5>2, <5>3
      <4> QED
        BY <4>1, <4>2
    <3> QED
      BY <1>2, <1>10, <2>2, <3>1 DEF Ahead
  <2>3. CASE k = l /\ relay[l] \notin InService
    BY <1>2, <2>3 DEF Ahead
  <2> QED
    BY <2>1, <2>2, <2>3
<1> QED
  BY <1>12, <1>13

LEMMA NextReplies == OInv /\ [Next]_vars => OInv'
<1> SUFFICES ASSUME OInv, [Next]_vars PROVE RepliesInOrder'
  BY NextStreams DEF OInv
<1>0. TypeOK /\ relay \in [Links -> Labels]
  BY DEF OInv, SInv, DInv, TypeOK
<1> USE DEF sharedVars, pcVars, countVars, clientVars
<1>1. ASSUME NEW l \in Links, Dial(l) \/ RelayStep(l), ~ Route(l) PROVE RepliesInOrder'
  <2>1. UNCHANGED <<inbox, down, replied>> /\ overlapped \subseteq overlapped'
    BY <1>1 DEF Dial, RelayStep, Authenticate, SetConn, StoreMux, ReadFails, ClearConn, DeleteMux
  <2>2. \/ Step(l, "new", "auth") \/ Step(l, "auth", "known") \/ Step(l, "auth", "done")
        \/ Step(l, "known", "set") \/ Step(l, "set", "loop") \/ Step(l, "loop", "clear")
        \/ Step(l, "clear", "delete") \/ Step(l, "delete", "done")
    BY <1>1 DEF Dial, RelayStep, Authenticate, SetConn, StoreMux, ReadFails, ClearConn, DeleteMux
  <2> QED
    BY <1>0, <2>1, <2>2, RestReplies DEF Step, InService
<1>2. ASSUME NEW c \in Clients, Arrive(c) \/ ClientSends(c) \/ ClientStep(c) PROVE RepliesInOrder'
  <2>1. UNCHANGED <<inbox, down, replied, overlapped, relay>>
    BY <1>2 DEF Arrive, ClientSends, ClientStep, CheckRelay, GetMux, AddClient, ReadMessage,
                ClientReadFails, LoadConn, WriteConn, RemoveClient
  <2> QED
    BY <2>1, RestReplies
<1>3. ASSUME NEW x, Break(x) PROVE RepliesInOrder'
  BY <1>3, RestReplies DEF Break
<1>4. CASE UNCHANGED vars
  BY <1>4, RestReplies DEF vars
<1> QED
  BY <1>1, <1>2, <1>3, <1>4, RouteReplies, PCSendsReplies DEF Next, RelayStep

-----------------------------------------------------------------------------
(* The mailbox.  What OrderIsKept does not need and the refinement does: a *)
(* reply is in one place only, and who says goodbye is gone.               *)

\* A reply was sent, and is on its way once or in its client's inbox once,
\* however many handlers read.
OnlyOnce ==
  /\ \A c \in Clients : \A i \in DOMAIN inbox[c] : inbox[c][i] <= replied[c]
  /\ \A l \in Links : \A i \in DOMAIN down[l] :
       /\ down[l][i].kind <= replied[down[l][i].of]
       /\ \A j \in DOMAIN inbox[down[l][i].of] : inbox[down[l][i].of][j] # down[l][i].kind
  /\ \A k, l \in Links : \A i \in DOMAIN down[k], j \in DOMAIN down[l] :
       down[k][i] = down[l][j] => k = l /\ i = j

Leaving(c) == handler[c].pc \in {"load", "write"} /\ handler[c].env = Disconnected => wire[c] = "gone"

LeftAreGone == \A c \in Clients : Leaving(c)

\* A connection without a handler was not dialled.
Undialled == \A l \in Links : relay[l] = "new" => wire[l] = "new"

MInv == OInv /\ OnlyOnce /\ LeftAreGone /\ Undialled

LEMMA InitMail == Init => OnlyOnce /\ LeftAreGone /\ Undialled
<1> SUFFICES ASSUME Init PROVE OnlyOnce /\ LeftAreGone /\ Undialled
  OBVIOUS
<1>1. DOMAIN <<>> = {}
  OBVIOUS
<1>2. (\A c \in Clients : DOMAIN inbox[c] = {} /\ handler[c].pc = "new") /\ (\A l \in Links : DOMAIN down[l] = {})
  BY <1>1 DEF Init
<1> QED
  BY <1>2 DEF Init, OnlyOnce, LeftAreGone, Leaving, Undialled

\* Who is gone stays gone, and a handler that another one's step leaves alone
\* is where it was.
LEMMA StillLeaving ==
  ASSUME LeftAreGone, NEW c \in Clients, \A k \in Clients \ {c} : handler'[k] = handler[k],
         \A k \in Clients : wire[k] = "gone" => wire'[k] = "gone",
         Leaving(c)'
  PROVE  LeftAreGone'
  BY DEF LeftAreGone, Leaving

LEMMA RestLeaving ==
  ASSUME LeftAreGone, UNCHANGED handler, \A k \in Clients : wire[k] = "gone" => wire'[k] = "gone"
  PROVE  LeftAreGone'
  BY DEF LeftAreGone, Leaving

LEMMA ClientStepLeaving ==
  ASSUME SInv, LeftAreGone, NEW c \in Clients, ClientStep(c)
  PROVE  LeftAreGone'
<1>0. TypeOK /\ handler \in HandlerType /\ Queued(c)
  BY HandlerTyped DEF SInv, DInv, Streams
<1> USE DEF sharedVars, pcVars, clientVars, countVars, At
<1>1. ASSUME Refuse(c)
      PROVE  /\ handler'[c].pc = "done" /\ \A k \in Clients \ {c} : handler'[k] = handler[k]
             /\ \A k \in Clients : wire[k] = "gone" => wire'[k] = "gone"
  BY <1>0, <1>1, GotoEffect DEF Refuse, TypeOK, HandlerLabels
<1>2. CASE CheckRelay(c)
  BY <1>0, <1>1, <1>2, GotoEffect, StillLeaving DEF CheckRelay, Leaving, HandlerLabels
<1>3. CASE GetMux(c)
  BY <1>0, <1>1, <1>3, GotoEffect, StillLeaving DEF GetMux, Leaving, HandlerLabels
<1>4. CASE AddClient(c)
  <2>1. Connected # Disconnected
    BY BoundsOK DEF Connected, Disconnected
  <2> QED
    BY <1>0, <1>1, <1>4, <2>1, NumbersNat, ForwardEffect, StillLeaving DEF AddClient, Leaving
<1>5. CASE ReadMessage(c)
  <2>1. PICK n : n = Head(up[c])
    OBVIOUS
  <2>2. up[c] \in Seq(1 .. MaxMsgs) /\ up[c] # <<>>
    BY <1>5 DEF ReadMessage, SInv, DInv, TypeOK
  <2>3. n \in 1 .. MaxMsgs
    BY <2>1, <2>2, TailAt
  <2>4. n \in Numbers /\ n # Disconnected
    BY <2>3, BoundsOK DEF Numbers, Disconnected
  <2> QED
    BY <1>0, <1>5, <2>1, <2>4, ForwardEffect, StillLeaving DEF ReadMessage, Leaving
<1>6. CASE ClientReadFails(c)
  BY <1>0, <1>6, NumbersNat, ForwardEffect, StillLeaving DEF ClientReadFails, Leaving
<1>7. CASE LoadConn(c)
  <2>1. PICK label : handler' = [handler EXCEPT ![c] = [pc |-> label, env |-> handler[c].env, seen |-> conn]]
    BY <1>0, <1>7 DEF LoadConn
  <2>2. handler[c].pc = "load" /\ wire' = wire
    BY <1>7 DEF LoadConn
  <2>3. handler'[c].env = handler[c].env /\ \A k \in Clients \ {c} : handler'[k] = handler[k]
    BY <1>0, <2>1 DEF HandlerType
  <2> QED
    BY <2>2, <2>3, StillLeaving DEF LeftAreGone, Leaving
<1>8. CASE WriteConn(c)
  <2>1. PICK label \in {"remove", "loop"} : Goto(c, label)
    BY <1>8 DEF WriteConn, After
  <2>2. handler'[c].pc = label /\ \A k \in Clients \ {c} : handler'[k] = handler[k]
    BY <1>0, <2>1, GotoEffect DEF HandlerLabels
  <2> QED
    BY <1>8, <2>1, <2>2, StillLeaving DEF WriteConn, Leaving
<1>9. CASE RemoveClient(c)
  BY <1>1, <1>9, StillLeaving DEF RemoveClient, Leaving
<1> QED
  BY <1>2, <1>3, <1>4, <1>5, <1>6, <1>7, <1>8, <1>9 DEF ClientStep

LEMMA NextLeaving == SInv /\ LeftAreGone /\ [Next]_vars => LeftAreGone'
<1> SUFFICES ASSUME SInv, LeftAreGone, [Next]_vars PROVE LeftAreGone'
  OBVIOUS
<1>0. TypeOK
  BY DEF SInv, DInv
<1>1. ASSUME NEW l \in Links, Dial(l) \/ RelayStep(l) PROVE LeftAreGone'
  <2>1. handler' = handler /\ (wire' = wire \/ wire' = [wire EXCEPT ![l] = "open"])
    BY <1>1 DEF Dial, RelayStep, Authenticate, SetConn, StoreMux, Route, ReadFails, ClearConn, DeleteMux
  <2> QED
    BY <1>0, <2>1, EndsDiffer, RestLeaving DEF TypeOK
<1>2. ASSUME NEW x \in Links \cup Clients, Break(x) PROVE LeftAreGone'
  BY <1>0, <1>2, RestLeaving DEF Break, TypeOK
<1>3. ASSUME NEW c \in Clients, Arrive(c) PROVE LeftAreGone'
  BY <1>0, <1>3, RestLeaving DEF Arrive, TypeOK
<1>4. ASSUME NEW c \in Clients, NEW l \in Links, PCSends(l, c) PROVE LeftAreGone'
  BY <1>4, RestLeaving DEF PCSends
<1>5. ASSUME NEW c \in Clients, ClientSends(c) PROVE LeftAreGone'
  BY <1>5, RestLeaving DEF ClientSends
<1>6. CASE UNCHANGED vars
  BY <1>6, RestLeaving DEF vars
<1> QED
  BY <1>1, <1>2, <1>3, <1>4, <1>5, <1>6, ClientStepLeaving DEF Next
LEMMA NextUndialled == TypeOK /\ Undialled /\ [Next]_vars => Undialled'
<1> SUFFICES ASSUME TypeOK, Undialled, [Next]_vars PROVE Undialled'
  OBVIOUS
<1> USE DEF sharedVars, pcVars, countVars, clientVars
<1>0. relay \in [Links -> Labels] /\ wire \in [Links \cup Clients -> {"new", "open", "gone"}]
  BY DEF TypeOK, Labels
<1>1. ASSUME NEW l \in Links, Dial(l) \/ RelayStep(l) PROVE Undialled'
  <2>1. relay' = [relay EXCEPT ![l] = relay'[l]] /\ relay'[l] # "new"
    <3>1. relay' = relay \/ \E to \in Labels \ {"new"} : relay' = [relay EXCEPT ![l] = to]
      BY <1>1 DEF Dial, RelayStep, Authenticate, SetConn, StoreMux, Route, ReadFails, ClearConn, DeleteMux,
                  Step, Labels
    <3>2. relay' = relay => relay[l] # "new"
      BY <1>0, <1>1 DEF Dial, RelayStep, Authenticate, SetConn, StoreMux, Route, ReadFails, ClearConn,
                        DeleteMux, Step
    <3> QED
      BY <1>0, <3>1, <3>2
  <2>2. wire' = wire \/ wire' = [wire EXCEPT ![l] = "open"]
    BY <1>1 DEF Dial, RelayStep, Authenticate, SetConn, StoreMux, Route, ReadFails, ClearConn, DeleteMux
  <2> QED
    BY <1>0, <2>1, <2>2 DEF Undialled
<1>2. ASSUME NEW x \in Links \cup Clients, Break(x) PROVE Undialled'
  BY <1>0, <1>2 DEF Break, Undialled
<1>3. ASSUME NEW c \in Clients, Arrive(c) \/ ClientStep(c) PROVE Undialled'
  <2>1. relay' = relay /\ \E to : wire' = wire \/ wire' = [wire EXCEPT ![c] = to]
    BY <1>3 DEF Arrive, ClientStep, CheckRelay, GetMux, AddClient, ReadMessage, ClientReadFails, LoadConn,
                WriteConn, RemoveClient, Refuse
  <2> QED
    BY <1>0, <2>1, EndsDiffer DEF Undialled
<1>4. ASSUME UNCHANGED <<relay, wire>> PROVE Undialled'
  BY <1>4 DEF Undialled
<1>5. ASSUME NEW c \in Clients, ClientSends(c) \/ \E l \in Links : PCSends(l, c) PROVE Undialled'
  BY <1>4, <1>5 DEF ClientSends, PCSends
<1>6. CASE UNCHANGED vars
  BY <1>4, <1>6 DEF vars
<1> QED
  BY <1>1, <1>2, <1>3, <1>5, <1>6 DEF Next

\* A queued reply was sent and is not delivered.
LEMMA QueuedOnce ==
  ASSUME OnlyOnce, NEW l \in Links, NEW i \in DOMAIN down[l]
  PROVE  /\ down[l][i].kind <= replied[down[l][i].of]
         /\ \A j \in DOMAIN inbox[down[l][i].of] : inbox[down[l][i].of][j] # down[l][i].kind
  BY DEF OnlyOnce

\* No two queued replies are the same.
LEMMA QueuedApart ==
  ASSUME OnlyOnce, NEW k \in Links, NEW l \in Links, NEW i \in DOMAIN down[k], NEW j \in DOMAIN down[l],
         down[k][i] = down[l][j]
  PROVE  k = l /\ i = j
  BY DEF OnlyOnce

\* A reply goes from the front of what is queued into its client's inbox, or is lost.
LEMMA RouteOnce ==
  ASSUME TypeOK, OnlyOnce, NEW l \in Links, Route(l)
  PROVE  OnlyOnce'
<1>1. PICK q \in Seq(Replies) : q = down[l]
  BY DEF TypeOK
<1>2. PICK p : p = Tail(q)
  OBVIOUS
<1>3. /\ Len(q) \in Nat \ {0} /\ DOMAIN q = 1 .. Len(q) /\ DOMAIN p = 1 .. Len(q) - 1
      /\ Head(q) = q[1] /\ 1 \in DOMAIN q /\ Head(q) \in Replies
      /\ \A i \in DOMAIN p : i + 1 \in DOMAIN q /\ p[i] = q[i + 1]
  BY <1>1, <1>2, TailAt DEF Route
<1>4. PICK e \in Replies : e = q[1]
  BY <1>3
<1>5. e.of \in Clients /\ e.kind \in 1 .. MaxReplies /\ e = [of |-> e.of, kind |-> e.kind]
  BY <1>4 DEF Replies
<1>6. replied' = replied /\ down'[l] = p /\ \A k \in Links \ {l} : down'[k] = down[k]
  <2>1. down \in [Links -> Seq(Replies)]
    BY DEF TypeOK
  <2>2. down' = [down EXCEPT ![l] = p] /\ replied' = replied
    BY <1>1, <1>2 DEF Route, countVars
  <2> QED
    BY <2>1, <2>2
<1>7. /\ \A c \in Clients \ {e.of} : inbox'[c] = inbox[c]
      /\ inbox'[e.of] \in {inbox[e.of], Append(inbox[e.of], e.kind)}
  <2>1. inbox \in [Clients -> Seq(1 .. MaxReplies)]
    BY DEF TypeOK
  <2>2. inbox' = inbox \/ inbox' = [inbox EXCEPT ![e.of] = Append(@, e.kind)]
    BY <1>1, <1>3, <1>4 DEF Route
  <2> QED
    BY <1>5, <2>1, <2>2
\* What is delivered was there, or is the reply at hand.
<1>8. ASSUME NEW c \in Clients, NEW j \in DOMAIN inbox'[c]
      PROVE  (j \in DOMAIN inbox[c] /\ inbox'[c][j] = inbox[c][j]) \/ (c = e.of /\ inbox'[c][j] = e.kind)
  <2>1. CASE inbox'[c] = inbox[c]
    BY <1>8, <2>1
  <2>2. CASE c = e.of /\ inbox'[c] = Append(inbox[c], e.kind)
    <3>1. PICK r \in Seq(1 .. MaxReplies) : r = inbox[c]
      BY DEF TypeOK
    <3>2. PICK t : t = Append(r, e.kind)
      OBVIOUS
    <3>3. /\ Len(r) \in Nat /\ DOMAIN r = 1 .. Len(r) /\ DOMAIN t = 1 .. Len(r) + 1
          /\ (\A i \in DOMAIN r : t[i] = r[i]) /\ t[Len(r) + 1] = e.kind
      BY <1>5, <3>2, AppendAt
    <3>4. j \in DOMAIN t /\ t = inbox'[c]
      BY <1>8, <2>2, <3>1, <3>2
    <3> QED
      BY <2>2, <3>1, <3>3, <3>4
  <2> QED
    BY <1>7, <2>1, <2>2
\* What is queued was queued, and is not what was at the front.
<1>9. ASSUME NEW k \in Links, NEW i \in DOMAIN down'[k]
      PROVE  \E n \in DOMAIN down[k] : /\ down'[k][i] = down[k][n] /\ (k = l => n = i + 1 /\ i \in Nat)
                                       /\ (k # l => n = i) /\ ~ (k = l /\ n = 1)
  <2>1. CASE k = l
    BY <1>1, <1>3, <1>6, <1>9, <2>1
  <2>2. CASE k # l
    BY <1>6, <1>9, <2>2
  <2> QED
    BY <2>1, <2>2
<1>10. ASSUME NEW c \in Clients, NEW i \in DOMAIN inbox'[c] PROVE inbox'[c][i] <= replied'[c]
  <2>1. e.kind <= replied[e.of]
    BY <1>1, <1>3, <1>4 DEF OnlyOnce
  <2> QED
    BY <1>6, <1>8, <2>1 DEF OnlyOnce
<1>11. ASSUME NEW k \in Links, NEW i \in DOMAIN down'[k]
       PROVE  /\ down'[k][i].kind <= replied'[down'[k][i].of]
              /\ \A j \in DOMAIN inbox'[down'[k][i].of] : inbox'[down'[k][i].of][j] # down'[k][i].kind
  <2>1. PICK n \in DOMAIN down[k] : down'[k][i] = down[k][n] /\ ~ (k = l /\ n = 1)
    BY <1>9
  <2>2. PICK f : f = down[k][n]
    OBVIOUS
  <2>3. /\ f \in Replies /\ f.of \in Clients /\ f = [of |-> f.of, kind |-> f.kind]
    <3>1. down[k] \in Seq(Replies)
      BY DEF TypeOK
    <3>2. f \in Replies
      BY <2>2, <3>1, ElementAt
    <3> QED
      BY <3>2 DEF Replies
  <2>4. f.kind <= replied[f.of] /\ \A j \in DOMAIN inbox[f.of] : inbox[f.of][j] # f.kind
    BY <2>2, QueuedOnce
  <2>5. f # e
    BY <1>1, <1>3, <1>4, <2>1, <2>2, QueuedApart
  <2>6. f.of = e.of => f.kind # e.kind
    BY <1>5, <2>3, <2>5
  <2> QED
    BY <1>6, <1>8, <2>1, <2>2, <2>3, <2>4, <2>6
<1>12. ASSUME NEW k \in Links, NEW h \in Links, NEW i \in DOMAIN down'[k], NEW j \in DOMAIN down'[h],
              down'[k][i] = down'[h][j]
       PROVE  k = h /\ i = j
  <2>1. PICK m \in DOMAIN down[k] : /\ down'[k][i] = down[k][m] /\ (k = l => m = i + 1 /\ i \in Nat)
                                    /\ (k # l => m = i)
    BY <1>9
  <2>2. PICK n \in DOMAIN down[h] : /\ down'[h][j] = down[h][n] /\ (h = l => n = j + 1 /\ j \in Nat)
                                    /\ (h # l => n = j)
    BY <1>9
  <2>3. down[k][m] = down[h][n]
    BY <1>12, <2>1, <2>2
  <2>4. k = h /\ m = n
    BY <2>3, QueuedApart
  <2> QED
    BY <2>1, <2>2, <2>4
<1> QED
  BY <1>10, <1>11, <1>12 DEF OnlyOnce

\* A new reply has a new number.
LEMMA PCSendsOnce ==
  ASSUME TypeOK, OnlyOnce, NEW l \in Links, NEW c \in Clients, PCSends(l, c)
  PROVE  OnlyOnce'
<1>1. inbox' = inbox
  BY DEF PCSends, clientVars
<1>2. PICK n \in Nat : n = replied[c]
  BY ReplyNumbers
<1>3. replied'[c] = n + 1 /\ \A h \in Clients \ {c} : replied'[h] = replied[h]
  BY <1>2 DEF PCSends, TypeOK
<1>4. PICK e : e = Envelope(c, n + 1)
  OBVIOUS
<1>5. e \in Replies /\ e.of = c /\ e.kind = n + 1
  <2>1. n + 1 \in 1 .. MaxReplies
    BY <1>2, BoundsOK DEF PCSends
  <2> QED
    BY <1>4, <2>1 DEF Replies, Envelope
<1>6. PICK q \in Seq(Replies) : q = down[l]
  BY DEF TypeOK
<1>7. PICK p : p = Append(q, e)
  OBVIOUS
<1>8. /\ Len(q) \in Nat /\ DOMAIN q = 1 .. Len(q) /\ DOMAIN p = 1 .. Len(q) + 1
      /\ \A i \in DOMAIN q : p[i] = q[i]
      /\ p[Len(q) + 1] = e
  BY <1>5, <1>7, AppendAt
<1>9. down'[l] = p /\ \A k \in Links \ {l} : down'[k] = down[k]
  <2>1. down \in [Links -> Seq(Replies)]
    BY DEF TypeOK
  <2>2. down' = [down EXCEPT ![l] = p]
    BY <1>2, <1>4, <1>6, <1>7 DEF PCSends
  <2> QED
    BY <2>1, <2>2
<1>10. \A h \in Clients : replied[h] <= replied'[h] /\ replied[h] \in Nat /\ replied'[h] \in Nat
  BY <1>2, <1>3, ReplyNumbers
<1>11. ASSUME NEW h \in Clients, NEW i \in DOMAIN inbox[h] PROVE inbox[h][i] <= replied'[h]
  <2>1. inbox[h][i] <= replied[h] /\ inbox[h][i] \in Nat
    BY ReplyNumbers DEF OnlyOnce
  <2> QED
    BY <1>10, <2>1
\* What is queued was queued, or is the new reply at the end.
<1>12. ASSUME NEW k \in Links, NEW i \in DOMAIN down'[k]
       PROVE  \/ i \in DOMAIN down[k] /\ down'[k][i] = down[k][i]
              \/ k = l /\ i = Len(q) + 1 /\ down'[k][i] = e
  <2>1. CASE k = l
    BY <1>6, <1>8, <1>9, <1>12, <2>1
  <2>2. CASE k # l
    BY <1>9, <1>12, <2>2
  <2> QED
    BY <2>1, <2>2
<1>13. ASSUME NEW k \in Links, NEW i \in DOMAIN down[k]
       PROVE  /\ down[k][i].of \in Clients /\ down[k][i].kind \in Nat
              /\ down[k][i].kind <= replied[down[k][i].of]
              /\ \A j \in DOMAIN inbox[down[k][i].of] : inbox[down[k][i].of][j] # down[k][i].kind
              /\ down[k][i] # e
  <2>1. /\ down[k][i].of \in Clients /\ down[k][i].kind \in Nat
        /\ down[k][i].kind <= replied[down[k][i].of]
        /\ \A j \in DOMAIN inbox[down[k][i].of] : inbox[down[k][i].of][j] # down[k][i].kind
    BY ReplyNumbers DEF OnlyOnce
  <2>2. down[k][i] = e => FALSE
    BY <1>2, <1>5, <2>1
  <2> QED
    BY <2>1, <2>2
<1>14. ASSUME NEW k \in Links, NEW i \in DOMAIN down'[k], NEW f, f = down'[k][i]
       PROVE  f.kind <= replied'[f.of] /\ \A j \in DOMAIN inbox[f.of] : inbox[f.of][j] # f.kind
  <2>1. CASE i \in DOMAIN down[k] /\ f = down[k][i]
    <3>1. /\ f.of \in Clients /\ f.kind \in Nat /\ f.kind <= replied[f.of]
          /\ \A j \in DOMAIN inbox[f.of] : inbox[f.of][j] # f.kind
      BY <1>13, <2>1
    <3> QED
      BY <1>10, <3>1
  <2>2. CASE f = e
    <3>1. \A j \in DOMAIN inbox[c] : inbox[c][j] <= n /\ inbox[c][j] \in Nat
      BY <1>2, ReplyNumbers DEF OnlyOnce
    <3>2. \A j \in DOMAIN inbox[c] : inbox[c][j] # n + 1
      BY <3>1
    <3> QED
      BY <1>3, <1>5, <2>2, <3>2
  <2> QED
    BY <1>12, <1>14, <2>1, <2>2
<1>15. ASSUME NEW k \in Links, NEW h \in Links, NEW i \in DOMAIN down'[k], NEW j \in DOMAIN down'[h],
              down'[k][i] = down'[h][j]
       PROVE  k = h /\ i = j
  BY <1>12, <1>13, <1>15 DEF OnlyOnce
<1>16. \A h \in Clients : \A i \in DOMAIN inbox'[h] : inbox'[h][i] <= replied'[h]
  BY <1>1, <1>11
<1>17. \A k \in Links : \A i \in DOMAIN down'[k] :
         /\ down'[k][i].kind <= replied'[down'[k][i].of]
         /\ \A j \in DOMAIN inbox'[down'[k][i].of] : inbox'[down'[k][i].of][j] # down'[k][i].kind
  BY <1>1, <1>14
<1> QED
  BY <1>15, <1>16, <1>17 DEF OnlyOnce

LEMMA NextMail == MInv /\ [Next]_vars => MInv'
<1> SUFFICES ASSUME MInv, [Next]_vars PROVE OnlyOnce'
  BY NextReplies, NextLeaving, NextUndialled DEF MInv, OInv, SInv, DInv
<1>0. TypeOK /\ OnlyOnce
  BY DEF MInv, OInv, SInv, DInv
<1> USE DEF sharedVars, pcVars, countVars, clientVars
<1>1. ASSUME UNCHANGED <<inbox, down, replied>> PROVE OnlyOnce'
  BY <1>0, <1>1 DEF OnlyOnce
<1>2. ASSUME NEW l \in Links, Dial(l) \/ RelayStep(l), ~ Route(l) PROVE OnlyOnce'
  BY <1>1, <1>2 DEF Dial, RelayStep, Authenticate, SetConn, StoreMux, ReadFails, ClearConn, DeleteMux
<1>3. ASSUME NEW c \in Clients, Arrive(c) \/ ClientSends(c) \/ ClientStep(c) PROVE OnlyOnce'
  BY <1>1, <1>3 DEF Arrive, ClientSends, ClientStep, CheckRelay, GetMux, AddClient, ReadMessage,
                    ClientReadFails, LoadConn, WriteConn, RemoveClient
<1>4. ASSUME NEW x, Break(x) PROVE OnlyOnce'
  BY <1>1, <1>4 DEF Break
<1>5. CASE UNCHANGED vars
  BY <1>1, <1>5 DEF vars
<1> QED
  BY <1>0, <1>2, <1>3, <1>4, <1>5, RouteOnce, PCSendsOnce DEF Next, RelayStep

-----------------------------------------------------------------------------
(* Every step of the relay is a step of the mailbox or leaves it alone.    *)

\* The envelopes of a client on a link, as the mailbox names them.
LEMMA KindsOnLink ==
  ASSUME NEW l, NEW c
  PROVE  /\ \A n : n \in Mail!KindsOn(l, c) <=> \E i \in DOMAIN toPC[l] : toPC[l][i].of = c /\ toPC[l][i].kind = n
         /\ Knows(c, l) => Mail!KindsOn(l, c) # {}
         /\ Mail!KindsOn(l, c) # {} => Knows(c, l)
<1>1. \A n : n \in Mail!KindsOn(l, c) <=> \E i \in DOMAIN toPC[l] : toPC[l][i].of = c /\ toPC[l][i].kind = n
  BY DEF Mail!KindsOn
<1> QED
  BY <1>1 DEF Knows

\* An envelope the PC has of a client is in the mailbox's set.
LEMMA HeardKind ==
  ASSUME NEW l, NEW c, NEW k, Heard(c, k, l)
  PROVE  k \in Mail!KindsOn(l, c)
<1>1. PICK i \in DOMAIN toPC[l] : toPC[l][i] = Envelope(c, k)
  BY DEF Heard, Range
<1>2. toPC[l][i].of = c /\ toPC[l][i].kind = k
  BY <1>1 DEF Envelope
<1> QED
  BY <1>2, KindsOnLink

\* A write of an envelope: the PC hears it, or it is lost.
LEMMA WriteConnMails ==
  ASSUME MInv, NEW c \in Clients, WriteConn(c)
  PROVE  Mail!Next \/ UNCHANGED Mail!vars
<1>0. TypeOK /\ Queued(c) /\ Behind(c) /\ UpToDate(c) /\ Leaving(c) /\ handler \in HandlerType
  BY HandlerTyped DEF MInv, OInv, SInv, DInv, Streams, LeftAreGone
<1>1. PICK n \in Numbers : handler[c].env = n
  BY <1>0 DEF HandlerType
<1>2. PICK k \in {handler[c].seen, conn} :
        toPC' = IF k # None /\ wire[k] = "open" THEN [toPC EXCEPT ![k] = Append(@, Envelope(c, n))] ELSE toPC
  BY <1>1 DEF WriteConn
<1>3. handler[c].pc = "write" /\ UNCHANGED <<wire, sent, replied, inbox, overlapped>> /\ k \in Links \cup {None}
  BY <1>0 DEF WriteConn, At, countVars, clientVars, HandlerType, TypeOK
<1>4. CASE k = None \/ wire[k] # "open"
  BY <1>2, <1>3, <1>4 DEF Mail!vars
<1>5. CASE k # None /\ wire[k] = "open"
  <2>1. k \in Links
    BY <1>3, <1>5
  <2>2. n = Disconnected => wire[c] = "gone"
    BY <1>0, <1>1, <1>3 DEF Leaving
  <2>3. \A h \in Links : \A m \in Mail!KindsOn(h, c) : m < n
    BY <1>0, <1>1, <1>3, KindsOnLink DEF Behind
  <2>4. ASSUME k \notin overlapped, n # Disconnected, Mail!KindsOn(k, c) # {} PROVE n - 1 \in Mail!KindsOn(k, c)
    <3>1. Lasting(k) /\ Knows(c, k)
      BY <1>5, <2>4, KindsOnLink DEF Lasting
    <3>2. Heard(c, n - 1, k)
      BY <1>0, <1>1, <1>3, <2>1, <2>4, <3>1 DEF UpToDate
    <3> QED
      BY <3>2, HeardKind
  <2>5. toPC' = [toPC EXCEPT ![k] = Append(@, [of |-> c, kind |-> n])]
    BY <1>2, <1>5 DEF Envelope
  <2>6. Mail!Hear(k, c, n)
    BY <1>3, <1>5, <2>2, <2>3, <2>4, <2>5 DEF Mail!Hear
  <2>7. n \in 0 .. sent[c] \cup {Disconnected}
    <3>1. n # Disconnected => n = ReadOf(c)
      BY <1>0, <1>1, <1>3 DEF Queued
    <3>2. ReadOf(c) \in Nat /\ ReadOf(c) <= sent[c] /\ sent[c] \in Nat
      BY <1>0, CountsOf
    <3> QED
      BY <3>1, <3>2
  <2> QED
    BY <2>1, <2>6, <2>7 DEF Mail!Next
<1> QED
  BY <1>4, <1>5

\* A reply that is routed: its client gets it, or it is lost.
LEMMA RouteMails ==
  ASSUME MInv, NEW l \in Links, Route(l)
  PROVE  Mail!Next \/ UNCHANGED Mail!vars
<1>0. TypeOK /\ OnlyOnce
  BY DEF MInv, OInv, SInv, DInv
<1>1. relay[l] = "loop" /\ down[l] # <<>> /\ UNCHANGED <<wire, sent, replied, toPC, overlapped>>
  BY DEF Route, countVars
<1>2. PICK e : e = down[l][1]
  OBVIOUS
<1>3. 1 \in DOMAIN down[l] /\ e = Head(down[l]) /\ e \in Replies
  <2>1. down[l] \in Seq(Replies)
    BY <1>0 DEF TypeOK
  <2> QED
    BY <1>1, <1>2, <2>1, TailAt
<1>4. e.of \in Clients /\ e.kind \in 1 .. MaxReplies
  BY <1>3 DEF Replies
<1>5. inbox' = IF e.of \in clients /\ wire[e.of] = "open"
                 THEN [inbox EXCEPT ![e.of] = Append(@, e.kind)] ELSE inbox
  BY <1>3 DEF Route
<1>6. CASE ~ (e.of \in clients /\ wire[e.of] = "open")
  BY <1>1, <1>5, <1>6 DEF Mail!vars
<1>7. CASE e.of \in clients /\ wire[e.of] = "open"
  <2>1. e.kind <= replied[e.of] /\ \A j \in DOMAIN inbox[e.of] : inbox[e.of][j] # e.kind
    BY <1>0, <1>2, <1>3, QueuedOnce
  <2>2. overlapped = {} => \A j \in DOMAIN inbox[e.of] : inbox[e.of][j] < e.kind
    BY <1>1, <1>2, <1>3 DEF MInv, OInv, RepliesInOrder, Ahead, InService
  <2>3. \A n : n \in Mail!Range(inbox[e.of]) <=> \E j \in DOMAIN inbox[e.of] : inbox[e.of][j] = n
    BY DEF Mail!Range
  <2>4. Mail!Get(e.of, e.kind)
    BY <1>1, <1>5, <1>7, <2>1, <2>2, <2>3 DEF Mail!Get
  <2>5. e.kind \in 1 .. replied[e.of]
    BY <1>0, <1>4, <2>1, ReplyNumbers, BoundsOK
  <2> QED
    BY <1>4, <2>4, <2>5 DEF Mail!Next
<1> QED
  BY <1>6, <1>7

\* The PC replies, and a client says something.
LEMMA SendsMail ==
  ASSUME TypeOK, NEW c \in Clients, ClientSends(c) \/ \E l \in Links : PCSends(l, c)
  PROVE  Mail!Next
<1>1. CASE ClientSends(c)
  <2>1. sent[c] + 1 < Disconnected
    BY <1>1, BoundsOK DEF ClientSends, TypeOK, Disconnected
  <2>2. Mail!Say(c)
    BY <1>1, <2>1 DEF ClientSends, Mail!Say, pcVars
  <2> QED
    BY <2>2 DEF Mail!Next
<1>2. ASSUME NEW l \in Links, PCSends(l, c) PROVE Mail!Next
  <2>1. \E k \in Links : Mail!KindsOn(k, c) # {}
    BY <1>2, KindsOnLink DEF PCSends, Knows
  <2>2. Mail!Reply(c)
    BY <1>2, <2>1 DEF PCSends, Mail!Reply, clientVars
  <2> QED
    BY <2>2 DEF Mail!Next
<1> QED
  BY <1>1, <1>2

\* Connections are made and lost; handlers turn out to be at work together.
LEMMA WiresMail ==
  ASSUME UNCHANGED <<sent, replied, toPC, inbox>>, NEW x \in Links \cup Clients,
         \/ wire' = wire /\ overlapped' = overlapped
         \/ wire' = wire /\ overlapped \subseteq overlapped' /\ overlapped' \subseteq Links
         \/ wire[x] = "new" /\ wire' = [wire EXCEPT ![x] = "open"] /\ overlapped' = overlapped
         \/ wire' = [wire EXCEPT ![x] = "gone"] /\ overlapped' = overlapped
  PROVE  Mail!Next \/ UNCHANGED Mail!vars
  BY DEF Mail!Next, Mail!vars, Mail!Split, Mail!Connect, Mail!Close

LEMMA NextMails ==
  ASSUME MInv, [Next]_vars
  PROVE  Mail!Next \/ UNCHANGED Mail!vars
<1>0. TypeOK
  BY DEF MInv, OInv, SInv, DInv
<1> USE DEF sharedVars, pcVars, countVars, clientVars
<1>1. ASSUME NEW l \in Links, Dial(l) PROVE Mail!Next \/ UNCHANGED Mail!vars
  <2>1. relay[l] = "new" /\ wire' = [wire EXCEPT ![l] = "open"] /\ UNCHANGED <<sent, replied, toPC, inbox, overlapped>>
    BY <1>1 DEF Dial, Step
  <2>2. wire[l] = "new"
    BY <2>1 DEF MInv, Undialled
  <2> QED
    BY <2>1, <2>2, WiresMail
<1>2. ASSUME NEW l \in Links, RelayStep(l), ~ Route(l) PROVE Mail!Next \/ UNCHANGED Mail!vars
  <2>1. UNCHANGED <<wire, sent, replied, toPC, inbox>>
    BY <1>2 DEF RelayStep, Authenticate, SetConn, StoreMux, ReadFails, ClearConn, DeleteMux
  <2>2. overlapped \subseteq overlapped' /\ overlapped' \subseteq Links
    BY <1>0, <1>2 DEF RelayStep, Authenticate, SetConn, StoreMux, ReadFails, ClearConn, DeleteMux,
                      TypeOK, Authenticated
  <2> QED
    BY <2>1, <2>2, WiresMail
<1>3. ASSUME NEW x \in Links \cup Clients, Break(x) PROVE Mail!Next \/ UNCHANGED Mail!vars
  BY <1>3, WiresMail DEF Break
<1>4. ASSUME NEW c \in Clients, Arrive(c) PROVE Mail!Next \/ UNCHANGED Mail!vars
  BY <1>4, WiresMail DEF Arrive
<1>5. ASSUME NEW c \in Clients, ClientStep(c), ~ WriteConn(c) PROVE Mail!Next \/ UNCHANGED Mail!vars
  <2>1. UNCHANGED <<sent, replied, toPC, inbox, overlapped>>
    BY <1>5 DEF ClientStep, CheckRelay, GetMux, AddClient, ReadMessage, ClientReadFails, LoadConn, RemoveClient
  <2>2. wire' = wire \/ wire' = [wire EXCEPT ![c] = "gone"]
    BY <1>5 DEF ClientStep, CheckRelay, GetMux, AddClient, ReadMessage, ClientReadFails, LoadConn,
                RemoveClient, Refuse
  <2> QED
    BY <2>1, <2>2, WiresMail
<1>6. CASE UNCHANGED vars
  BY <1>6 DEF vars, Mail!vars
<1> QED
  BY <1>0, <1>1, <1>2, <1>3, <1>4, <1>5, <1>6, WriteConnMails, RouteMails, SendsMail DEF Next, RelayStep, ClientStep

-----------------------------------------------------------------------------
(* The results.                                                            *)

\* Every state of the relay server is of its type.
THEOREM TypeCorrect == Spec => []TypeOK
<1>1. Init => TypeOK
  BY InitType
<1>2. TypeOK /\ [Next]_vars => TypeOK'
  BY NextType
<1> QED
  BY <1>1, <1>2, PTL DEF Spec

\* The registration's invariant holds in every behaviour.
THEOREM Registration == Spec => []IInv
<1>1. Init => IInv
  BY InitRegistered
<1>2. IInv /\ [Next]_vars => IInv'
  BY NextRegistered
<1> QED
  BY <1>1, <1>2, PTL DEF Spec

\* Neither Conn nor a multiplexer outlives the handler that set it.
THEOREM NothingOutlives == Spec => []NothingOutlivesItsHandler
<1>1. IInv => NothingOutlivesItsHandler
  BY DEF IInv
<1> QED
  BY <1>1, Registration, PTL

\* A connection that no other one overlapped is in force while it is up.
THEOREM LoneLink == Spec => []LoneLinkIsInForce
<1>1. IInv => LoneLinkIsInForce
  BY DEF IInv
<1> QED
  BY <1>1, Registration, PTL

\* A client's departure is told to the PC, on a connection that lasts and that
\* no other one overlapped, before the client's entry goes.
THEOREM DepartureReachesPC == Spec => []DepartureIsTold
<1>1. Init => DInv
  BY InitType, InitRegistered, InitHeard DEF DInv
<1>2. DInv /\ [Next]_vars => DInv'
  BY NextHeard
<1>3. DInv => DepartureIsTold
  BY DEF DInv, ClientsHeard, DepartureIsTold, Lasting, Heard
<1> QED
  BY <1>1, <1>2, <1>3, PTL DEF Spec

\* Messages keep their order both ways: the PC hears of a client in order, of
\* nothing twice and, on a connection that lasts and that no other one
\* overlapped, without a gap; a client gets the PC's messages in order as long
\* as the PC's connections did not overlap (client_handler.go:69-104,
\* multiplexer.go:63-72, 119-139).
THEOREM OrderKept == Spec => []OrderIsKept
<1>1. Init => OInv
  BY InitType, InitRegistered, InitHeard, InitStreams, InitReplies DEF OInv, SInv, DInv
<1>2. OInv /\ [Next]_vars => OInv'
  BY NextReplies
<1>3. OInv => OrderIsKept
  BY DEF OInv, SInv, Streams, Ordered, Lasting, Heard, RepliesInOrder, Delivered, OrderIsKept
<1> QED
  BY <1>1, <1>2, <1>3, PTL DEF Spec

\* The relay is a mailbox: nothing is invented and nothing delivered twice, even
\* while the PC's connections overlap; the PC hears of a client in order over
\* all its connections, and "disconnected" once the client is gone; what is
\* missing is missing before or after what a connection that lasts has heard.
THEOREM RelayIsMailbox == Spec => ImplementsMailbox
<1>1. Init => Mail!Init
  BY DEF Init, Mail!Init
<1>2. Init => MInv
  BY InitType, InitRegistered, InitHeard, InitStreams, InitReplies, InitMail DEF MInv, OInv, SInv, DInv
<1>3. MInv /\ [Next]_vars => MInv'
  BY NextMail
<1>4. MInv /\ [Next]_vars => [Mail!Next]_(Mail!vars)
  BY NextMails
<1> QED
  BY <1>1, <1>2, <1>3, <1>4, PTL DEF Spec, ImplementsMailbox, Mail!Spec
=============================================================================
