------------------------ MODULE WebConnectionProofs ------------------------
(***************************************************************************)
(* Proofs about WebConnection, for any number of sockets and any           *)
(* MAX_RECONNECT_ATTEMPTS: its type invariant, AuthenticatedIsUsable,      *)
(* LogoutIsFinal and NothingHangs.                                         *)
(*                                                                         *)
(* None of the three is inductive.  What holds the connection together is  *)
(* that, as long as calls of connect do not cross, there is at most one    *)
(* live socket whose call waits (OneWaiter), its auth request went out     *)
(* over the global ws (OverGlobal), and it, a timer and the state          *)
(* "authenticated" exclude each other (Exclusive).                         *)
(***************************************************************************)
EXTENDS WebConnection, TLAPS

\* A socket that is being opened, or whose auth request is waited for, belongs
\* to a call of connect that waits.
SocketsOK ==
  /\ \A k \in Socks : sock[k] = "connecting" => Waits(k)
  /\ \A k \in pending : Waits(k) /\ sock[k] \in {"open", "closing"}

Uncrossed == "crossed" \notin trouble

OneWaiter == Uncrossed => \A h, k \in Live : Waits(h) /\ Waits(k) => h = k

OverGlobal == Uncrossed => \A k \in pending : job[k].over = ws

Idle == \A k \in Live : ~ Waits(k)

Exclusive ==
  Uncrossed =>
    /\ con = "authenticated" \/ timer # "none" \/ cred = "none" => Idle
    /\ timer # "none" => con # "authenticated"
    /\ orphans = {}

\* Nothing but a call that waits is behind a state in between.
Behind == trouble = {} => (con \in {"connecting", "connected"} => \E k \in Socks : Waits(k))

Calls == OneWaiter /\ OverGlobal /\ Exclusive

IInv == TypeOK /\ SocketsOK /\ Calls /\ Behind
        /\ AuthenticatedIsUsable /\ LogoutIsFinal /\ NothingHangs

-----------------------------------------------------------------------------
(* What the parts of an action do.                                         *)

Job == [by : {"login", "auto"}, token : Tokens,
        pc : {"none", "pending", "resolved", "settled"}, over : Socks \cup {None}]

LEMMA ReconnectTypes ==
  ASSUME TypeOK, NEW e \in BOOLEAN, AttemptReconnect(e)
  PROVE  /\ error' \in BOOLEAN /\ (e => error')
         /\ timer' \in Tokens \cup {"none"}
         /\ orphans' \in SUBSET Tokens
         /\ attempts' \in 0 .. MaxAttempts
         /\ cred = "none" => timer' = timer
         /\ timer = "none" => orphans' = orphans
         /\ cred # "none" => error' \/ timer' # "none"
  <1>1. CASE cred # "none" /\ attempts < MaxAttempts
    <2>1. timer' = cred /\ orphans' = (IF timer = "none" THEN orphans ELSE orphans \cup {timer})
          /\ attempts' = attempts + 1
      BY <1>1, Zenon DEF AttemptReconnect
    <2>2. error' = e
      BY <1>1, Zenon DEF AttemptReconnect
    <2>3. cred \in Tokens /\ timer' # "none"
      BY <1>1, <2>1 DEF TypeOK, Tokens
    <2>4. orphans' \in SUBSET Tokens
      BY <2>1 DEF TypeOK
    <2>5. attempts' \in 0 .. MaxAttempts
      BY <1>1, <2>1, AttemptsNat DEF TypeOK
    <2>6. (e => error') /\ error' \in BOOLEAN
      BY <2>2, Zenon
    <2> QED BY <1>1, <2>1, <2>3, <2>4, <2>5, <2>6
  <1>2. CASE ~ (cred # "none" /\ attempts < MaxAttempts)
    <2>1. timer' = timer /\ orphans' = orphans /\ attempts' = attempts
      BY <1>2 DEF AttemptReconnect, timerVars
    <2>2. error' = (e \/ cred # "none")
      BY <1>2, Zenon DEF AttemptReconnect
    <2>3. (e => error') /\ error' \in BOOLEAN /\ (cred # "none" => error')
      BY <2>2, Zenon
    <2> QED BY <2>1, <2>3 DEF TypeOK
  <1> QED BY <1>1, <1>2

LEMMA RejectedTypes ==
  ASSUME TypeOK, NEW k \in Socks, NEW e \in BOOLEAN, Rejected(k, e)
  PROVE  /\ error' \in BOOLEAN /\ (e => error')
         /\ timer' \in Tokens \cup {"none"}
         /\ orphans' \in SUBSET Tokens
         /\ attempts' \in 0 .. MaxAttempts
         /\ cred = "none" => timer' = timer
         /\ timer = "none" => orphans' = orphans
         /\ ~ Waits(k) => timer' = timer /\ orphans' = orphans
         /\ busy' \in {busy, None}
         /\ Waits(k) => busy' # k \/ busy' = None
  <1>1. CASE Waits(k) /\ job[k].by = "auto"
    BY <1>1, ReconnectTypes DEF Rejected, TypeOK
  <1>2. CASE ~ (Waits(k) /\ job[k].by = "auto")
    BY <1>2 DEF Rejected, TypeOK, timerVars
  <1> QED BY <1>1, <1>2

LEMMA NoteTypes ==
  ASSUME TypeOK, NEW if \in BOOLEAN, NEW cause \in {"crossed", "cut"}, Note(cause, if)
  PROVE  /\ trouble' \in SUBSET {"crossed", "cut"}
         /\ trouble \subseteq trouble'
         /\ if => cause \in trouble'
  BY DEF TypeOK, Note

LEMMA JobTypes ==
  ASSUME TypeOK
  PROVE  /\ job \in [Socks -> Job]
         /\ \A k \in Socks : job[k] \in Job
  BY DEF TypeOK, Job

LEMMA UnansweredShape ==
  ASSUME TypeOK, NEW k \in Socks
  PROVE  /\ Unanswered(k) \in [Socks -> Job]
         /\ \A h \in Socks : /\ Unanswered(k)[h].pc = job[h].pc
                             /\ Unanswered(k)[h].by = job[h].by
                             /\ job[h].over # k => Unanswered(k)[h].over = job[h].over
  BY DEF TypeOK, Unanswered, Job

\* What changes of a call k of connect: its pc, or the socket its auth request
\* waits on.
LEMMA SettledShape ==
  ASSUME TypeOK, NEW k \in Socks, NEW c \in {"none", "pending", "resolved", "settled"},
         job' = [job EXCEPT ![k].over = None, ![k].pc = c]
  PROVE  /\ job' \in [Socks -> Job]
         /\ job'[k].pc = c /\ job'[k].by = job[k].by
         /\ \A h \in Socks \ {k} : job'[h] = job[h]
  BY JobTypes DEF Job

LEMMA PcShape ==
  ASSUME TypeOK, NEW k \in Socks, NEW c \in {"none", "pending", "resolved", "settled"},
         job' = [job EXCEPT ![k].pc = c]
  PROVE  /\ job' \in [Socks -> Job]
         /\ job'[k].pc = c /\ job'[k].by = job[k].by /\ job'[k].over = job[k].over
         /\ \A h \in Socks \ {k} : job'[h] = job[h]
  BY JobTypes DEF Job

LEMMA OverShape ==
  ASSUME TypeOK, NEW k \in Socks, NEW o \in Socks \cup {None},
         job' = [job EXCEPT ![k].over = o]
  PROVE  /\ job' \in [Socks -> Job]
         /\ job'[k].pc = job[k].pc /\ job'[k].by = job[k].by /\ job'[k].over = o
         /\ \A h \in Socks \ {k} : job'[h] = job[h]
  BY JobTypes DEF Job

-----------------------------------------------------------------------------
(* The type invariant and SocketsOK.                                       *)

\* The types of the variables, in parts.
Plain ==
  /\ con \in {"disconnected", "connecting", "connected", "authenticated"}
  /\ cred \in Tokens \cup {"none"} /\ error \in BOOLEAN
  /\ ws \in Socks \cup {None}
  /\ timer \in Tokens \cup {"none"} /\ orphans \in SUBSET Tokens /\ attempts \in 0 .. MaxAttempts
  /\ authed \in SUBSET Socks
  /\ trouble \in SUBSET {"crossed", "cut"}
Tables ==
  /\ sock \in [Socks -> {"connecting", "open", "closing", "closed"}]
  /\ job \in [Socks -> Job]
FormOK == busy \in Socks \cup {None} /\ (busy # None => Waits(busy) /\ job[busy].by = "login")
PendingOK == pending \in SUBSET Socks /\ \A k \in pending : job[k].over # None

LEMMA TypeParts == TypeOK <=> Plain /\ Tables /\ FormOK /\ PendingOK
  BY DEF TypeOK, Plain, Tables, FormOK, PendingOK, Job

LEMMA TypePartsNext == Plain' /\ Tables' /\ FormOK' /\ PendingOK' => TypeOK'
  BY DEF TypeOK, Plain, Tables, FormOK, PendingOK, Job

LEMMA InitInv == Init => IInv
<1> SUFFICES ASSUME Init PROVE IInv
  OBVIOUS
<1> USE NoneFresh, AttemptsNat DEF Init
<1>0. \A k \in Socks : sock[k] = "closed" /\ job[k] = NoJob /\ NoJob.pc = "none"
  BY DEF NoJob
<1>1. TypeOK
  <2>1. NoJob \in Job
    BY DEF NoJob, Job, Tokens
  <2>2. Tables
    BY <2>1 DEF Tables
  <2>3. error \in BOOLEAN
    BY Zenon
  <2>4. Plain
    BY <2>3 DEF Plain, Tokens
  <2>5. FormOK /\ PendingOK
    BY DEF FormOK, PendingOK
  <2> QED BY <2>2, <2>4, <2>5, TypeParts
<1>2. SocketsOK /\ Calls /\ Behind
  BY <1>0 DEF SocketsOK, Calls, Uncrossed, OneWaiter, OverGlobal, Exclusive, Idle, Behind, Waits, Live
<1>3. AuthenticatedIsUsable /\ LogoutIsFinal /\ NothingHangs
  BY <1>0 DEF AuthenticatedIsUsable, LogoutIsFinal, NothingHangs, Waits
<1> QED BY <1>1, <1>2, <1>3 DEF IInv

\* What a call of connect does to the tables.
LEMMA ConnectShape ==
  ASSUME TypeOK, NEW k \in Socks, NEW by \in {"login", "auto"}, NEW c \in Tokens, Connect(k, by, c)
  PROVE  /\ Tables'
         /\ sock' = [sock EXCEPT ![k] = "connecting"] /\ sock[k] = "closed" /\ sock'[k] = "connecting"
         /\ job'[k].pc = "pending" /\ job'[k].by = by
         /\ \A h \in Socks \ {k} : job'[h] = job[h] /\ sock'[h] = sock[h]
         /\ busy # k
  <1>1. sock' = [sock EXCEPT ![k] = "connecting"] /\ sock[k] = "closed" /\ busy # k
    BY DEF Connect, Live
  <1>2. job' = [job EXCEPT ![k] = [by |-> by, token |-> c, pc |-> "pending", over |-> None]]
    BY DEF Connect
  <1>3. [by |-> by, token |-> c, pc |-> "pending", over |-> None] \in Job
    BY DEF Job
  <1>4. job' \in [Socks -> Job] /\ job'[k] = [by |-> by, token |-> c, pc |-> "pending", over |-> None]
        /\ \A h \in Socks \ {k} : job'[h] = job[h]
    BY <1>2, <1>3, JobTypes
  <1>5. sock' \in [Socks -> {"connecting", "open", "closing", "closed"}] /\ sock'[k] = "connecting"
        /\ \A h \in Socks \ {k} : sock'[h] = sock[h]
    BY <1>1 DEF TypeOK
  <1> QED BY <1>1, <1>4, <1>5 DEF Tables

LEMMA ConnectTypes ==
  ASSUME TypeOK, SocketsOK, NEW k \in Socks, NEW by \in {"login", "auto"}, NEW c \in Tokens,
         Connect(k, by, c), orphans' \in SUBSET Tokens,
         busy' = busy \/ (busy' = k /\ by = "login")
  PROVE  TypeOK' /\ SocketsOK'
  <1> USE NoneFresh
  <1>1. con' = "connecting" /\ cred' = c /\ error' = FALSE /\ ws' = k /\ timer' = "none"
        /\ attempts' = attempts /\ pending' = pending /\ authed' = authed
        /\ Note("crossed", \E h \in Live : Waits(h))
    BY DEF Connect
  <1>2. trouble' \in SUBSET {"crossed", "cut"}
    BY <1>1, NoteTypes
  <1>3. Plain'
    BY <1>1, <1>2 DEF Plain, TypeOK
  <1>4. \A h \in pending : h # k /\ sock[h] \in {"open", "closing"} /\ Waits(h)
    BY ConnectShape DEF SocketsOK
  <1>5. \A h \in pending : job'[h] = job[h] /\ sock'[h] = sock[h]
    BY <1>4, ConnectShape DEF TypeOK
  <1>6. PendingOK'
    BY <1>1, <1>5 DEF PendingOK, TypeOK
  <1>7. FormOK'
    BY ConnectShape DEF FormOK, TypeOK, Waits
  <1>8. SocketsOK'
    BY <1>1, <1>4, <1>5, ConnectShape DEF SocketsOK, Waits
  <1> QED BY <1>3, <1>6, <1>7, <1>8, ConnectShape, TypePartsNext

\* A socket's state alone changes.
LEMMA SockShape ==
  ASSUME TypeOK, NEW k \in Socks, NEW r \in {"connecting", "open", "closing", "closed"},
         sock' = [sock EXCEPT ![k] = r]
  PROVE  /\ sock' \in [Socks -> {"connecting", "open", "closing", "closed"}]
         /\ sock'[k] = r
         /\ \A h \in Socks \ {k} : sock'[h] = sock[h]
  BY DEF TypeOK

LEMMA OpenSendsShape ==
  ASSUME TypeOK, NEW k \in Socks, OpenSends(k)
  PROVE  /\ Tables' /\ ws \in Socks
         /\ sock[k] = "connecting" /\ sock'[k] = "open"
         /\ job'[k].pc = job[k].pc /\ job'[k].by = job[k].by /\ job'[k].over = ws
         /\ \A h \in Socks \ {k} : job'[h] = job[h] /\ sock'[h] = sock[h]
  <1>1. sock[k] = "connecting" /\ sock' = [sock EXCEPT ![k] = "open"] /\ job' = [job EXCEPT ![k].over = ws]
        /\ Usable(k)
    BY DEF OpenSends
  <1>2. ws \in Socks
    BY <1>1 DEF Usable, TypeOK
  <1> QED BY <1>1, <1>2, SockShape, OverShape DEF Tables

LEMMA OpenSendsTypes ==
  ASSUME TypeOK, SocketsOK, NEW k \in Socks, OpenSends(k)
  PROVE  TypeOK' /\ SocketsOK'
  <1> USE NoneFresh, OpenSendsShape
  <1>1. /\ con' = "connected" /\ pending' = pending \cup {k}
        /\ UNCHANGED <<cred, error, ws, timer, orphans, attempts, busy, authed, trouble>>
    BY DEF OpenSends, timerVars
  <1>2. Plain'
    BY <1>1 DEF Plain, TypeOK
  <1>3. FormOK'
    BY <1>1 DEF FormOK, TypeOK, Waits
  <1>4. PendingOK'
    BY <1>1 DEF PendingOK, TypeOK
  <1>5. SocketsOK'
    BY <1>1 DEF SocketsOK, Waits, TypeOK
  <1> QED BY <1>2, <1>3, <1>4, <1>5, TypePartsNext

LEMMA OpenFailsShape ==
  ASSUME TypeOK, NEW k \in Socks, OpenFails(k)
  PROVE  /\ Tables'
         /\ sock[k] = "connecting" /\ sock'[k] = "open"
         /\ job'[k].pc = "settled" /\ job'[k].by = job[k].by /\ job'[k].over = job[k].over
         /\ \A h \in Socks \ {k} : job'[h] = job[h] /\ sock'[h] = sock[h]
  <1>1. sock[k] = "connecting" /\ sock' = [sock EXCEPT ![k] = "open"]
        /\ job' = [job EXCEPT ![k].pc = "settled"]
    BY DEF OpenFails
  <1> QED BY <1>1, SockShape, PcShape DEF Tables

LEMMA OpenFailsTypes ==
  ASSUME TypeOK, SocketsOK, NEW k \in Socks, OpenFails(k)
  PROVE  TypeOK' /\ SocketsOK'
  <1> USE NoneFresh, OpenFailsShape
  <1>1. /\ con' = "disconnected" /\ Rejected(k, TRUE)
        /\ UNCHANGED <<cred, ws, pending, authed, trouble>>
    BY DEF OpenFails
  <1>2. Plain'
    BY <1>1, RejectedTypes DEF Plain, TypeOK
  <1>3. Waits(k) /\ k \notin pending
    BY DEF SocketsOK
  <1>4. busy' \in {busy, None} /\ (busy' # k \/ busy' = None)
    BY <1>1, <1>3, RejectedTypes
  <1>7. FormOK'
    BY <1>4 DEF FormOK, TypeOK, Waits
  <1>5. PendingOK'
    BY <1>1 DEF PendingOK, TypeOK
  <1>6. SocketsOK'
    BY <1>1, <1>3 DEF SocketsOK, Waits, TypeOK
  <1> QED BY <1>2, <1>5, <1>6, <1>7, TypePartsNext

LEMMA AuthIgnoredShape ==
  ASSUME TypeOK, NEW k \in Socks, AuthIgnored(k)
  PROVE  /\ Tables' /\ sock' = sock
         /\ job'[k].pc = job[k].pc /\ job'[k].by = job[k].by /\ k \notin pending
         /\ \A h \in Socks \ {k} : job'[h] = job[h]
         /\ authed' \in SUBSET Socks /\ authed \subseteq authed'
  <1>1. job' = [job EXCEPT ![k].over = None] /\ sock' = sock /\ k \notin pending /\ job[k].over # None
        /\ authed' = IF job[k].token = "right" THEN authed \cup {job[k].over} ELSE authed
    BY DEF AuthIgnored
  <1>2. job[k].over \in Socks
    BY <1>1, JobTypes DEF Job
  <1>3. authed' \in SUBSET Socks /\ authed \subseteq authed'
    BY <1>1, <1>2 DEF TypeOK
  <1>4. sock' \in [Socks -> {"connecting", "open", "closing", "closed"}]
    BY <1>1 DEF TypeOK
  <1> QED BY <1>1, <1>3, <1>4, OverShape DEF Tables

LEMMA AuthIgnoredTypes ==
  ASSUME TypeOK, SocketsOK, NEW k \in Socks, AuthIgnored(k)
  PROVE  TypeOK' /\ SocketsOK'
  <1> USE NoneFresh, AuthIgnoredShape
  <1>1. UNCHANGED <<con, cred, error, ws, timer, orphans, attempts, pending, busy, trouble>>
    BY DEF AuthIgnored, timerVars
  <1>2. Plain'
    BY <1>1 DEF Plain, TypeOK
  <1>3. FormOK'
    BY <1>1 DEF FormOK, TypeOK, Waits
  <1>4. PendingOK'
    BY <1>1 DEF PendingOK, TypeOK
  <1>5. SocketsOK'
    BY <1>1 DEF SocketsOK, Waits, TypeOK
  <1> QED BY <1>2, <1>3, <1>4, <1>5, TypePartsNext

LEMMA AuthAcceptedShape ==
  ASSUME TypeOK, NEW k \in Socks, AuthAccepted(k)
  PROVE  /\ Tables' /\ sock' = sock
         /\ job'[k].pc = "resolved" /\ job'[k].by = job[k].by /\ k \in pending
         /\ \A h \in Socks \ {k} : job'[h] = job[h]
         /\ job[k].over \in Socks /\ sock[job[k].over] = "open" /\ authed' = authed \cup {job[k].over}
  <1>1. job' = [job EXCEPT ![k].over = None, ![k].pc = "resolved"] /\ sock' = sock /\ k \in pending
        /\ job[k].over # None /\ sock[job[k].over] = "open" /\ authed' = authed \cup {job[k].over}
    BY DEF AuthAccepted
  <1>2. job[k].over \in Socks
    BY <1>1, JobTypes DEF Job
  <1>3. sock' \in [Socks -> {"connecting", "open", "closing", "closed"}]
    BY <1>1 DEF TypeOK
  <1> QED BY <1>1, <1>2, <1>3, SettledShape DEF Tables

LEMMA AuthAcceptedTypes ==
  ASSUME TypeOK, SocketsOK, NEW k \in Socks, AuthAccepted(k)
  PROVE  TypeOK' /\ SocketsOK'
  <1> USE NoneFresh, AuthAcceptedShape
  <1>1. /\ con' = "authenticated" /\ attempts' = 0 /\ pending' = pending \ {k} /\ busy' = None
        /\ UNCHANGED <<cred, error, ws, timer, orphans, trouble>>
    BY DEF AuthAccepted
  <1>2. attempts' \in 0 .. MaxAttempts
    BY <1>1, AttemptsNat
  <1>3. Plain'
    BY <1>1, <1>2 DEF Plain, TypeOK
  <1>4. FormOK'
    BY <1>1 DEF FormOK, TypeOK, Waits
  <1>5. PendingOK'
    BY <1>1 DEF PendingOK, TypeOK
  <1>6. sock[k] # "connecting"
    BY DEF SocketsOK
  <1>7. SocketsOK'
    BY <1>1, <1>6 DEF SocketsOK, Waits, TypeOK
  <1> QED BY <1>3, <1>4, <1>5, <1>7, TypePartsNext

LEMMA AuthRefusedShape ==
  ASSUME TypeOK, NEW k \in Socks, AuthRefused(k)
  PROVE  /\ Tables' /\ sock' = sock
         /\ job'[k].pc = "settled" /\ job'[k].by = job[k].by /\ k \in pending
         /\ \A h \in Socks \ {k} : job'[h] = job[h]
  <1>1. job' = [job EXCEPT ![k].over = None, ![k].pc = "settled"] /\ sock' = sock /\ k \in pending
    BY DEF AuthRefused
  <1>2. sock' \in [Socks -> {"connecting", "open", "closing", "closed"}]
    BY <1>1 DEF TypeOK
  <1> QED BY <1>1, <1>2, SettledShape DEF Tables

LEMMA AuthRefusedTypes ==
  ASSUME TypeOK, SocketsOK, NEW k \in Socks, AuthRefused(k)
  PROVE  TypeOK' /\ SocketsOK'
  <1> USE NoneFresh, AuthRefusedShape
  <1>1. /\ con' = "disconnected" /\ pending' = pending \ {k} /\ Rejected(k, TRUE)
        /\ UNCHANGED <<cred, ws, authed, trouble>>
    BY DEF AuthRefused
  <1>2. Plain'
    BY <1>1, RejectedTypes DEF Plain, TypeOK
  <1>3. Waits(k) /\ sock[k] # "connecting"
    BY DEF SocketsOK
  <1>4. busy' \in {busy, None} /\ (busy' # k \/ busy' = None)
    BY <1>1, <1>3, RejectedTypes
  <1>5. FormOK'
    BY <1>4 DEF FormOK, TypeOK, Waits
  <1>6. PendingOK'
    BY <1>1 DEF PendingOK, TypeOK
  <1>7. SocketsOK'
    BY <1>1, <1>3 DEF SocketsOK, Waits, TypeOK
  <1> QED BY <1>2, <1>5, <1>6, <1>7, TypePartsNext

LEMMA AfterConnectShape ==
  ASSUME TypeOK, NEW k \in Socks, AfterConnect(k)
  PROVE  /\ Tables' /\ job[k].pc = "resolved"
         /\ job'[k].pc = "settled" /\ job'[k].by = job[k].by /\ job'[k].over = job[k].over
         /\ \A h \in Socks \ {k} : job'[h] = job[h]
  <1>1. job' = [job EXCEPT ![k].pc = "settled"] /\ job[k].pc = "resolved" /\ sock' = sock
    BY DEF AfterConnect
  <1>2. sock' \in [Socks -> {"connecting", "open", "closing", "closed"}]
    BY <1>1 DEF TypeOK
  <1> QED BY <1>1, <1>2, PcShape DEF Tables

LEMMA AfterConnectTypes ==
  ASSUME TypeOK, SocketsOK, NEW k \in Socks, AfterConnect(k)
  PROVE  TypeOK' /\ SocketsOK'
  <1> USE NoneFresh, AfterConnectShape
  <1>1. /\ attempts' = 0
        /\ UNCHANGED <<con, cred, error, ws, timer, orphans, pending, sock, busy, authed, trouble>>
    BY DEF AfterConnect
  <1>2. attempts' \in 0 .. MaxAttempts
    BY <1>1, AttemptsNat
  <1>3. Plain'
    BY <1>1, <1>2 DEF Plain, TypeOK
  <1>4. FormOK'
    BY <1>1 DEF FormOK, TypeOK, Waits
  <1>5. PendingOK'
    BY <1>1 DEF PendingOK, TypeOK
  <1>6. SocketsOK'
    BY <1>1 DEF SocketsOK, Waits, TypeOK
  <1> QED BY <1>3, <1>4, <1>5, <1>6, TypePartsNext

LEMMA CloseShape ==
  ASSUME TypeOK, NEW k \in Socks, Close(k)
  PROVE  /\ Tables' /\ sock[k] \in {"open", "closing"} /\ sock'[k] = "closed"
         /\ \A h \in Socks : job'[h].pc = job[h].pc /\ job'[h].by = job[h].by
         /\ \A h \in Socks \ {k} : sock'[h] = sock[h]
         /\ con' = "disconnected" /\ pending' = {} /\ authed' = authed \ {k}
         /\ UNCHANGED <<cred, ws, busy>>
         /\ trouble' \in SUBSET {"crossed", "cut"} /\ trouble \subseteq trouble'
         /\ pending # {} => "cut" \in trouble'
  <1>1. job' = Unanswered(k) /\ Gone(k) /\ Note("cut", pending # {}) /\ sock[k] \in {"open", "closing"}
        /\ UNCHANGED <<cred, ws, busy>>
    BY DEF Close
  <1>2. sock' = [sock EXCEPT ![k] = "closed"]
        /\ con' = "disconnected" /\ pending' = {} /\ authed' = authed \ {k}
    BY <1>1 DEF Gone
  <1>3. /\ sock' \in [Socks -> {"connecting", "open", "closing", "closed"}]
        /\ sock'[k] = "closed" /\ \A h \in Socks \ {k} : sock'[h] = sock[h]
    BY <1>2, SockShape
  <1>4. job' \in [Socks -> Job] /\ \A h \in Socks : job'[h].pc = job[h].pc /\ job'[h].by = job[h].by
    BY <1>1, UnansweredShape
  <1>5. /\ trouble' \in SUBSET {"crossed", "cut"} /\ trouble \subseteq trouble'
        /\ pending # {} => "cut" \in trouble'
    BY <1>1 DEF Note, TypeOK
  <1> QED BY <1>1, <1>2, <1>3, <1>4, <1>5 DEF Tables

\* What becomes of the timer when a socket closes.
LEMMA CloseTimer ==
  ASSUME TypeOK, NEW k \in Socks, Close(k)
  PROVE  /\ error' \in BOOLEAN
         /\ timer' \in Tokens \cup {"none"}
         /\ orphans' \in SUBSET Tokens
         /\ attempts' \in 0 .. MaxAttempts
         /\ cred = "none" => timer' = timer
         /\ timer = "none" => orphans' = orphans
         /\ con # "authenticated" => error' = error /\ timer' = timer /\ orphans' = orphans
         /\ con = "authenticated" /\ cred # "none" => error' \/ timer' # "none"
  <1>1. CASE con = "authenticated"
    <2>1. AttemptReconnect(error) /\ error \in BOOLEAN
      BY <1>1, Zenon DEF Close, TypeOK
    <2> QED BY <1>1, <2>1, ReconnectTypes
  <1>2. CASE con # "authenticated"
    BY <1>2 DEF Close, timerVars, TypeOK
  <1> QED BY <1>1, <1>2

LEMMA CloseTypes ==
  ASSUME TypeOK, SocketsOK, NEW k \in Socks, Close(k)
  PROVE  TypeOK' /\ SocketsOK'
  <1> USE NoneFresh, CloseShape
  <1>1. Plain'
    BY CloseTimer DEF Plain, TypeOK
  <1>2. FormOK'
    BY DEF FormOK, TypeOK, Waits
  <1>3. PendingOK'
    BY DEF PendingOK
  <1>4. SocketsOK'
    BY DEF SocketsOK, Waits, TypeOK
  <1> QED BY <1>1, <1>2, <1>3, <1>4, TypePartsNext

LEMMA FailShape ==
  ASSUME TypeOK, NEW k \in Socks, Fail(k)
  PROVE  /\ Tables' /\ sock[k] # "closed" /\ sock'[k] = "closed" /\ Rejected(k, TRUE)
         /\ job'[k].pc # "pending"
         /\ \A h \in Socks \ {k} : job'[h].pc = job[h].pc /\ job'[h].by = job[h].by
         /\ \A h \in Socks \ {k} : sock'[h] = sock[h]
         /\ con' = "disconnected" /\ pending' = {} /\ authed' = authed \ {k}
         /\ UNCHANGED <<cred, ws>>
         /\ trouble' \in SUBSET {"crossed", "cut"} /\ trouble \subseteq trouble'
         /\ pending \ {k} # {} => "cut" \in trouble'
  <1>1. job' = [Unanswered(k) EXCEPT ![k].pc = IF Waits(k) THEN "settled" ELSE @]
        /\ Gone(k) /\ Note("cut", pending \ {k} # {}) /\ k \in Live /\ Rejected(k, TRUE)
        /\ UNCHANGED <<cred, ws>>
    BY DEF Fail
  <1>2. sock' = [sock EXCEPT ![k] = "closed"]
        /\ con' = "disconnected" /\ pending' = {} /\ authed' = authed \ {k}
    BY <1>1 DEF Gone
  <1> DEFINE u == Unanswered(k)
             c == IF Waits(k) THEN "settled" ELSE u[k].pc
  <1>3. u \in [Socks -> Job] /\ \A h \in Socks : u[h].pc = job[h].pc /\ u[h].by = job[h].by
    BY UnansweredShape
  <1>4. c \in {"none", "pending", "resolved", "settled"} /\ c # "pending"
    BY <1>3 DEF Job, Waits
  <1>5. job' = [u EXCEPT ![k].pc = c]
    BY <1>1
  <1> HIDE DEF u, c
  <1>6. job' \in [Socks -> Job] /\ job'[k].pc = c /\ \A h \in Socks \ {k} : job'[h] = u[h]
    BY <1>3, <1>4, <1>5 DEF Job
  <1>7. /\ sock' \in [Socks -> {"connecting", "open", "closing", "closed"}]
        /\ sock'[k] = "closed" /\ \A h \in Socks \ {k} : sock'[h] = sock[h]
    BY <1>2, SockShape
  <1>8. /\ trouble' \in SUBSET {"crossed", "cut"} /\ trouble \subseteq trouble'
        /\ pending \ {k} # {} => "cut" \in trouble'
    BY <1>1 DEF Note, TypeOK
  <1>9. Rejected(k, TRUE) /\ UNCHANGED <<cred, ws>> /\ sock[k] # "closed"
    BY <1>1 DEF Live
  <1> QED BY <1>2, <1>3, <1>4, <1>6, <1>7, <1>8, <1>9 DEF Tables

LEMMA FailTypes ==
  ASSUME TypeOK, SocketsOK, NEW k \in Socks, Fail(k)
  PROVE  TypeOK' /\ SocketsOK'
  <1> USE NoneFresh, FailShape
  <1>1. Plain'
    BY RejectedTypes DEF Plain, TypeOK
  <1>2. busy' \in {busy, None} /\ (busy # None => (busy' # k \/ busy' = None))
    <2>1. Rejected(k, TRUE)
      BY FailShape
    <2>2. busy' \in {busy, None} /\ (Waits(k) => busy' # k \/ busy' = None)
      BY <2>1, RejectedTypes
    <2>3. busy = k => Waits(k)
      BY DEF TypeOK
    <2> QED BY <2>2, <2>3
  <1>3. FormOK'
    BY <1>2 DEF FormOK, TypeOK, Waits
  <1>4. PendingOK'
    BY DEF PendingOK
  <1>5. SocketsOK'
    <2>1. \A h \in Socks : sock'[h] = "connecting" => h # k /\ sock[h] = "connecting"
      BY FailShape
    <2>2. \A h \in Socks : sock'[h] = "connecting" => Waits(h)'
      BY <2>1 DEF SocketsOK, Waits
    <2> QED BY <2>2 DEF SocketsOK
  <1> QED BY <1>1, <1>3, <1>4, <1>5, TypePartsNext

LEMMA DisconnectShape ==
  ASSUME TypeOK, Disconnect
  PROVE  /\ sock' \in [Socks -> {"connecting", "open", "closing", "closed"}]
         /\ \A h \in Socks : sock'[h] = sock[h] \/ (sock[h] # "closed" /\ sock'[h] = "closing")
         /\ con = "authenticated" /\ con' = "disconnected" /\ cred' = "none" /\ timer' = "none"
         /\ ws' = None /\ attempts' = MaxAttempts
         /\ UNCHANGED <<error, orphans, pending, job, busy, authed, trouble>>
  BY DEF Disconnect, Live, TypeOK

LEMMA DisconnectTypes ==
  ASSUME TypeOK, SocketsOK, Disconnect
  PROVE  TypeOK' /\ SocketsOK'
  <1> USE NoneFresh, DisconnectShape
  <1>1. attempts' \in 0 .. MaxAttempts
    BY AttemptsNat
  <1>2. Plain'
    BY <1>1 DEF Plain, TypeOK
  <1>3. FormOK' /\ Tables'
    BY JobTypes DEF FormOK, Tables, TypeOK, Waits
  <1>4. PendingOK'
    BY DEF PendingOK, TypeOK
  <1>5. SocketsOK'
    BY DEF SocketsOK, Waits, TypeOK
  <1> QED BY <1>2, <1>3, <1>4, <1>5, TypePartsNext

-----------------------------------------------------------------------------
(* The calls of connect, the state and the global ws.                      *)

Shown == AuthenticatedIsUsable /\ LogoutIsFinal

LEMMA ConnectCalls ==
  ASSUME IInv, NEW k \in Socks, NEW by \in {"login", "auto"}, NEW c \in Tokens,
         Connect(k, by, c), orphans' \subseteq orphans
  PROVE  Calls' /\ Shown'
  <1>1. TypeOK /\ SocketsOK /\ OneWaiter /\ OverGlobal /\ Exclusive
    BY DEF IInv, Calls
  <1>2. con' = "connecting" /\ cred' = c /\ ws' = k /\ timer' = "none" /\ pending' = pending
        /\ Note("crossed", \E h \in Live : Waits(h))
    BY DEF Connect
  <1>3. c # "none"
    BY DEF Tokens
  <1>4. Uncrossed' => Uncrossed /\ Idle
    BY <1>1, <1>2 DEF Note, Uncrossed, Idle
  <1>5. Uncrossed' => \A h \in Live' : Waits(h)' => h = k
    BY <1>1, <1>4, ConnectShape DEF Live, Idle, Waits
  <1>6. OneWaiter'
    BY <1>5 DEF OneWaiter
  <1>7. Idle => pending = {}
    BY <1>1 DEF SocketsOK, Idle, Live, TypeOK
  <1>8. OverGlobal'
    BY <1>2, <1>4, <1>7 DEF OverGlobal
  <1>9. Exclusive'
    BY <1>1, <1>2, <1>3, <1>4 DEF Exclusive
  <1>10. Shown'
    BY <1>2, <1>3 DEF Shown, AuthenticatedIsUsable, LogoutIsFinal
  <1> QED BY <1>6, <1>8, <1>9, <1>10 DEF Calls

LEMMA OpenSendsCalls ==
  ASSUME IInv, NEW k \in Socks, OpenSends(k)
  PROVE  Calls' /\ Shown'
  <1>1. TypeOK /\ SocketsOK /\ OneWaiter /\ OverGlobal /\ Exclusive /\ LogoutIsFinal
    BY DEF IInv, Calls
  <1>2. /\ con' = "connected" /\ pending' = pending \cup {k}
        /\ UNCHANGED <<cred, ws, timer, orphans, trouble>>
    BY DEF OpenSends, timerVars
  <1>3. Waits(k) /\ k \in Live
    BY <1>1, OpenSendsShape DEF SocketsOK, Live
  <1>4. Live' = Live /\ \A h \in Socks : (Waits(h)' <=> Waits(h))
    BY <1>1, OpenSendsShape DEF Live, Waits
  <1>5. OneWaiter'
    BY <1>1, <1>2, <1>4 DEF OneWaiter, Uncrossed, Live
  <1>6. OverGlobal'
    BY <1>1, <1>2, OpenSendsShape DEF OverGlobal, Uncrossed, TypeOK
  <1>7. Uncrossed => ~ Idle
    BY <1>3 DEF Idle
  <1>8. Exclusive'
    BY <1>1, <1>2, <1>7 DEF Exclusive, Uncrossed
  <1>9. Shown'
    BY <1>1, <1>2 DEF Shown, AuthenticatedIsUsable, LogoutIsFinal
  <1> QED BY <1>5, <1>6, <1>8, <1>9 DEF Calls

\* k's call has waited and is answered: in one of three ways nobody waits now.
LEMMA NobodyElse ==
  ASSUME IInv, NEW k \in Live, Waits(k), Uncrossed
  PROVE  /\ \A h \in Live \ {k} : ~ Waits(h)
         /\ con # "authenticated" /\ timer = "none" /\ cred # "none" /\ orphans = {}
  BY DEF IInv, Calls, OneWaiter, Exclusive, Idle

LEMMA OpenFailsCalls ==
  ASSUME IInv, NEW k \in Socks, OpenFails(k)
  PROVE  Calls' /\ Shown'
  <1>1. TypeOK /\ SocketsOK /\ OneWaiter /\ OverGlobal /\ Exclusive /\ LogoutIsFinal
    BY DEF IInv, Calls
  <1>2. /\ con' = "disconnected" /\ Rejected(k, TRUE)
        /\ UNCHANGED <<cred, ws, pending, trouble>>
    BY DEF OpenFails
  <1>3. Waits(k) /\ k \in Live /\ k \notin pending
    BY <1>1, OpenFailsShape DEF SocketsOK, Live
  <1>4. Live' = Live /\ ~ Waits(k)' /\ \A h \in Socks \ {k} : (Waits(h)' <=> Waits(h))
    BY <1>1, OpenFailsShape DEF Live, Waits
  <1>5. Uncrossed => Idle' /\ cred # "none" /\ orphans' = {}
    <2> SUFFICES ASSUME Uncrossed PROVE Idle' /\ cred # "none" /\ orphans' = {}
      OBVIOUS
    <2>1. (\A h \in Live \ {k} : ~ Waits(h)) /\ timer = "none" /\ cred # "none" /\ orphans = {}
      BY <1>3, NobodyElse
    <2>2. Idle'
      BY <1>4, <2>1 DEF Idle, Live
    <2>3. orphans' = orphans
      BY <1>1, <1>2, <2>1, RejectedTypes
    <2> QED BY <2>1, <2>2, <2>3
  <1>6. OneWaiter'
    BY <1>2, <1>5 DEF OneWaiter, Uncrossed, Idle
  <1>7. OverGlobal'
    BY <1>1, <1>2, <1>3, OpenFailsShape DEF OverGlobal, Uncrossed, TypeOK
  <1>8. Exclusive'
    BY <1>2, <1>5 DEF Exclusive, Uncrossed
  <1>9. cred = "none" => timer' = timer
    BY <1>1, <1>2, RejectedTypes
  <1>10. Shown'
    BY <1>1, <1>2, <1>5, <1>9 DEF Shown, AuthenticatedIsUsable, LogoutIsFinal, Uncrossed
  <1> QED BY <1>6, <1>7, <1>8, <1>10 DEF Calls

LEMMA AuthIgnoredCalls ==
  ASSUME IInv, NEW k \in Socks, AuthIgnored(k)
  PROVE  Calls' /\ Shown'
  <1>1. TypeOK /\ SocketsOK /\ OneWaiter /\ OverGlobal /\ Exclusive /\ Shown
    BY DEF IInv, Calls, Shown
  <1>2. UNCHANGED <<con, cred, ws, timer, orphans, pending, sock, trouble>>
    BY DEF AuthIgnored, timerVars
  <1>3. Live' = Live /\ \A h \in Socks : (Waits(h)' <=> Waits(h))
    BY <1>1, <1>2, AuthIgnoredShape DEF Live, Waits
  <1>4. OneWaiter'
    BY <1>1, <1>2, <1>3 DEF OneWaiter, Uncrossed, Live
  <1>5. OverGlobal'
    BY <1>1, <1>2, AuthIgnoredShape DEF OverGlobal, Uncrossed, TypeOK
  <1>6. Exclusive'
    BY <1>1, <1>2, <1>3 DEF Exclusive, Uncrossed, Idle, Live
  <1>7. Shown'
    BY <1>1, <1>2, AuthIgnoredShape DEF Shown, AuthenticatedIsUsable, LogoutIsFinal
  <1> QED BY <1>4, <1>5, <1>6, <1>7 DEF Calls

LEMMA AuthAcceptedCalls ==
  ASSUME IInv, NEW k \in Socks, AuthAccepted(k)
  PROVE  Calls' /\ Shown'
  <1>1. TypeOK /\ SocketsOK /\ OneWaiter /\ OverGlobal /\ Exclusive /\ Shown
    BY DEF IInv, Calls, Shown
  <1>2. /\ con' = "authenticated" /\ pending' = pending \ {k}
        /\ UNCHANGED <<cred, ws, timer, orphans, sock, trouble>>
    BY DEF AuthAccepted
  <1>3. Waits(k) /\ k \in Live /\ k \in pending
    BY <1>1, AuthAcceptedShape DEF SocketsOK, Live
  <1>4. Live' = Live /\ ~ Waits(k)' /\ \A h \in Socks \ {k} : (Waits(h)' <=> Waits(h))
    BY <1>1, <1>2, AuthAcceptedShape DEF Live, Waits
  <1>5. Uncrossed => Idle' /\ timer = "none" /\ cred # "none" /\ orphans = {}
    <2> SUFFICES ASSUME Uncrossed PROVE Idle' /\ timer = "none" /\ cred # "none" /\ orphans = {}
      OBVIOUS
    <2>1. (\A h \in Live \ {k} : ~ Waits(h)) /\ timer = "none" /\ cred # "none" /\ orphans = {}
      BY <1>3, NobodyElse
    <2>2. Idle'
      BY <1>4, <2>1 DEF Idle, Live
    <2> QED BY <2>1, <2>2
  <1>6. OneWaiter'
    BY <1>2, <1>5 DEF OneWaiter, Uncrossed, Idle
  <1>7. OverGlobal'
    BY <1>1, <1>2, AuthAcceptedShape DEF OverGlobal, Uncrossed, TypeOK
  <1>8. Exclusive'
    BY <1>2, <1>5 DEF Exclusive, Uncrossed
  <1>9. Uncrossed => job[k].over = ws
    BY <1>1, <1>3 DEF OverGlobal
  <1>10. Shown'
    BY <1>1, <1>2, <1>5, <1>9, AuthAcceptedShape DEF Shown, AuthenticatedIsUsable, LogoutIsFinal, Uncrossed
  <1> QED BY <1>6, <1>7, <1>8, <1>10 DEF Calls

LEMMA AuthRefusedCalls ==
  ASSUME IInv, NEW k \in Socks, AuthRefused(k)
  PROVE  Calls' /\ Shown'
  <1>1. TypeOK /\ SocketsOK /\ OneWaiter /\ OverGlobal /\ Exclusive /\ LogoutIsFinal
    BY DEF IInv, Calls
  <1>2. /\ con' = "disconnected" /\ Rejected(k, TRUE) /\ pending' = pending \ {k}
        /\ UNCHANGED <<cred, ws, sock, trouble>>
    BY DEF AuthRefused
  <1>3. Waits(k) /\ k \in Live
    BY <1>1, AuthRefusedShape DEF SocketsOK, Live
  <1>4. Live' = Live /\ ~ Waits(k)' /\ \A h \in Socks \ {k} : (Waits(h)' <=> Waits(h))
    BY <1>1, <1>2, AuthRefusedShape DEF Live, Waits
  <1>5. Uncrossed => Idle' /\ cred # "none" /\ orphans' = {}
    <2> SUFFICES ASSUME Uncrossed PROVE Idle' /\ cred # "none" /\ orphans' = {}
      OBVIOUS
    <2>1. (\A h \in Live \ {k} : ~ Waits(h)) /\ timer = "none" /\ cred # "none" /\ orphans = {}
      BY <1>3, NobodyElse
    <2>2. Idle'
      BY <1>4, <2>1 DEF Idle, Live
    <2>3. orphans' = orphans
      BY <1>1, <1>2, <2>1, RejectedTypes
    <2> QED BY <2>1, <2>2, <2>3
  <1>6. OneWaiter'
    BY <1>2, <1>5 DEF OneWaiter, Uncrossed, Idle
  <1>7. OverGlobal'
    BY <1>1, <1>2, AuthRefusedShape DEF OverGlobal, Uncrossed, TypeOK
  <1>8. Exclusive'
    BY <1>2, <1>5 DEF Exclusive, Uncrossed
  <1>9. cred = "none" => timer' = timer
    BY <1>1, <1>2, RejectedTypes
  <1>10. Shown'
    BY <1>1, <1>2, <1>5, <1>9 DEF Shown, AuthenticatedIsUsable, LogoutIsFinal, Uncrossed
  <1> QED BY <1>6, <1>7, <1>8, <1>10 DEF Calls

LEMMA AfterConnectCalls ==
  ASSUME IInv, NEW k \in Socks, AfterConnect(k)
  PROVE  Calls' /\ Shown'
  <1>1. TypeOK /\ SocketsOK /\ OneWaiter /\ OverGlobal /\ Exclusive /\ Shown
    BY DEF IInv, Calls, Shown
  <1>2. UNCHANGED <<con, cred, ws, timer, orphans, pending, sock, authed, trouble>>
    BY DEF AfterConnect
  <1>3. Live' = Live /\ \A h \in Socks : (Waits(h)' <=> Waits(h)) /\ job'[h].over = job[h].over
    BY <1>1, <1>2, AfterConnectShape DEF Live, Waits
  <1>4. OneWaiter'
    BY <1>1, <1>2, <1>3 DEF OneWaiter, Uncrossed, Live
  <1>5. OverGlobal'
    BY <1>1, <1>2, <1>3 DEF OverGlobal, Uncrossed, TypeOK
  <1>6. Exclusive'
    BY <1>1, <1>2, <1>3 DEF Exclusive, Uncrossed, Idle, Live
  <1>7. Shown'
    BY <1>1, <1>2 DEF Shown, AuthenticatedIsUsable, LogoutIsFinal
  <1> QED BY <1>4, <1>5, <1>6, <1>7 DEF Calls

LEMMA CloseCalls ==
  ASSUME IInv, NEW k \in Socks, Close(k)
  PROVE  Calls' /\ Shown'
  <1>1. TypeOK /\ SocketsOK /\ OneWaiter /\ OverGlobal /\ Exclusive /\ LogoutIsFinal
    BY DEF IInv, Calls
  <1>2. con' = "disconnected" /\ pending' = {} /\ UNCHANGED <<cred, ws>> /\ trouble \subseteq trouble'
    BY <1>1, CloseShape
  <1>3. Live' \subseteq Live /\ \A h \in Socks : (Waits(h)' <=> Waits(h))
    BY <1>1, CloseShape DEF Live, Waits
  <1>4. Uncrossed' => Uncrossed
    BY <1>2 DEF Uncrossed
  <1>5. OneWaiter'
    BY <1>1, <1>3, <1>4 DEF OneWaiter, Live
  <1>6. OverGlobal'
    BY <1>2 DEF OverGlobal
  <1>7. Uncrossed => orphans' = {} /\ (timer' # "none" \/ cred = "none" => Idle)
    BY <1>1, CloseTimer DEF Exclusive
  <1>8. Idle => Idle'
    BY <1>3 DEF Idle, Live
  <1>9. Exclusive'
    BY <1>2, <1>4, <1>7, <1>8 DEF Exclusive
  <1>10. cred = "none" => timer' = "none"
    BY <1>1, CloseTimer DEF LogoutIsFinal
  <1>11. Shown'
    BY <1>2, <1>4, <1>7, <1>10 DEF Shown, AuthenticatedIsUsable, LogoutIsFinal, Uncrossed
  <1> QED BY <1>5, <1>6, <1>9, <1>11 DEF Calls

LEMMA FailCalls ==
  ASSUME IInv, NEW k \in Socks, Fail(k)
  PROVE  Calls' /\ Shown'
  <1>1. TypeOK /\ SocketsOK /\ OneWaiter /\ OverGlobal /\ Exclusive /\ LogoutIsFinal
    BY DEF IInv, Calls
  <1>2. con' = "disconnected" /\ pending' = {} /\ UNCHANGED <<cred, ws>> /\ trouble \subseteq trouble'
        /\ Rejected(k, TRUE)
    BY <1>1, FailShape
  <1>3. Live' = Live \ {k} /\ k \in Live /\ \A h \in Socks \ {k} : (Waits(h)' <=> Waits(h))
    BY <1>1, FailShape DEF Live, Waits
  <1>4. Uncrossed' => Uncrossed
    BY <1>2 DEF Uncrossed
  <1>5. OneWaiter'
    BY <1>1, <1>3, <1>4 DEF OneWaiter, Live
  <1>6. OverGlobal'
    BY <1>2 DEF OverGlobal
  <1>7. ASSUME Uncrossed PROVE orphans' = {} /\ (timer' # "none" \/ cred = "none" => Idle')
    <2>1. CASE Waits(k)
      <3>1. (\A h \in Live \ {k} : ~ Waits(h)) /\ timer = "none" /\ orphans = {}
        BY <1>3, <1>7, <2>1, NobodyElse
      <3>2. Idle'
        BY <1>3, <3>1 DEF Idle, Live
      <3>3. orphans' = orphans
        BY <1>1, <1>2, <3>1, RejectedTypes
      <3> QED BY <3>1, <3>2, <3>3
    <2>2. CASE ~ Waits(k)
      <3>1. timer' = timer /\ orphans' = orphans
        BY <1>1, <1>2, <2>2, RejectedTypes
      <3>2. Idle => Idle'
        BY <1>3 DEF Idle, Live
      <3> QED BY <1>1, <1>7, <3>1, <3>2 DEF Exclusive
    <2> QED BY <2>1, <2>2
  <1>8. Exclusive'
    BY <1>2, <1>4, <1>7 DEF Exclusive
  <1>9. cred = "none" => timer' = "none"
    BY <1>1, <1>2, RejectedTypes DEF LogoutIsFinal
  <1>10. Shown'
    BY <1>2, <1>4, <1>7, <1>9 DEF Shown, AuthenticatedIsUsable, LogoutIsFinal, Uncrossed
  <1> QED BY <1>5, <1>6, <1>8, <1>10 DEF Calls

LEMMA DisconnectCalls ==
  ASSUME IInv, Disconnect
  PROVE  Calls' /\ Shown'
  <1>1. TypeOK /\ SocketsOK /\ OneWaiter /\ OverGlobal /\ Exclusive /\ LogoutIsFinal
    BY DEF IInv, Calls
  <1>2. /\ con = "authenticated" /\ con' = "disconnected" /\ cred' = "none" /\ timer' = "none"
        /\ UNCHANGED <<orphans, pending, job, trouble>>
    BY <1>1, DisconnectShape
  <1>3. Live' = Live /\ \A h \in Socks : (Waits(h)' <=> Waits(h))
    BY <1>1, <1>2, DisconnectShape DEF Live, Waits
  <1>4. Uncrossed => Idle /\ orphans = {}
    BY <1>1, <1>2 DEF Exclusive
  <1>5. Idle => Idle' /\ pending = {}
    BY <1>1, <1>3 DEF Idle, SocketsOK, Live, TypeOK
  <1>6. OneWaiter'
    BY <1>2, <1>4, <1>5 DEF OneWaiter, Uncrossed, Idle
  <1>7. OverGlobal'
    BY <1>2, <1>4, <1>5 DEF OverGlobal, Uncrossed
  <1>8. Exclusive'
    BY <1>2, <1>4, <1>5 DEF Exclusive, Uncrossed
  <1>9. Shown'
    BY <1>2, <1>4 DEF Shown, AuthenticatedIsUsable, LogoutIsFinal, Uncrossed
  <1> QED BY <1>6, <1>7, <1>8, <1>9 DEF Calls

-----------------------------------------------------------------------------
(* NothingHangs, in two parts, and Behind.                                 *)

Answered == trouble = {} => \A k \in Socks :
              Waits(k) => sock[k] = "connecting" \/ (k \in pending /\ sock[job[k].over] = "open")

Repaired == trouble = {} =>
              (con = "disconnected" /\ cred # "none" => error \/ timer # "none" \/ \E k \in Socks : Waits(k))

Quiet == Answered /\ Repaired /\ Behind

LEMMA HangParts == NothingHangs <=> Answered /\ Repaired
  BY DEF NothingHangs, Answered, Repaired

\* Who waits has a live socket, and is alone.
LEMMA WaitersLive ==
  ASSUME IInv, trouble = {}
  PROVE  /\ Uncrossed
         /\ \A k \in Socks : Waits(k) => k \in Live
         /\ \A h, k \in Socks : Waits(h) /\ Waits(k) => h = k
  BY HangParts DEF IInv, Answered, SocketsOK, Live, Calls, OneWaiter, Uncrossed

LEMMA ConnectQuiet ==
  ASSUME IInv, NEW k \in Socks, NEW by \in {"login", "auto"}, NEW c \in Tokens, Connect(k, by, c)
  PROVE  Quiet'
  <1>1. con' = "connecting" /\ Note("crossed", \E h \in Live : Waits(h)) /\ TypeOK
    BY DEF Connect, IInv
  <1>2. Waits(k)' /\ sock'[k] = "connecting" /\ \A h \in Socks \ {k} : (Waits(h)' <=> Waits(h))
    BY <1>1, ConnectShape DEF Waits
  <1>3. trouble' = {} => trouble = {} /\ Idle
    BY <1>1 DEF Note, Idle
  <1>4. trouble' = {} => \A h \in Socks : ~ Waits(h)
    BY <1>3, WaitersLive DEF Idle
  <1>5. Answered'
    BY <1>2, <1>4 DEF Answered
  <1> QED BY <1>1, <1>2, <1>5 DEF Quiet, Repaired, Behind

LEMMA OpenSendsQuiet ==
  ASSUME IInv, NEW k \in Socks, OpenSends(k)
  PROVE  Quiet'
  <1>1. con' = "connected" /\ pending' = pending \cup {k} /\ trouble' = trouble /\ Usable(k) /\ TypeOK
    BY DEF OpenSends, IInv
  <1>2. Waits(k) /\ \A h \in Socks : (Waits(h)' <=> Waits(h))
    BY <1>1, OpenSendsShape DEF Waits, SocketsOK, IInv
  <1>3. sock'[job'[k].over] = "open"
    BY <1>1, OpenSendsShape DEF Usable
  <1>4. Answered'
    BY <1>1, <1>2, <1>3, WaitersLive DEF Answered
  <1> QED BY <1>1, <1>2, <1>4 DEF Quiet, Repaired, Behind

LEMMA OpenFailsQuiet ==
  ASSUME IInv, NEW k \in Socks, OpenFails(k)
  PROVE  Quiet'
  <1>1. con' = "disconnected" /\ trouble' = trouble /\ Rejected(k, TRUE) /\ TypeOK
    BY DEF OpenFails, IInv
  <1>2. error'
    BY <1>1, RejectedTypes
  <1>3. Waits(k) /\ ~ Waits(k)' /\ \A h \in Socks \ {k} : (Waits(h)' <=> Waits(h))
    BY <1>1, OpenFailsShape DEF Waits, SocketsOK, IInv
  <1>4. Answered'
    BY <1>1, <1>3, WaitersLive DEF Answered
  <1> QED BY <1>1, <1>2, <1>4 DEF Quiet, Repaired, Behind

LEMMA AuthIgnoredQuiet ==
  ASSUME IInv, NEW k \in Socks, AuthIgnored(k)
  PROVE  Quiet'
  <1>1. UNCHANGED <<con, cred, error, timer, pending, sock, trouble>> /\ TypeOK
    BY DEF AuthIgnored, timerVars, IInv
  <1>2. k \notin pending /\ (\A h \in Socks \ {k} : job'[h] = job[h])
        /\ \A h \in Socks : (Waits(h)' <=> Waits(h))
    BY <1>1, AuthIgnoredShape DEF Waits
  <1>3. Answered /\ Repaired /\ Behind
    BY HangParts DEF IInv
  <1>4. Answered'
    BY <1>1, <1>2, <1>3 DEF Answered
  <1>5. Repaired' /\ Behind'
    BY <1>1, <1>2, <1>3 DEF Repaired, Behind
  <1> QED BY <1>4, <1>5 DEF Quiet

LEMMA AuthAcceptedQuiet ==
  ASSUME IInv, NEW k \in Socks, AuthAccepted(k)
  PROVE  Quiet'
  <1>1. con' = "authenticated" /\ trouble' = trouble /\ TypeOK
    BY DEF AuthAccepted, IInv
  <1>2. Waits(k) /\ ~ Waits(k)' /\ \A h \in Socks \ {k} : (Waits(h)' <=> Waits(h))
    BY <1>1, AuthAcceptedShape DEF Waits, SocketsOK, IInv
  <1>3. Answered'
    BY <1>1, <1>2, WaitersLive DEF Answered
  <1> QED BY <1>1, <1>3 DEF Quiet, Repaired, Behind

LEMMA AuthRefusedQuiet ==
  ASSUME IInv, NEW k \in Socks, AuthRefused(k)
  PROVE  Quiet'
  <1>1. con' = "disconnected" /\ trouble' = trouble /\ Rejected(k, TRUE) /\ TypeOK
    BY DEF AuthRefused, IInv
  <1>2. error'
    BY <1>1, RejectedTypes
  <1>3. Waits(k) /\ ~ Waits(k)' /\ \A h \in Socks \ {k} : (Waits(h)' <=> Waits(h))
    BY <1>1, AuthRefusedShape DEF Waits, SocketsOK, IInv
  <1>4. Answered'
    BY <1>1, <1>3, WaitersLive DEF Answered
  <1> QED BY <1>1, <1>2, <1>4 DEF Quiet, Repaired, Behind

LEMMA AfterConnectQuiet ==
  ASSUME IInv, NEW k \in Socks, AfterConnect(k)
  PROVE  Quiet'
  <1>1. UNCHANGED <<con, cred, error, timer, pending, sock, trouble>> /\ TypeOK
    BY DEF AfterConnect, IInv
  <1>2. \A h \in Socks : job'[h].over = job[h].over /\ (Waits(h)' <=> Waits(h))
    BY <1>1, AfterConnectShape DEF Waits
  <1>3. Answered /\ Repaired /\ Behind
    BY HangParts DEF IInv
  <1>4. Answered'
    BY <1>1, <1>2, <1>3 DEF Answered
  <1>5. Repaired' /\ Behind'
    BY <1>1, <1>2, <1>3 DEF Repaired, Behind
  <1> QED BY <1>4, <1>5 DEF Quiet

LEMMA CloseQuiet ==
  ASSUME IInv, NEW k \in Socks, Close(k)
  PROVE  Quiet'
  <1>1. TypeOK /\ Answered /\ Repaired /\ Behind
    BY HangParts DEF IInv
  <1>2. con' = "disconnected" /\ cred' = cred /\ sock[k] # "connecting"
        /\ (trouble' = {} => trouble = {} /\ pending = {})
    BY <1>1, CloseShape
  <1>3. (\A h \in Socks \ {k} : sock'[h] = sock[h]) /\ \A h \in Socks : (Waits(h)' <=> Waits(h))
    BY <1>1, CloseShape DEF Waits
  <1>4. Answered'
    BY <1>1, <1>2, <1>3 DEF Answered
  <1>5. Repaired'
    <2>1. CASE con = "authenticated"
      BY <1>1, <1>2, <2>1, CloseTimer DEF Repaired
    <2>2. CASE con = "disconnected"
      BY <1>1, <1>2, <1>3, <2>2, CloseTimer DEF Repaired
    <2>3. CASE con \in {"connecting", "connected"}
      BY <1>1, <1>2, <1>3, <2>3 DEF Repaired, Behind
    <2> QED BY <1>1, <2>1, <2>2, <2>3 DEF TypeOK
  <1> QED BY <1>2, <1>4, <1>5 DEF Quiet, Behind

LEMMA FailQuiet ==
  ASSUME IInv, NEW k \in Socks, Fail(k)
  PROVE  Quiet'
  <1>1. TypeOK /\ Answered
    BY HangParts DEF IInv
  <1>2. con' = "disconnected" /\ Rejected(k, TRUE)
        /\ (trouble' = {} => trouble = {} /\ pending \subseteq {k})
    BY <1>1, FailShape
  <1>3. error'
    BY <1>1, <1>2, RejectedTypes
  <1>4. ~ Waits(k)' /\ \A h \in Socks \ {k} : sock'[h] = sock[h] /\ (Waits(h)' <=> Waits(h))
    BY <1>1, FailShape DEF Waits
  <1>5. Answered'
    BY <1>1, <1>2, <1>4 DEF Answered
  <1> QED BY <1>2, <1>3, <1>5 DEF Quiet, Repaired, Behind

LEMMA DisconnectQuiet ==
  ASSUME IInv, Disconnect
  PROVE  Quiet'
  <1>1. con = "authenticated" /\ con' = "disconnected" /\ cred' = "none" /\ job' = job
        /\ trouble' = trouble /\ TypeOK
    BY DEF Disconnect, IInv
  <1>2. trouble = {} => Idle
    BY <1>1, WaitersLive DEF IInv, Calls, Exclusive
  <1>3. trouble = {} => \A h \in Socks : ~ Waits(h)
    BY <1>2, WaitersLive DEF Idle
  <1>4. Answered'
    BY <1>1, <1>3 DEF Answered, Waits
  <1> QED BY <1>1, <1>4 DEF Quiet, Repaired, Behind

-----------------------------------------------------------------------------
LEMMA WholeInv ==
  ASSUME TypeOK' /\ SocketsOK', Calls' /\ Shown', Quiet'
  PROVE  IInv'
  <1>1. NothingHangs'
    BY DEF Quiet, NothingHangs, Answered, Repaired
  <1> QED BY <1>1 DEF IInv, Shown, Quiet

LEMMA NextInv == IInv /\ [Next]_vars => IInv'
<1> SUFFICES ASSUME IInv, [Next]_vars PROVE IInv'
  OBVIOUS
<1>0. TypeOK /\ SocketsOK
  BY DEF IInv
<1>1. ASSUME NEW k \in Socks, Handler(k) PROVE IInv'
  <2>1. CASE OpenSends(k)
    BY <1>0, <2>1, OpenSendsTypes, OpenSendsCalls, OpenSendsQuiet, WholeInv
  <2>2. CASE OpenFails(k)
    BY <1>0, <2>2, OpenFailsTypes, OpenFailsCalls, OpenFailsQuiet, WholeInv
  <2>3. CASE AuthIgnored(k)
    BY <1>0, <2>3, AuthIgnoredTypes, AuthIgnoredCalls, AuthIgnoredQuiet, WholeInv
  <2>4. CASE AuthAccepted(k)
    BY <1>0, <2>4, AuthAcceptedTypes, AuthAcceptedCalls, AuthAcceptedQuiet, WholeInv
  <2>5. CASE AuthRefused(k)
    BY <1>0, <2>5, AuthRefusedTypes, AuthRefusedCalls, AuthRefusedQuiet, WholeInv
  <2>6. CASE AfterConnect(k)
    BY <1>0, <2>6, AfterConnectTypes, AfterConnectCalls, AfterConnectQuiet, WholeInv
  <2>7. CASE Close(k)
    BY <1>0, <2>7, CloseTypes, CloseCalls, CloseQuiet, WholeInv
  <2>8. CASE Fail(k)
    BY <1>0, <2>8, FailTypes, FailCalls, FailQuiet, WholeInv
  <2> QED BY <1>1, <2>1, <2>2, <2>3, <2>4, <2>5, <2>6, <2>7, <2>8 DEF Handler
<1>2. ASSUME NEW k \in Socks, TimerFires(k) PROVE IInv'
  <2>1. Connect(k, "auto", timer) /\ timer \in Tokens /\ orphans' = orphans /\ busy' = busy
    BY <1>0, <1>2 DEF TimerFires, TypeOK
  <2>2. orphans' \in SUBSET Tokens
    BY <1>0, <2>1 DEF TypeOK
  <2> QED BY <1>0, <2>1, <2>2, ConnectTypes, ConnectCalls, ConnectQuiet, WholeInv
<1>3. ASSUME NEW k \in Socks, NEW c \in Tokens, Login(k, c) PROVE IInv'
  <2>1. Connect(k, "login", c) /\ orphans' = orphans /\ busy' = k
    BY <1>3 DEF Login
  <2>2. orphans' \in SUBSET Tokens
    BY <1>0, <2>1 DEF TypeOK
  <2> QED BY <1>0, <2>1, <2>2, ConnectTypes, ConnectCalls, ConnectQuiet, WholeInv
<1>4. ASSUME NEW k \in Socks, NEW c \in Tokens, OrphanFires(k, c) PROVE IInv'
  <2>1. Connect(k, "auto", c) /\ orphans' = orphans \ {c} /\ busy' = busy
    BY <1>4 DEF OrphanFires
  <2>2. orphans' \in SUBSET Tokens
    BY <1>0, <2>1 DEF TypeOK
  <2> QED BY <1>0, <2>1, <2>2, ConnectTypes, ConnectCalls, ConnectQuiet, WholeInv
<1>5. CASE Disconnect
  BY <1>0, <1>5, DisconnectTypes, DisconnectCalls, DisconnectQuiet, WholeInv
<1>6. CASE UNCHANGED vars
  <2>1. UNCHANGED <<con, cred, error, ws, timer, orphans, attempts>>
        /\ UNCHANGED <<pending, sock, job, busy, authed, trouble>>
    BY <1>6 DEF vars, timerVars
  <2>2. TypeOK' /\ SocketsOK'
    BY <1>0, <2>1 DEF TypeOK, SocketsOK, Waits
  <2>3. Calls' /\ Behind'
    BY <2>1 DEF IInv, Calls, OneWaiter, OverGlobal, Exclusive, Behind, Uncrossed, Idle, Live, Waits
  <2>4. AuthenticatedIsUsable' /\ LogoutIsFinal'
    BY <2>1 DEF IInv, AuthenticatedIsUsable, LogoutIsFinal
  <2>5. NothingHangs'
    BY <2>1 DEF IInv, NothingHangs, Waits
  <2> QED BY <2>2, <2>3, <2>4, <2>5 DEF IInv
<1> QED BY <1>1, <1>2, <1>3, <1>4, <1>5, <1>6 DEF Next

LEMMA Invariance == Spec => []IInv
<1>1. Init => IInv
  BY InitInv
<1>2. IInv /\ [Next]_vars => IInv'
  BY NextInv
<1> QED BY <1>1, <1>2, PTL DEF Spec

\* The type invariant of the connection.
THEOREM ConnectionTypes == Spec => []TypeOK
<1>1. IInv => TypeOK
  BY DEF IInv
<1> QED BY <1>1, Invariance, PTL

\* While calls of connect do not cross, "authenticated" means that the global
\* socket is open and authenticated by the server.
THEOREM ChatIsOverOpenSocket == Spec => []AuthenticatedIsUsable
<1>1. IInv => AuthenticatedIsUsable
  BY DEF IInv
<1> QED BY <1>1, Invariance, PTL

\* No timer survives a logout whose handle the client still has; none at all
\* and no connection does while calls of connect do not cross.
THEOREM LogoutStops == Spec => []LogoutIsFinal
<1>1. IInv => LogoutIsFinal
  BY DEF IInv
<1> QED BY <1>1, Invariance, PTL

\* On an undisturbed connection every call of connect that waits is still to be
\* answered, and a loss is repaired or told.
THEOREM CallsAreAnswered == Spec => []NothingHangs
<1>1. IInv => NothingHangs
  BY DEF IInv
<1> QED BY <1>1, Invariance, PTL
=============================================================================
