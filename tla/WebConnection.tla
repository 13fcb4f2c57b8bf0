--------------------------- MODULE WebConnection ---------------------------
(***************************************************************************)
(* The connection of the web client (web/src/lib/wsStore.ts): connect,     *)
(* disconnect, the handlers of every socket that was opened, and the       *)
(* reconnection, whose variables ws, reconnectTimeout, reconnectAttempts   *)
(* and pendingRequests all sockets share.                                  *)
(*                                                                         *)
(* The browser runs one task at a time: a handler, with the continuations  *)
(* of the promises it settles, is one step.  A socket may open, fail       *)
(* (an error event, then close) or close at any moment.  A closed socket's *)
(* number is used again.                                                   *)
(***************************************************************************)
EXTENDS Naturals

CONSTANTS Socks,
          None,
          MaxAttempts \* MAX_RECONNECT_ATTEMPTS

ASSUME NoneFresh   == None \notin Socks
ASSUME AttemptsNat == MaxAttempts \in Nat

VARIABLES
  con,      \* connectionState
  cred,     \* wsUrl and authToken: "none", or whether the token is right
  error,    \* whether an error was set since (the user may dismiss it)
  ws,       \* the global ws
  timer,    \* the credentials the timer of reconnectTimeout captured, or "none"
  orphans,  \* the same for timers whose handle was overwritten
  attempts, \* reconnectAttempts
  pending,  \* pendingRequests: sockets whose onopen waits for its auth request
  sock,     \* socket -> readyState
  job,      \* socket -> the call of connect that opened it
  busy,     \* the socket whose connect the login form on the screen waits for
  authed,   \* sockets that the server has authenticated
  trouble   \* history: what has disturbed the connection

timerVars == <<timer, orphans, attempts>>
vars == <<con, cred, error, ws, timerVars, pending, sock, job, busy, authed, trouble>>

Tokens == {"right", "wrong"}
NoJob  == [by |-> "login", token |-> "wrong", pc |-> "none", over |-> None]

Init ==
  /\ con = "disconnected" /\ cred = "none" /\ error = FALSE /\ ws = None
  /\ timer = "none" /\ orphans = {} /\ attempts = 0
  /\ pending = {}
  /\ sock = [k \in Socks |-> "closed"]
  /\ job = [k \in Socks |-> NoJob]
  /\ busy = None
  /\ authed = {}
  /\ trouble = {}

Waits(k) == job[k].pc = "pending"

Live == {k \in Socks : sock[k] # "closed"}

\* "crossed": connect was called while another call of it waited; "cut": a
\* socket closed, and with it the auth request of a call was forgotten.
Note(cause, if) == trouble' = IF if THEN trouble \cup {cause} ELSE trouble

-----------------------------------------------------------------------------
(* connect.                                                                *)

Connect(k, by, c) ==
  /\ k \notin Live /\ busy # k
  /\ timer' = "none"
  /\ con' = "connecting" /\ cred' = c /\ error' = FALSE /\ ws' = k
  /\ sock' = [sock EXCEPT ![k] = "connecting"]
  /\ job' = [job EXCEPT ![k] = [by |-> by, token |-> c, pc |-> "pending", over |-> None]]
  /\ Note("crossed", \E h \in Live : Waits(h))
  /\ UNCHANGED <<attempts, pending, authed>>

\* handleSubmit of the login form, which is shown while not authenticated and
\* disabled while it waits.
Login(k, c) ==
  /\ con # "authenticated" /\ busy = None
  /\ Connect(k, "login", c)
  /\ busy' = k
  /\ UNCHANGED orphans

\* A timer of attemptReconnect is over.
TimerFires(k) ==
  /\ timer # "none"
  /\ Connect(k, "auto", timer)
  /\ UNCHANGED <<orphans, busy>>

OrphanFires(k, c) ==
  /\ c \in orphans
  /\ Connect(k, "auto", c)
  /\ orphans' = orphans \ {c}
  /\ UNCHANGED busy

-----------------------------------------------------------------------------
(* attemptReconnect, and what a settled connect leads to.                  *)

\* Variant: the attempts are not counted.
AttemptReconnectUncounted(e) ==
  /\ timer' = IF cred # "none" THEN cred ELSE timer
  /\ orphans' = IF cred # "none" /\ timer # "none" THEN orphans \cup {timer} ELSE orphans
  /\ error' = e
  /\ UNCHANGED attempts

\* e is the error so far.
AttemptReconnect(e) ==
  IF cred # "none" /\ attempts < MaxAttempts
    THEN /\ timer' = cred
         /\ orphans' = IF timer = "none" THEN orphans ELSE orphans \cup {timer}
         /\ attempts' = attempts + 1
         /\ error' = e
    ELSE /\ error' = (e \/ cred # "none")
         /\ UNCHANGED timerVars

\* Variant: the form stays disabled.
RejectedUnseen(k, e) ==
  /\ busy' = busy
  /\ IF Waits(k) /\ job[k].by = "auto" THEN AttemptReconnect(e) ELSE error' = e /\ UNCHANGED timerVars

\* The promise of connect is rejected, if it is not settled yet: the timer's
\* callback tries again, the form is enabled.
Rejected(k, e) ==
  /\ busy' = IF busy = k /\ Waits(k) THEN None ELSE busy
  /\ IF Waits(k) /\ job[k].by = "auto" THEN AttemptReconnect(e) ELSE error' = e /\ UNCHANGED timerVars

-----------------------------------------------------------------------------
(* The handlers of a socket.                                               *)

\* The test of sendRpcRequest when k has just opened.
Usable(k) == ws = k \/ (ws # None /\ sock[ws] = "open")

\* onopen: the auth request goes out over the global ws, if that is open.
OpenSends(k) ==
  /\ sock[k] = "connecting" /\ Usable(k)
  /\ sock' = [sock EXCEPT ![k] = "open"]
  /\ con' = "connected"
  /\ job' = [job EXCEPT ![k].over = ws]
  /\ pending' = pending \cup {k}
  /\ UNCHANGED <<cred, error, ws, timerVars, busy, authed, trouble>>

OpenFails(k) ==
  /\ sock[k] = "connecting" /\ ~Usable(k)
  /\ sock' = [sock EXCEPT ![k] = "open"]
  /\ con' = "disconnected"
  /\ Rejected(k, TRUE)
  /\ job' = [job EXCEPT ![k].pc = "settled"]
  /\ UNCHANGED <<cred, ws, pending, authed, trouble>>

\* The answer to k's auth request comes over the socket it was sent on; nobody
\* waits for it any more when the requests were cleared meanwhile.
AuthIgnored(k) ==
  LET j == job[k].over IN
  /\ j # None /\ sock[j] = "open" /\ k \notin pending
  /\ job' = [job EXCEPT ![k].over = None]
  /\ authed' = IF job[k].token = "right" THEN authed \cup {j} ELSE authed
  /\ UNCHANGED <<con, cred, error, ws, timerVars, pending, sock, busy, trouble>>

AuthAccepted(k) ==
  LET j == job[k].over IN
  /\ j # None /\ sock[j] = "open" /\ k \in pending /\ job[k].token = "right"
  /\ con' = "authenticated"
  /\ attempts' = 0
  /\ pending' = pending \ {k}
  /\ authed' = authed \cup {j}
  /\ job' = [job EXCEPT ![k].over = None, ![k].pc = "resolved"]
  /\ busy' = None
  /\ UNCHANGED <<cred, error, ws, timer, orphans, sock, trouble>>

AuthRefused(k) ==
  LET j == job[k].over IN
  /\ j # None /\ sock[j] = "open" /\ k \in pending /\ job[k].token = "wrong"
  /\ con' = "disconnected"
  /\ pending' = pending \ {k}
  /\ Rejected(k, TRUE)
  /\ job' = [job EXCEPT ![k].over = None, ![k].pc = "settled"]
  /\ UNCHANGED <<cred, ws, sock, authed, trouble>>

\* The timer's callback goes on after connect, attachSession and syncMessages.
AfterConnect(k) ==
  /\ job[k].pc = "resolved" /\ job[k].by = "auto"
  /\ attempts' = 0
  /\ job' = [job EXCEPT ![k].pc = "settled"]
  /\ UNCHANGED <<con, cred, error, ws, timer, orphans, pending, sock, busy, authed, trouble>>

\* Variant: the state is left as it is.
GoneSilently(k) ==
  /\ sock' = [sock EXCEPT ![k] = "closed"]
  /\ pending' = {} /\ authed' = authed \ {k}
  /\ con' = con

\* The socket k is closed.
Gone(k) ==
  /\ sock' = [sock EXCEPT ![k] = "closed"]
  /\ pending' = {} /\ authed' = authed \ {k}
  /\ con' = "disconnected"

\* No answer comes over k any more.
Unanswered(k) == [h \in Socks |-> [job[h] EXCEPT !.over = IF @ = k THEN None ELSE @]]

\* Variant: the state is looked at after it was set.
CloseLate(k) ==
  /\ sock[k] \in {"open", "closing"}
  /\ Gone(k)
  /\ job' = Unanswered(k)
  /\ Note("cut", pending # {})
  /\ UNCHANGED <<cred, error, ws, timerVars, busy>>

\* onclose, without an error before.
Close(k) ==
  /\ sock[k] \in {"open", "closing"}
  /\ IF con = "authenticated" THEN AttemptReconnect(error) ELSE UNCHANGED <<error, timerVars>>
  /\ Gone(k)
  /\ job' = Unanswered(k)
  /\ Note("cut", pending # {})
  /\ UNCHANGED <<cred, ws, busy>>

\* onerror and onclose.
Fail(k) ==
  /\ k \in Live
  /\ Rejected(k, TRUE)
  /\ Gone(k)
  /\ job' = [Unanswered(k) EXCEPT ![k].pc = IF Waits(k) THEN "settled" ELSE @]
  /\ Note("cut", pending \ {k} # {})
  /\ UNCHANGED <<cred, ws>>

-----------------------------------------------------------------------------
\* Variant: the timer goes on.
DisconnectTicking ==
  /\ con = "authenticated"
  /\ attempts' = MaxAttempts
  /\ sock' = IF ws \in Live THEN [sock EXCEPT ![ws] = "closing"] ELSE sock
  /\ ws' = None
  /\ con' = "disconnected" /\ cred' = "none"
  /\ UNCHANGED <<error, timer, orphans, pending, job, busy, authed, trouble>>

\* disconnect, from the sidebar.
Disconnect ==
  /\ con = "authenticated"
  /\ timer' = "none"
  /\ attempts' = MaxAttempts
  /\ sock' = IF ws \in Live THEN [sock EXCEPT ![ws] = "closing"] ELSE sock
  /\ ws' = None
  /\ con' = "disconnected" /\ cred' = "none"
  /\ UNCHANGED <<error, orphans, pending, job, busy, authed, trouble>>

-----------------------------------------------------------------------------
Handler(k) == \/ OpenSends(k) \/ OpenFails(k)
              \/ AuthIgnored(k) \/ AuthAccepted(k) \/ AuthRefused(k)
              \/ AfterConnect(k) \/ Close(k) \/ Fail(k)

Next ==
  \/ \E k \in Socks : \/ Handler(k) \/ TimerFires(k)
                      \/ \E c \in Tokens : Login(k, c) \/ OrphanFires(k, c)
  \/ Disconnect

Spec == Init /\ [][Next]_vars

\* The browser's part: timers go off, a connection that is being made or closed
\* comes to an end; and the server's: an auth request is answered, as long as
\* the socket is open.
Fairness ==
  /\ WF_vars(\E k \in Socks : TimerFires(k))
  /\ \A k \in Socks :
       /\ WF_vars(OpenSends(k) \/ OpenFails(k) \/ (sock[k] # "open" /\ (Close(k) \/ Fail(k))))
       /\ WF_vars(AuthIgnored(k) \/ AuthAccepted(k) \/ AuthRefused(k))

FairSpec == Spec /\ Fairness

-----------------------------------------------------------------------------
(* Properties.                                                             *)

\* The type invariant; the form waits for a login, and an auth request that is
\* waited for was sent.
TypeOK ==
  /\ con \in {"disconnected", "connecting", "connected", "authenticated"}
  /\ cred \in Tokens \cup {"none"} /\ error \in BOOLEAN
  /\ ws \in Socks \cup {None} /\ busy \in Socks \cup {None}
  /\ timer \in Tokens \cup {"none"} /\ orphans \in SUBSET Tokens /\ attempts \in 0 .. MaxAttempts
  /\ pending \in SUBSET Socks /\ authed \in SUBSET Socks
  /\ sock \in [Socks -> {"connecting", "open", "closing", "closed"}]
  /\ job \in [Socks -> [by : {"login", "auto"}, token : Tokens,
                        pc : {"none", "pending", "resolved", "settled"}, over : Socks \cup {None}]]
  /\ trouble \in SUBSET {"crossed", "cut"}
  /\ busy # None => Waits(busy) /\ job[busy].by = "login"
  /\ \A k \in pending : job[k].over # None

\* The chat is shown over a connection that works: unless connects overlapped,
\* "authenticated" means that the global ws is open and that the server has
\* authenticated it (wsStore.ts:305-371).
AuthenticatedIsUsable ==
  con = "authenticated" /\ "crossed" \notin trouble => ws \in authed /\ sock[ws] = "open"

\* Nothing hangs, unless connects overlapped or a socket took another one's
\* request along: a call of connect that waits will be answered, since its
\* socket is being opened or its auth request waits on an open one; and a
\* connection that is lost is being repaired or the user is told, since a timer
\* runs, a connect is on its way or an error was set (wsStore.ts:252-282, 305-371).
NothingHangs ==
  trouble = {} =>
    /\ \A k \in Socks : Waits(k) => sock[k] = "connecting" \/ (k \in pending /\ sock[job[k].over] = "open")
    /\ con = "disconnected" /\ cred # "none" => error \/ timer # "none" \/ \E k \in Socks : Waits(k)

\* After disconnect nothing reconnects by itself: no timer runs, and unless
\* connects overlapped no timer whose handle is lost runs either and nobody is
\* authenticated (wsStore.ts:374-391).
LogoutIsFinal ==
  cred = "none" =>
    /\ timer = "none"
    /\ "crossed" \notin trouble => orphans = {} /\ con # "authenticated"

\* A reconnection comes to an end: the client is authenticated again, or it has
\* given up, the user is told and may log in, unless sockets crossed or one closed
\* before its auth request was answered (wsStore.ts:244-278).
ReconnectEnds ==
  timer # "none" ~> \/ con = "authenticated" \/ (error /\ timer = "none") \/ cred = "none" \/ trouble # {}
=============================================================================
