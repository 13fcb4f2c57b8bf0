------------------------------ MODULE WebView ------------------------------
(***************************************************************************)
(* What the web client shows (web/src/lib/wsStore.ts): the session, its    *)
(* messages, the answer under construction, the generating mark and the    *)
(* pending request for permission, while requests, notifications and       *)
(* histories cross each other and sockets are replaced.                    *)
(*                                                                         *)
(* The server (server/ws, server/api) is here as the client sees it:       *)
(* requests of a socket are served in order, the notifications of a turn   *)
(* go to the socket that brought its message, and a history is what the    *)
(* store holds when it is read.  A turn has an answer of its own (see      *)
(* ChatTurn for what may become of it).                                    *)
(***************************************************************************)
EXTENDS Naturals, SequencesExt

CONSTANTS Sessions,
          Turns,     \* messages the user sends
          None,
          MaxEvents, \* bound: events of all turns before their ends, see Spent
          MaxSocks   \* bound: sockets

ASSUME NoneFresh == None \notin Sessions \cup Turns
ASSUME BoundsNat == MaxEvents \in Nat /\ MaxSocks \in Nat \ {0}

VARIABLES
  cur,      \* currentSessionId
  messages, \* messages
  gen,      \* isGenerating
  bubble,   \* currentAssistantMessage
  ask,      \* pendingPermission or pendingQuestion
  sock,     \* the socket: "open", "closing" or "closed"
  nr,       \* the number of sockets so far
  recall,   \* the session that onclose captured for the reconnection
  reqs,     \* requests on the socket
  serving,  \* the request the server is at work on
  frames,   \* responses and notifications on the socket
  sync,     \* socket number -> syncMessages
  turn,     \* turn -> where it is, where it came from
  answer,   \* turn -> what it has produced, until its end
  history,  \* session -> what the store holds
  trouble   \* history: what has disturbed the view

viewVars   == <<cur, messages, gen, bubble, ask>>
sockVars   == <<sock, nr, recall>>
wireVars   == <<reqs, serving, frames>>
serverVars == <<turn, answer, history>>
vars == <<viewVars, sockVars, wireVars, sync, serverVars, trouble>>

Socks == 1 .. MaxSocks
Part(m, k) == [of |-> m, nr |-> k]

\* A message, with the id of the client or of the server.
Entry(by, role, m, text) == [by |-> by, role |-> role, turn |-> m, text |-> text]

NoBubble == [turn |-> None, text |-> <<>>]
NoAsk    == Part(None, 0)
NoSync   == [pc |-> "none", sid |-> None, after |-> 0, list |-> <<>>]

Request(k, s, m, then) == [kind |-> k, sid |-> s, turn |-> m, then |-> then, list |-> <<>>]
NoRequest == Request("none", None, None, FALSE)

Frame(k, s, p, list, then) == [kind |-> k, sid |-> s, part |-> p, list |-> list, then |-> then]
Notice(k, m, n) == Frame(k, turn[m].sid, Part(m, n), <<>>, FALSE)

Init ==
  /\ cur = None /\ messages = <<>> /\ gen = FALSE /\ bubble = NoBubble /\ ask = NoAsk
  /\ sock = "open" /\ nr = 1 /\ recall = None
  /\ reqs = <<>> /\ serving = NoRequest /\ frames = <<>>
  /\ sync = [k \in Socks |-> NoSync]
  /\ turn = [m \in Turns |-> [pc |-> "new", src |-> 0, sid |-> None, events |-> 0]]
  /\ answer = [m \in Turns |-> <<>>]
  /\ history = [s \in Sessions |-> <<>>]
  /\ trouble = {}

\* "left": a session is attached while an answer is under way; "untold": the
\* end of a turn does not come, since the connection ended, its message went
\* over REST or the stream was silent; "partial": an error left its answer as
\* the one under construction, or a tool call came before any text; "aside": a
\* system message, stored before the answer, came behind the beginning of it;
\* "overtaken": messages a sync brought were not the next ones any more;
\* "erased": the reply to an answer removed the next request.
Causes == {"left", "untold", "partial", "aside", "overtaken", "erased"}
Note(cause, if) == trouble' = IF if THEN trouble \cup {cause} ELSE trouble

\* What is on its way over the socket.
Pending == {reqs[i] : i \in DOMAIN reqs} \cup {serving}
Coming  == {frames[i] : i \in DOMAIN frames}

Attaching == \/ \E r \in Pending : r.kind = "attach"
             \/ \E f \in Coming : f.kind = "attached"

-----------------------------------------------------------------------------
(* The user.  The chat is shown while the socket is not closed.            *)

\* sendMessage; the input is disabled while isGenerating.
Send(m) ==
  /\ sock # "closed" /\ cur # None /\ ~gen /\ turn[m].pc = "new"
  /\ messages' = Append(messages, Entry("client", "user", m, <<>>))
  /\ gen' = TRUE
  /\ turn' = [turn EXCEPT ![m] = [@ EXCEPT !.pc = "sent", !.sid = cur, !.src = IF sock = "open" THEN nr ELSE 0]]
  /\ reqs' = IF sock = "open" THEN Append(reqs, Request("message", cur, m, FALSE)) ELSE reqs
  /\ trouble' = trouble \cup {c \in {"left"} : Attaching} \cup {c \in {"untold"} : sock # "open"}
  /\ UNCHANGED <<cur, bubble, ask, sockVars, serving, frames, sync, answer, history>>

\* attachSession, for a session chosen in the sidebar; bound: one at a time.
Select(s) ==
  /\ sock = "open"
  /\ ~Attaching
  /\ reqs' = Append(reqs, Request("attach", s, None, FALSE))
  /\ Note("left", gen)
  /\ UNCHANGED <<viewVars, sockVars, serving, frames, sync, serverVars>>

\* respondToPermission and respondToQuestion; the dialog is answered once.
Respond ==
  /\ sock = "open" /\ cur # None /\ ask # NoAsk
  /\ \A r \in Pending : r.kind # "answer"
  /\ \A f \in Coming : f.kind # "answered"
  /\ reqs' = Append(reqs, Request("answer", cur, ask.of, FALSE))
  /\ UNCHANGED <<viewVars, sockVars, serving, frames, sync, serverVars, trouble>>

\* disconnect: the session and its messages are forgotten, the rest is not.
Logout ==
  /\ sock # "closed"
  /\ sock' = "closed" /\ recall' = None
  /\ cur' = None /\ messages' = <<>>
  /\ reqs' = <<>> /\ serving' = NoRequest /\ frames' = <<>>
  /\ Note("untold", gen \/ bubble # NoBubble)
  /\ UNCHANGED <<gen, bubble, ask, nr, sync, serverVars>>

-----------------------------------------------------------------------------
(* The socket.                                                             *)

\* Variant: the requests that wait are not forgotten.
ClosingKeeping ==
  /\ sock = "open"
  /\ sock' = "closing"
  /\ serving' = NoRequest /\ frames' = <<>>
  /\ Note("untold", gen)
  /\ UNCHANGED <<viewVars, nr, recall, reqs, sync, serverVars>>

\* The other end closes, or the network fails: what was on its way is lost.
Closing ==
  /\ sock = "open"
  /\ sock' = "closing"
  /\ reqs' = <<>> /\ serving' = NoRequest /\ frames' = <<>>
  /\ Note("untold", gen)
  /\ UNCHANGED <<viewVars, nr, recall, sync, serverVars>>

\* onclose: attemptReconnect captures the session.
OnClose ==
  /\ sock = "closing"
  /\ sock' = "closed" /\ recall' = cur
  /\ UNCHANGED <<viewVars, nr, wireVars, sync, serverVars, trouble>>

\* A new socket is authenticated, after a login, which clears the timer of a
\* reconnection and attaches nothing, or after a reconnection, which goes on
\* with attachSession and then syncMessages.
Reopen ==
  /\ sock = "closed" /\ nr < MaxSocks
  /\ sock' = "open" /\ nr' = nr + 1
  /\ \/ reqs' = reqs
     \/ recall # None /\ reqs' = Append(reqs, Request("attach", recall, None, TRUE))
  /\ recall' = None
  /\ UNCHANGED <<viewVars, serving, frames, sync, serverVars, trouble>>

-----------------------------------------------------------------------------
(* The server: requests.                                                   *)

Sees(m) == turn[m].src = nr /\ sock = "open"
Tell(m, f) == frames' = IF Sees(m) THEN Append(frames, f) ELSE frames

\* handleRequest, up to the response: chat.message stores the message and
\* starts the turn, chat.attach reads the history, an answer lets the turn go on.
Serve ==
  /\ serving = NoRequest /\ reqs # <<>>
  /\ LET r == Head(reqs) IN
       /\ serving' = CASE r.kind = "attach" -> [r EXCEPT !.list = history[r.sid]]
                       [] r.kind = "answer" -> r
                       [] r.kind = "message" -> NoRequest
       /\ turn' = CASE r.kind = "message" -> [turn EXCEPT ![r.turn].pc = "run"]
                    [] r.kind = "answer" /\ turn[r.turn].pc = "ask" -> [turn EXCEPT ![r.turn].pc = "run"]
                    [] OTHER -> turn
       /\ history' = IF r.kind = "message"
                       THEN [history EXCEPT ![r.sid] = Append(@, Entry("server", "user", r.turn, <<>>))]
                       ELSE history
  /\ reqs' = Tail(reqs)
  /\ UNCHANGED <<viewVars, sockVars, frames, sync, answer, trouble>>

\* The response is written; the one to a message changes nothing.
ServeReply ==
  /\ serving # NoRequest
  /\ serving' = NoRequest
  /\ frames' = CASE serving.kind = "attach" -> Append(frames, Frame("attached", serving.sid, NoAsk, serving.list, serving.then))
                 [] serving.kind = "answer" -> Append(frames, Frame("answered", serving.sid, NoAsk, <<>>, FALSE))
  /\ UNCHANGED <<viewVars, sockVars, reqs, sync, serverVars, trouble>>

\* handleSendMessage of the REST API; its turn notifies nobody.  The response
\* may be lost, which sendMessage's catch takes for a failure.
PostServed(m) ==
  /\ turn[m].pc = "sent" /\ turn[m].src = 0
  /\ turn' = [turn EXCEPT ![m].pc = "run"]
  /\ history' = [history EXCEPT ![turn[m].sid] = Append(@, Entry("server", "user", m, <<>>))]
  /\ gen' \in {gen, FALSE}
  /\ UNCHANGED <<cur, messages, bubble, ask, sockVars, wireVars, sync, answer, trouble>>

\* The POST fails: sendMessage's catch.
PostFails(m) ==
  /\ turn[m].pc = "sent" /\ turn[m].src = 0
  /\ turn' = [turn EXCEPT ![m].pc = "over"]
  /\ gen' = FALSE
  /\ UNCHANGED <<cur, messages, bubble, ask, sockVars, wireVars, sync, answer, history, trouble>>

-----------------------------------------------------------------------------
(* The server: a turn's events.                                            *)

\* Bound: the events of all turns, and the sockets; for a system message, the
\* causes that have disturbed the view as well.
Spent == MapThenSumSet(LAMBDA m : turn[m].events, Turns) + nr

Produce(m, kind) ==
  LET k == turn[m].events + 1 IN
  /\ turn[m].pc = "run"
  /\ Spent <= MaxEvents
  /\ turn' = [turn EXCEPT ![m].pc = IF kind = "ask" THEN "ask" ELSE "run", ![m].events = k]
  /\ answer' = IF kind = "ask" THEN answer ELSE [answer EXCEPT ![m] = Append(@, Part(m, k))]
  /\ Tell(m, Notice(kind, m, k))
  /\ UNCHANGED <<viewVars, sockVars, reqs, serving, sync, history, trouble>>

\* A system message is stored at once, before the answer it comes with.
System(m) ==
  LET k == turn[m].events + 1 IN
  /\ turn[m].pc = "run"
  /\ Spent + Cardinality(trouble) <= MaxEvents
  /\ turn' = [turn EXCEPT ![m].events = k]
  /\ history' = [history EXCEPT ![turn[m].sid] = Append(@, Entry("server", "system", m, <<Part(m, k)>>))]
  /\ Tell(m, Notice("system", m, k))
  /\ UNCHANGED <<viewVars, sockVars, reqs, serving, sync, answer, trouble>>

Done(m) ==
  /\ turn[m].pc = "run"
  /\ turn' = [turn EXCEPT ![m].pc = "over"]
  /\ history' = [history EXCEPT ![turn[m].sid] = Append(@, Entry("server", "assistant", m, answer[m]))]
  /\ answer' = [answer EXCEPT ![m] = <<>>]
  /\ Tell(m, Notice("done", m, 0))
  /\ UNCHANGED <<viewVars, sockVars, reqs, serving, sync, trouble>>

Error(m) ==
  /\ turn[m].pc = "run"
  /\ turn' = [turn EXCEPT ![m].pc = "over"]
  /\ answer' = [answer EXCEPT ![m] = <<>>]
  /\ Tell(m, Notice("error", m, 0))
  /\ UNCHANGED <<viewVars, sockVars, reqs, serving, sync, history, trouble>>

\* The stream ends without a result: nothing is stored, nobody is told.
Silent(m) ==
  /\ turn[m].pc \in {"run", "ask"}
  /\ turn' = [turn EXCEPT ![m].pc = "over"]
  /\ answer' = [answer EXCEPT ![m] = <<>>]
  /\ Note("untold", TRUE)
  /\ UNCHANGED <<viewVars, sockVars, wireVars, sync, history>>

-----------------------------------------------------------------------------
(* onmessage.                                                              *)

\* The messages with the text of the answer under construction.
Shown(b) == [i \in DOMAIN messages |->
               IF messages[i].by = "client" /\ messages[i].role = "assistant" /\ messages[i].turn = b.turn
                 THEN [messages[i] EXCEPT !.text = b.text] ELSE messages[i]]

\* Variant: the session is not compared.
HearsAll(f) == TRUE

\* Notifications of another session are dropped.
Hears(f) == f.sid = cur

Receive(kinds) == frames # <<>> /\ Head(frames).kind \in kinds /\ frames' = Tail(frames)

OnText ==
  /\ Receive({"text"})
  /\ LET f == Head(frames)
         b == IF bubble = NoBubble THEN [turn |-> f.part.of, text |-> <<f.part>>]
                                   ELSE [bubble EXCEPT !.text = Append(@, f.part)] IN
       IF ~Hears(f) THEN UNCHANGED <<messages, bubble>>
       ELSE /\ bubble' = b
            /\ messages' = IF bubble = NoBubble THEN Append(messages, Entry("client", "assistant", b.turn, b.text))
                                                ELSE Shown(b)
  /\ UNCHANGED <<cur, gen, ask, sockVars, reqs, serving, sync, serverVars, trouble>>

\* A tool call is added to the answer under construction, if there is one.
OnTool ==
  /\ Receive({"tool"})
  /\ LET f == Head(frames)
         b == [bubble EXCEPT !.text = Append(@, f.part)] IN
       /\ IF Hears(f) /\ bubble # NoBubble THEN bubble' = b /\ messages' = Shown(b)
                                           ELSE UNCHANGED <<messages, bubble>>
       /\ Note("partial", Hears(f) /\ bubble = NoBubble)
  /\ UNCHANGED <<cur, gen, ask, sockVars, reqs, serving, sync, serverVars>>

\* A system message is a message of its own, behind whatever is shown.
OnSystem ==
  /\ Receive({"system"})
  /\ LET f == Head(frames) IN
       /\ messages' = IF Hears(f) THEN Append(messages, Entry("client", "system", f.part.of, <<f.part>>)) ELSE messages
       /\ Note("aside", Hears(f) /\ bubble # NoBubble)
  /\ UNCHANGED <<cur, gen, bubble, ask, sockVars, reqs, serving, sync, serverVars>>

\* Variant: a dialog that is open stays.
OnAskFirst ==
  /\ Receive({"ask"})
  /\ ask' = IF Hears(Head(frames)) /\ ask = NoAsk THEN Head(frames).part ELSE ask
  /\ UNCHANGED <<cur, messages, gen, bubble, sockVars, reqs, serving, sync, serverVars, trouble>>

OnAsk ==
  /\ Receive({"ask"})
  /\ ask' = IF Hears(Head(frames)) THEN Head(frames).part ELSE ask
  /\ UNCHANGED <<cur, messages, gen, bubble, sockVars, reqs, serving, sync, serverVars, trouble>>

\* Variants: the answer under construction stays; the mark stays on an error.
OnEndKeeping ==
  /\ Receive({"done", "error"})
  /\ gen' = IF Hears(Head(frames)) THEN FALSE ELSE gen
  /\ UNCHANGED <<cur, messages, bubble, ask, sockVars, reqs, serving, sync, serverVars, trouble>>
OnEndUnmarked ==
  /\ Receive({"done", "error"})
  /\ LET f == Head(frames) IN
       /\ gen' = IF Hears(f) /\ f.kind = "done" THEN FALSE ELSE gen
       /\ bubble' = IF Hears(f) /\ f.kind = "done" THEN NoBubble ELSE bubble
       /\ Note("partial", Hears(f) /\ f.kind = "error" /\ bubble # NoBubble)
  /\ UNCHANGED <<cur, messages, ask, sockVars, reqs, serving, sync, serverVars>>

\* chat.done and chat.error; only the first ends the answer under construction.
OnEnd ==
  /\ Receive({"done", "error"})
  /\ LET f == Head(frames) IN
       /\ gen' = IF Hears(f) THEN FALSE ELSE gen
       /\ bubble' = IF Hears(f) /\ f.kind = "done" THEN NoBubble ELSE bubble
       /\ Note("partial", Hears(f) /\ f.kind = "error" /\ bubble # NoBubble)
  /\ UNCHANGED <<cur, messages, ask, sockVars, reqs, serving, sync, serverVars>>

\* attachSession's reply; in a reconnection syncMessages follows at once.
OnAttached ==
  /\ Receive({"attached"})
  /\ LET f == Head(frames) IN
       /\ cur' = f.sid /\ messages' = f.list /\ ask' = NoAsk
       /\ sync' = IF f.then THEN [sync EXCEPT ![nr] = [pc |-> "asked", sid |-> f.sid, after |-> Len(f.list), list |-> <<>>]]
                            ELSE sync
  /\ UNCHANGED <<gen, bubble, sockVars, reqs, serving, serverVars, trouble>>

\* The reply to an answer removes whatever request is shown by now.
OnAnswered ==
  /\ Receive({"answered"})
  /\ ask' = NoAsk
  /\ Note("erased", ask # NoAsk /\ turn[ask.of].pc = "ask" /\ turn[ask.of].events = ask.nr)
  /\ UNCHANGED <<cur, messages, gen, bubble, sockVars, reqs, serving, sync, serverVars>>

\* handleGetHistory reads the history after the last message the client had.
SyncServed(k) ==
  /\ sync[k].pc = "asked"
  /\ LET h == history[sync[k].sid] IN
       sync' = [sync EXCEPT ![k].pc = "answered", ![k].list = SubSeq(h, sync[k].after + 1, Len(h))]
  /\ UNCHANGED <<viewVars, sockVars, wireVars, serverVars, trouble>>

\* syncMessages appends what comes to whatever is shown; or the fetch failed.
OnSynced(k) ==
  LET r == sync[k] IN
  /\ r.pc # "none"
  /\ sync' = [sync EXCEPT ![k] = NoSync]
  /\ messages' \in {messages} \cup {messages \o l : l \in {r.list} \ {<<>>}}
  /\ Note("overtaken", messages' # messages /\ (cur # r.sid \/ Len(messages) # r.after))
  /\ UNCHANGED <<cur, gen, bubble, ask, sockVars, wireVars, serverVars>>

-----------------------------------------------------------------------------
User   == (\E m \in Turns : Send(m)) \/ (\E s \in Sessions : Select(s)) \/ Respond \/ Logout
Socket == Closing \/ OnClose \/ Reopen
Server == \/ Serve \/ ServeReply \/ \E k \in Socks : SyncServed(k)
          \/ \E m \in Turns : \/ PostServed(m) \/ System(m) \/ Done(m) \/ Error(m) \/ Silent(m)
                              \/ \E kind \in {"text", "tool", "ask"} : Produce(m, kind)
Client == \/ OnText \/ OnTool \/ OnSystem \/ OnAsk \/ OnEnd \/ OnAttached \/ OnAnswered
          \/ (\E k \in Socks : OnSynced(k)) \/ (\E m \in Turns : PostFails(m))

Next == User \/ Socket \/ Server \/ Client
Spec == Init /\ [][Next]_vars

-----------------------------------------------------------------------------
(* Properties.                                                             *)

Parts   == [of : Turns, nr : Nat]
Entries == [by : {"client", "server"}, role : {"user", "assistant", "system"}, turn : Turns, text : Seq(Parts)]

\* The type invariant; nothing is on its way over a socket that is not open.
TypeOK ==
  /\ cur \in Sessions \cup {None} /\ messages \in Seq(Entries)
  /\ gen \in BOOLEAN
  /\ bubble \in [turn : Turns, text : Seq(Parts)] \cup {NoBubble}
  /\ ask \in Parts \cup {NoAsk}
  /\ sock \in {"open", "closing", "closed"} /\ nr \in Socks /\ recall \in Sessions \cup {None}
  /\ reqs \in Seq([kind : {"message", "attach", "answer"}, sid : Sessions, turn : Turns \cup {None},
                   then : BOOLEAN, list : Seq(Entries)])
  /\ serving \in [kind : {"none", "attach", "answer"}, sid : Sessions \cup {None},
                  turn : Turns \cup {None}, then : BOOLEAN, list : Seq(Entries)]
  /\ frames \in Seq([kind : {"text", "tool", "system", "ask", "done", "error", "attached", "answered"},
                     sid : Sessions, part : Parts \cup {NoAsk}, list : Seq(Entries), then : BOOLEAN])
  /\ sync \in [Socks -> [pc : {"none", "asked", "answered"}, sid : Sessions \cup {None},
                         after : Nat, list : Seq(Entries)]]
  /\ turn \in [Turns -> [pc : {"new", "sent", "run", "ask", "over"}, src : Socks \cup {0},
                         sid : Sessions \cup {None}, events : Nat]]
  /\ answer \in [Turns -> Seq(Parts)] /\ history \in [Sessions -> Seq(Entries)]
  /\ trouble \in SUBSET Causes
  /\ sock # "open" => Pending = {NoRequest} /\ Coming = {}

\* Everything that is shown, answers under construction included, belongs to
\* the session that is shown, however often the user switches while answers
\* come; only a sync that is overtaken brings messages of another session
\* (wsStore.ts:94-95, 458-496, 607-612).
OwnSession ==
  "overtaken" \notin trouble =>
    \A i \in DOMAIN messages :
      /\ turn[messages[i].turn].sid = cur
      /\ \A j \in DOMAIN messages[i].text : turn[messages[i].text[j].of].sid = cur

\* Nothing of the session that is shown is under way.
AtRest ==
  /\ sock = "open" /\ reqs = <<>> /\ serving = NoRequest /\ frames = <<>>
  /\ \A k \in Socks : sync[k].pc = "none"
  /\ \A m \in Turns : turn[m].sid = cur => turn[m].pc \in {"new", "over"}

\* What there is to see: an answer without any text or tool call is nothing.
Visible(q) == {i \in DOMAIN q : q[i].role = "user" \/ q[i].text # <<>>}
Same(e, f) == e.role = f.role /\ e.turn = f.turn /\ e.text = f.text

\* The entries of p at the places P are those of q at the places Q, in order and
\* without doubles.
Agree(p, P, q, Q) ==
  /\ \A i \in P : \E j \in Q : Same(p[i], q[j])
  /\ \A j \in Q : \E i \in P : Same(p[i], q[j])
  /\ \A i, h \in P : \A j, k \in Q : Same(p[i], q[j]) /\ Same(p[h], q[k]) => (i < h <=> j < k)

\* The view agrees with the history: once nothing is under way, what was put
\* together from texts, tool calls and system messages, attached and synced is
\* what the store holds, in order and without doubles, unless one of the named causes has
\* disturbed it (wsStore.ts:97-225, 393-435, 458-496, 577-616).
ViewIsHistory ==
  trouble \subseteq {"erased"} /\ AtRest /\ cur # None =>
    Agree(messages, Visible(messages), history[cur], Visible(history[cur]))

\* The generating mark, which disables the input, is never on for nothing: the
\* message is on its way, its turn runs and will tell this socket, or the end
\* is coming, unless a session was attached meanwhile, the connection ended,
\* the message went over REST or the stream was silent (wsStore.ts:192-205, 404-434).
GeneratingHasEnd ==
  gen /\ trouble \cap {"left", "untold"} = {} =>
    \/ \E r \in Pending : r.kind = "message" /\ turn[r.turn].pc = "sent"
    \/ \E m \in Turns : turn[m].pc \in {"run", "ask"} /\ Sees(m) /\ turn[m].sid = cur
    \/ \E f \in Coming : f.kind \in {"done", "error"} /\ f.sid = cur

\* A request for permission that a turn of this session waits on is shown, on
\* its way, or being answered, unless its session was attached again or the
\* reply to an earlier answer erased it (wsStore.ts:167-190, 489-490, 520-574).
AskIsShown ==
  \A m \in Turns :
    /\ turn[m].pc = "ask" /\ Sees(m) /\ turn[m].sid = cur
    /\ \A r \in Pending : r.kind # "answer"
    /\ \A f \in Coming : f.kind # "ask"
    /\ trouble \cap {"left", "erased"} = {}
    => ask = Part(m, turn[m].events)
=============================================================================
