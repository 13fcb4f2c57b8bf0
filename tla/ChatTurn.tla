------------------------------ MODULE ChatTurn ------------------------------
(***************************************************************************)
(* A chat message from its arrival to its answer in the history            *)
(* (server/ws/rpc.go, server/api/chat.go): the handlers store the user's   *)
(* message and leave a goroutine behind that reads the agent's stream,     *)
(* collects the answer, tells the client and stores the answer at the end. *)
(*                                                                         *)
(* A turn is one message.  Over a WebSocket the answer under construction  *)
(* belongs to the connection (ConnState), over REST to the turn's own      *)
(* goroutine.  The agent is seen through its streams, of any events that   *)
(* claude.go can send; the store through AddMessage, which no lock covers:  *)
(* it loads a session's history in one step and stores it, a message       *)
(* longer, in another, and calls for one session may overlap.              *)
(***************************************************************************)
EXTENDS Naturals, Sequences

CONSTANTS Conns,    \* WebSocket connections
          Sessions,
          Turns,    \* chat messages, each with a fresh id
          None,
          MaxEvents, \* bound: events of one stream before its end
          MaxBoth    \* bound: events of any two streams together

ASSUME NoneFresh     == None \notin Conns \cup Sessions \cup Turns
ASSUME ConnsNotTurns == Conns \cap Turns = {}
ASSUME MaxEventsNat  == MaxEvents \in Nat /\ MaxBoth \in Nat

VARIABLES
  link,    \* connection -> "open" or "closed"
  authed,  \* connections whose client is authenticated
  known,   \* sessions of the store
  turn,    \* turn -> where it is, where it came from, what became of it
  track,   \* collector (a connection, or a REST turn) -> answer under construction
  history, \* session -> its messages
  loaded,  \* turn -> the history that its call of AddMessage has loaded
  said,    \* history: turn -> what its stream delivered
  crossed, \* history: turns that shared a connection with another one
  raced    \* history: sessions on which two calls of AddMessage overlapped

vars == <<link, authed, known, turn, track, history, loaded, said, crossed, raced>>

Part(m, k) == [of |-> m, nr |-> k]
Nothing    == [content |-> <<>>, tools |-> <<>>]

\* The fields currentAssistantMsgID, -Content and -Tools.
Tracking(id, answer) == [id |-> id, answer |-> answer]
NoTracking == Tracking(None, Nothing)

UserMessage(m)     == [role |-> "user", turn |-> m, answer |-> Nothing]
SystemMessage(m)   == [role |-> "system", turn |-> m, answer |-> Nothing]
Reply(id, answer)  == [role |-> "assistant", turn |-> id, answer |-> answer]

NewTurn == [pc |-> "new", src |-> None, sid |-> None, events |-> 0,
            note |-> "none", seen |-> <<>>, told |-> "none", result |-> "none"]

Init ==
  /\ link = [c \in Conns |-> "open"]
  /\ authed = {}
  /\ known = {}
  /\ turn = [m \in Turns |-> NewTurn]
  /\ track = [x \in Conns \cup Turns |-> NoTracking]
  /\ history = [s \in Sessions |-> <<>>]
  /\ loaded = [m \in Turns |-> <<>>]
  /\ said = [m \in Turns |-> Nothing]
  /\ crossed = {}
  /\ raced = {}

Src(m)    == turn[m].src
OverWS(m) == Src(m) \in Conns

\* The turn is inside a call of AddMessage: for the question, for a message of
\* the system, or for the answer.
Adding(m) == turn[m].pc \in {"ask", "aside", "reply"}

\* AddMessage up to its append: the history is loaded.
Load(m, s) ==
  /\ loaded' = [loaded EXCEPT ![m] = history[s]]
  /\ raced' = IF \E h \in Turns : Adding(h) /\ turn[h].sid = s THEN raced \cup {s} ELSE raced

\* AddMessage's append and Store: the slice is as long as this call makes it.
\* Calls that overlap may append to one array: a cell that differs from what
\* the store holds by now is as this call left it or as the other one did.
Store(m, msg) ==
  LET s      == turn[m].sid
      slice  == Append(loaded[m], msg)
      shared == {i \in DOMAIN slice \cap DOMAIN history[s] : slice[i] # history[s][i]} IN
  /\ \E over \in SUBSET shared :
       history' = [history EXCEPT ![s] = [i \in DOMAIN slice |-> IF i \in over THEN history[s][i] ELSE slice[i]]]
  /\ loaded' = [loaded EXCEPT ![m] = <<>>]
  /\ UNCHANGED raced

\* The message loop handles one request at a time.
Idle(c) == \A m \in Turns : ~(Src(m) = c /\ turn[m].pc \in {"ask", "track"})

\* state.mu is held while an answer is stored.
Locked(x) == \E m \in Turns : Src(m) = x /\ turn[m].pc = "reply"

\* handleRequest's test.
MayAsk(c) == link[c] = "open" /\ Idle(c) /\ c \in authed

\* Turns whose goroutine will still handle events.
Running(c) == {m \in Turns : Src(m) = c /\ turn[m].result = "none" /\ turn[m].pc \notin {"ask", "track"}}

-----------------------------------------------------------------------------
(* The requests.                                                           *)

\* handleAuth, with the right token.
Auth(c) ==
  /\ link[c] = "open" /\ Idle(c) /\ c \notin authed
  /\ authed' = authed \cup {c}
  /\ UNCHANGED <<link, known, turn, track, history, loaded, said, crossed, raced>>

\* handleSessionCreate.
SessionCreate(c, s) ==
  /\ MayAsk(c) /\ s \notin known
  /\ known' = known \cup {s}
  /\ UNCHANGED <<link, authed, turn, track, history, loaded, said, crossed, raced>>

\* handleChatMessage up to the load in AddMessage; nothing asks whether s exists.
ChatMessage(c, m, s) ==
  /\ MayAsk(c) /\ turn[m].pc = "new"
  /\ turn' = [turn EXCEPT ![m] = [@ EXCEPT !.pc = "ask", !.src = c, !.sid = s]]
  /\ Load(m, s)
  /\ UNCHANGED <<link, authed, known, track, history, said, crossed>>

\* The question is stored.
ChatStore(m) ==
  /\ turn[m].pc = "ask" /\ OverWS(m)
  /\ Store(m, UserMessage(m))
  /\ turn' = [turn EXCEPT ![m].pc = "track"]
  /\ UNCHANGED <<link, authed, known, track, said, crossed>>

\* Variant: what another turn collected is kept.
TrackKeeping(m) ==
  /\ turn[m].pc = "track" /\ ~Locked(Src(m))
  /\ turn' = [turn EXCEPT ![m].pc = "send"]
  /\ track' = [track EXCEPT ![Src(m)] = Tracking(m, @.answer)]
  /\ crossed' = crossed \cup IF Running(Src(m)) = {} THEN {} ELSE Running(Src(m)) \cup {m}
  /\ UNCHANGED <<link, authed, known, history, loaded, said, raced>>

\* The section under state.mu, the start of the goroutine, and the response.
Track(m) ==
  /\ turn[m].pc = "track" /\ ~Locked(Src(m))
  /\ turn' = [turn EXCEPT ![m].pc = "send"]
  /\ track' = [track EXCEPT ![Src(m)] = Tracking(m, Nothing)]
  /\ crossed' = crossed \cup IF Running(Src(m)) = {} THEN {} ELSE Running(Src(m)) \cup {m}
  /\ UNCHANGED <<link, authed, known, history, loaded, said, raced>>

\* handleSendMessage of the REST API, whose session must exist, up to the load.
Post(m, s) ==
  /\ turn[m].pc = "new" /\ s \in known
  /\ turn' = [turn EXCEPT ![m] = [@ EXCEPT !.pc = "ask", !.src = m, !.sid = s]]
  /\ Load(m, s)
  /\ UNCHANGED <<link, authed, known, track, history, said, crossed>>

\* The question is stored and processMessage starts, with locals of its own.
PostStore(m) ==
  /\ turn[m].pc = "ask" /\ ~OverWS(m)
  /\ Store(m, UserMessage(m))
  /\ turn' = [turn EXCEPT ![m].pc = "send"]
  /\ track' = [track EXCEPT ![m] = Tracking(m, Nothing)]
  /\ UNCHANGED <<link, authed, known, said, crossed>>

-----------------------------------------------------------------------------
(* The goroutine a message leaves behind.  Over a WebSocket an event is    *)
(* handled in two steps, tracking and notification.                        *)

\* SendMessage succeeds.
Send(m) ==
  /\ turn[m].pc = "send"
  /\ turn' = [turn EXCEPT ![m].pc = "stream"]
  /\ UNCHANGED <<link, authed, known, track, history, loaded, said, crossed, raced>>

\* The turn after its stream brought one more event; over a WebSocket the
\* client will be told.
Noted(m, note, result) ==
  turn' = [turn EXCEPT ![m] =
             [turn[m] EXCEPT !.pc = IF OverWS(m) THEN "notify" ELSE IF result = "none" THEN "stream" ELSE "end",
                             !.note = IF OverWS(m) THEN note ELSE "none",
                             !.events = IF result = "none" THEN @ + 1 ELSE @,
                             !.result = result]]

\* SendMessage fails: chat.error, or nothing over REST.
SendFails(m) ==
  /\ turn[m].pc = "send"
  /\ Noted(m, "error", "error")
  /\ UNCHANGED <<link, authed, known, track, history, loaded, said, crossed, raced>>

MoreEvents(m) ==
  /\ turn[m].pc = "stream" /\ turn[m].events < MaxEvents
  /\ \A h \in Turns \ {m} : turn[m].events + turn[h].events < MaxBoth

WithText(a, p) == [a EXCEPT !.content = Append(@, p)]
WithCall(a, p) == [a EXCEPT !.tools = Append(@, [id |-> p, status |-> "pending"])]
\* Variant: a status that is none of the documented ones.
WithResultDone(a, p) ==
  [a EXCEPT !.tools = [i \in DOMAIN @ |-> IF @[i].id = p THEN [id |-> p, status |-> "done"] ELSE @[i]]]

WithResult(a, p) ==
  [a EXCEPT !.tools = [i \in DOMAIN @ |-> IF @[i].id = p THEN [id |-> p, status |-> "completed"] ELSE @[i]]]

Collected(m) == track[Src(m)].answer

\* The collector holds a, all that m's stream delivered is b.
Collect(m, a, b) ==
  /\ track' = [track EXCEPT ![Src(m)].answer = a]
  /\ said' = [said EXCEPT ![m] = b]

Text(m) ==
  /\ MoreEvents(m) /\ ~Locked(Src(m))
  /\ LET p == Part(m, turn[m].events + 1) IN Collect(m, WithText(Collected(m), p), WithText(said[m], p))
  /\ Noted(m, "text", "none")
  /\ UNCHANGED <<link, authed, known, history, loaded, crossed, raced>>

ToolCall(m) ==
  /\ MoreEvents(m) /\ ~Locked(Src(m))
  /\ LET p == Part(m, turn[m].events + 1) IN Collect(m, WithCall(Collected(m), p), WithCall(said[m], p))
  /\ Noted(m, "tool", "none")
  /\ UNCHANGED <<link, authed, known, history, loaded, crossed, raced>>

\* The result of a call that this stream made.
ToolResult(m) ==
  /\ MoreEvents(m) /\ ~Locked(Src(m))
  /\ \E i \in DOMAIN said[m].tools :
       /\ said[m].tools[i].status = "pending"
       /\ LET p == said[m].tools[i].id IN Collect(m, WithResult(Collected(m), p), WithResult(said[m], p))
  /\ Noted(m, "tool", "none")
  /\ UNCHANGED <<link, authed, known, history, loaded, crossed, raced>>

\* A permission request or a question: the client is told and nothing is kept.
Request(m) ==
  /\ MoreEvents(m)
  /\ Noted(m, "request", "none")
  /\ UNCHANGED <<link, authed, known, track, history, loaded, said, crossed, raced>>

\* A message of the system: it is stored at once.
System(m) ==
  /\ MoreEvents(m)
  /\ turn' = [turn EXCEPT ![m].pc = "aside"]
  /\ Load(m, turn[m].sid)
  /\ UNCHANGED <<link, authed, known, track, history, said, crossed>>

SystemStore(m) ==
  /\ turn[m].pc = "aside"
  /\ Store(m, SystemMessage(m))
  /\ Noted(m, "system", "none")
  /\ UNCHANGED <<link, authed, known, track, said, crossed>>

\* The answer is stored at the result: over a WebSocket if the tracking has an
\* id, over REST if something was collected.
Saves(m) == IF OverWS(m) THEN track[Src(m)].id # None ELSE Collected(m) # Nothing

\* The result: state.mu is taken, and the answer is stored if there is one.
Done(m) ==
  /\ turn[m].pc = "stream" /\ ~Locked(Src(m))
  /\ \/ /\ Saves(m)
        /\ turn' = [turn EXCEPT ![m].pc = "reply"]
        /\ Load(m, turn[m].sid)
     \/ /\ ~Saves(m)
        /\ Noted(m, "done", "done")
        /\ UNCHANGED <<loaded, raced>>
  /\ UNCHANGED <<link, authed, known, track, history, said, crossed>>

\* Variant: the tracking is not reset.
DoneKeepingAnswer(m) ==
  /\ turn[m].pc = "reply"
  /\ Store(m, Reply(track[Src(m)].id, Collected(m)))
  /\ Noted(m, "done", "done")
  /\ UNCHANGED <<link, authed, known, track, said, crossed>>

\* What has been collected is stored as the answer; over a WebSocket the
\* tracking is reset and state.mu released.
DoneStore(m) ==
  /\ turn[m].pc = "reply"
  /\ Store(m, Reply(track[Src(m)].id, Collected(m)))
  /\ track' = IF OverWS(m) THEN [track EXCEPT ![Src(m)] = NoTracking] ELSE track
  /\ Noted(m, "done", "done")
  /\ UNCHANGED <<link, authed, known, said, crossed>>

\* An error event: the client is told, what was collected stays where it is.
Error(m) ==
  /\ turn[m].pc = "stream"
  /\ Noted(m, "error", "error")
  /\ UNCHANGED <<link, authed, known, track, history, loaded, said, crossed, raced>>

\* The stream ends without a result (the CLI died, the context ended): the
\* goroutine returns and nobody is told.
StreamEnds(m) ==
  /\ turn[m].pc = "stream"
  /\ turn' = [turn EXCEPT ![m].pc = "end", ![m].result = "cut"]
  /\ UNCHANGED <<link, authed, known, track, history, loaded, said, crossed, raced>>

\* Variant: only the first text is told.
NotifyFirst(m) ==
  LET r == turn[m]
      open == link[r.src] = "open" IN
  /\ r.pc = "notify"
  /\ turn' = [turn EXCEPT ![m] =
                [r EXCEPT !.pc = IF r.result = "none" THEN "stream" ELSE "end", !.note = "none",
                          !.seen = IF open /\ r.note = "text" /\ @ = <<>> THEN Append(@, Part(m, r.events)) ELSE @,
                          !.told = IF open /\ r.result # "none" THEN r.result ELSE @]]
  /\ UNCHANGED <<link, authed, known, track, history, loaded, said, crossed, raced>>

\* SendNotification; on a closed connection it fails, which is ignored.
Notify(m) ==
  LET r == turn[m]
      open == link[r.src] = "open" IN
  /\ r.pc = "notify"
  /\ turn' = [turn EXCEPT ![m] =
                [r EXCEPT !.pc = IF r.result = "none" THEN "stream" ELSE "end", !.note = "none",
                          !.seen = IF open /\ r.note = "text" THEN Append(@, Part(m, r.events)) ELSE @,
                          !.told = IF open /\ r.result # "none" THEN r.result ELSE @]]
  /\ UNCHANGED <<link, authed, known, track, history, loaded, said, crossed, raced>>

Disconnect(c) ==
  /\ link[c] = "open"
  /\ link' = [link EXCEPT ![c] = "closed"]
  /\ UNCHANGED <<authed, known, turn, track, history, loaded, said, crossed, raced>>

-----------------------------------------------------------------------------
Event(m) == \/ Text(m) \/ ToolCall(m) \/ ToolResult(m) \/ Request(m) \/ System(m)
            \/ SystemStore(m) \/ Done(m) \/ DoneStore(m) \/ Error(m) \/ StreamEnds(m)

Step(m) == ChatStore(m) \/ PostStore(m) \/ Track(m) \/ Send(m) \/ SendFails(m) \/ Event(m) \/ Notify(m)

Next ==
  \/ \E c \in Conns : \/ Auth(c)
                      \/ Disconnect(c)
                      \/ \E s \in Sessions : SessionCreate(c, s) \/ \E m \in Turns : ChatMessage(c, m, s)
  \/ \E m \in Turns : Step(m) \/ \E s \in Sessions : Post(m, s)

Spec == Init /\ [][Next]_vars

-----------------------------------------------------------------------------
(* Properties.                                                             *)

Parts      == [of : Turns, nr : Nat]
AnswerType == [content : Seq(Parts), tools : Seq([id : Parts, status : {"pending", "completed"}])]
Entry      == [role : {"user", "system", "assistant"}, turn : Turns, answer : AnswerType]
Results    == {"none", "done", "error", "cut"}
TurnType   == [pc : {"new", "ask", "track", "send", "stream", "aside", "reply", "notify", "end"},
               src : Conns \cup Turns \cup {None}, sid : Sessions \cup {None}, events : Nat,
               note : {"none", "text", "tool", "request", "system", "done", "error"},
               seen : Seq(Parts), told : Results, result : Results]

\* The type invariant; a turn that has begun has a session and comes from a
\* connection or from itself.
TypeOK ==
  /\ link \in [Conns -> {"open", "closed"}]
  /\ authed \in SUBSET Conns /\ known \in SUBSET Sessions
  /\ turn \in [Turns -> TurnType]
  /\ track \in [Conns \cup Turns -> [id : Turns \cup {None}, answer : AnswerType]]
  /\ history \in [Sessions -> Seq(Entry)] /\ loaded \in [Turns -> Seq(Entry)]
  /\ said \in [Turns -> AnswerType]
  /\ crossed \in SUBSET Turns /\ raced \in SUBSET Sessions
  /\ \A m \in Turns : turn[m].pc # "new" => Src(m) \in Conns \cup {m} /\ turn[m].sid \in Sessions

Replies(s, m) == {i \in DOMAIN history[s] : history[s][i].role = "assistant" /\ history[s][i].turn = m}

\* A turn that shared its connection with no other one has the answer its
\* stream delivered, tool calls and their results included, in its session's
\* history: once, after its result came and not before, and nowhere else; over
\* REST an empty answer is left out.  Only a call of AddMessage on the session
\* that overlapped another one can have lost it (rpc.go:184-188, 282-361;
\* chat.go:177-214; store.go:121-128).
OwnReply ==
  \A m \in Turns \ crossed :
    /\ \A s \in Sessions : \A i \in Replies(s, m) :
         /\ s = turn[m].sid /\ turn[m].result = "done"
         /\ history[s][i].answer = said[m]
         /\ Replies(s, m) = {i}
    /\ turn[m].result = "done" /\ (OverWS(m) \/ said[m] # Nothing) =>
         turn[m].sid \in raced \/ Replies(turn[m].sid, m) # {}

\* However turns and their calls of AddMessage overlap, what a stream delivered
\* is stored at most once and only for a turn of its own connection: a REST
\* turn neither takes from others nor gives to them.  In a session without
\* overlapping calls a question of that connection is ahead of it
\* (rpc.go:287-289, 337-361; chat.go:177-179; store.go:121-128).
PartsOf(e) == {e.answer.content[i] : i \in DOMAIN e.answer.content}
PartsStayOnTheirConnection ==
  \A s \in Sessions : \A i \in DOMAIN history[s] : \A p \in PartsOf(history[s][i]) :
    /\ Src(p.of) = Src(history[s][i].turn)
    /\ s \in raced \/ \E m \in Turns : Src(m) = Src(p.of) /\ \E j \in 1 .. i - 1 : history[s][j] = UserMessage(m)
    /\ \A t \in Sessions : \A j \in DOMAIN history[t] :
         p \in PartsOf(history[t][j]) => <<t, j>> = <<s, i>>

\* A client that was told chat.done has seen, text by text, the answer that the
\* history keeps, and the answer is there by then and stays there, as long as
\* no two calls of AddMessage overlap on the session: a client that reads the
\* history on chat.done misses nothing (rpc.go:334-361, 413; store.go:121-128).
SeenIsSaved ==
  \A m \in Turns \ crossed : turn[m].told = "done" =>
    \/ turn[m].sid \in raced
    \/ \E i \in Replies(turn[m].sid, m) : history[turn[m].sid][i].answer.content = turn[m].seen
=============================================================================
