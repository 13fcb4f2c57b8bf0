--------------------------- MODULE ChatTurnProofs ---------------------------
(***************************************************************************)
(* Proofs about ChatTurn, for any connections, sessions, messages and      *)
(* lengths of the streams: its type invariant, OwnReply, SeenIsSaved and   *)
(* PartsStayOnTheirConnection.                                             *)
(*                                                                         *)
(* None is inductive.  What they rest on is whose tracking a connection    *)
(* holds: as long as a turn runs and shares its connection with no other   *)
(* one, the tracking is its own and holds what its stream delivered        *)
(* (Kept); the tracking that any running turn finds is its own, none, or   *)
(* that of a turn that crossed another one (Finds).  Crossed or not, what  *)
(* a collector holds are parts of its own turns that are stored nowhere,   *)
(* until it forgets them (Gathers).                                        *)
(*                                                                         *)
(* Calls of AddMessage overlap: a call stores what it has loaded, and a    *)
(* message comes back that the store had lost, or leaves it.  So the       *)
(* invariant speaks of all that a session's history and the histories that *)
(* calls have loaded hold (Held); only where no two calls overlapped is    *)
(* what was loaded the history itself (Fresh), and the history grows.      *)
(***************************************************************************)
EXTENDS ChatTurn, TLAPS

-----------------------------------------------------------------------------
(* The inductive invariant.                                                *)

\* The turn's goroutine still handles events.
Runs(m) == turn[m].pc \notin {"new", "ask", "track"} /\ turn[m].result = "none"

\* Where a turn is and what it has.
Flow ==
  \A m \in Turns :
    /\ turn[m].pc = "new" => Src(m) = None
    /\ turn[m].pc \in {"track", "notify"} => OverWS(m)
    /\ turn[m].pc \in {"new", "ask", "track", "send", "stream", "aside", "reply"} => turn[m].result = "none"
    /\ turn[m].pc = "end" => turn[m].result # "none"
    /\ turn[m].pc \in {"new", "ask", "track", "send"} => said[m] = Nothing /\ turn[m].seen = <<>>

Kept  == \A m \in Turns \ crossed : Runs(m) => track[Src(m)] = Tracking(m, said[m])
Finds == \A m \in Turns : Runs(m) => track[Src(m)].id \in {m, None} \cup crossed

\* Two turns that run on one connection have crossed.
Together == \A m, h \in Turns : m # h /\ Runs(m) /\ Runs(h) /\ Src(m) = Src(h) => m \in crossed /\ h \in crossed

\* Only turns of connections cross.
Apart == \A m \in crossed : OverWS(m)

\* Two calls of AddMessage on one session overlap.
Alone ==
  \A m, h \in Turns : m # h /\ Adding(m) /\ Adding(h) /\ turn[m].sid = turn[h].sid => turn[m].sid \in raced

\* What a call has loaded.
Fresh ==
  \A m \in Turns : IF Adding(m) THEN turn[m].sid \in raced \/ loaded[m] = history[turn[m].sid]
                               ELSE loaded[m] = <<>>

\* A turn that stores its answer over a WebSocket keeps the others away from
\* the tracking, which still has what is to be stored.
Locks ==
  \A m \in Turns : turn[m].pc = "reply" =>
    Saves(m) /\ \A h \in Turns \ {m} : Src(h) = Src(m) => turn[h].pc # "reply"

Adds == Alone /\ Fresh /\ Locks

\* The entry e is the i-th of s in the store, or in what a call has loaded.
Held(s, i, e) ==
  \/ i \in DOMAIN history[s] /\ history[s][i] = e
  \/ \E h \in Turns : turn[h].sid = s /\ i \in DOMAIN loaded[h] /\ loaded[h][i] = e

IsReply(e, m) == e.role = "assistant" /\ e.turn = m

\* OwnReply, entry by entry.
StoredFor(m) ==
  /\ \A s \in Sessions : \A i, e : Held(s, i, e) /\ IsReply(e, m) =>
       /\ s = turn[m].sid /\ turn[m].result = "done"
       /\ e.answer = said[m]
       /\ \A j, f : Held(s, j, f) /\ IsReply(f, m) => i = j
  /\ turn[m].result = "done" /\ (OverWS(m) \/ said[m] # Nothing) =>
       \/ turn[m].sid \in raced
       \/ \E i \in DOMAIN history[turn[m].sid] : IsReply(history[turn[m].sid][i], m)

Stored == \A m \in Turns \ crossed : StoredFor(m)

\* A client that is still there has seen what was said, but for the text it is
\* about to see; after chat.done it has seen everything.
Seen ==
  \A m \in Turns :
    /\ turn[m].pc \notin {"new", "ask", "track"} /\ OverWS(m) /\ link[Src(m)] = "open" =>
         said[m].content = IF turn[m].pc = "notify" /\ turn[m].note = "text"
                             THEN Append(turn[m].seen, Part(m, turn[m].events)) ELSE turn[m].seen
    /\ turn[m].told = "done" => /\ OverWS(m) /\ turn[m].pc = "end" /\ turn[m].result = "done"
                                /\ said[m].content = turn[m].seen

Tracks == Kept /\ Finds /\ Together /\ Apart

IInv == TypeOK /\ Flow /\ Tracks /\ Adds /\ Stored /\ Seen

-----------------------------------------------------------------------------
(* Answers.                                                                *)

Status   == {"pending", "completed"}
ToolType == [id : Parts, status : Status]
TrackType == [id : Turns \cup {None}, answer : AnswerType]
Entries  == [role : {"user", "system", "assistant"}, turn : Turns, answer : AnswerType]
Histories == history \in [Sessions -> Seq(Entries)] /\ loaded \in [Turns -> Seq(Entries)]

LEMMA PartType ==
  ASSUME NEW m \in Turns, NEW k \in Nat
  PROVE  Part(m, k) \in Parts
  BY DEF Part, Parts

LEMMA NothingType == Nothing \in AnswerType
  BY DEF Nothing, AnswerType

LEMMA TextType ==
  ASSUME NEW a \in AnswerType, NEW p \in Parts
  PROVE  /\ WithText(a, p) \in AnswerType
         /\ WithText(a, p).content = Append(a.content, p)
         /\ WithText(a, p).tools = a.tools
<1>1. Append(a.content, p) \in Seq(Parts)
  BY DEF AnswerType
<1> QED
  BY <1>1 DEF WithText, AnswerType

LEMMA CallType ==
  ASSUME NEW a \in AnswerType, NEW p \in Parts
  PROVE  WithCall(a, p) \in AnswerType /\ WithCall(a, p).content = a.content
<1> DEFINE t == [id |-> p, status |-> "pending"]
<1>1. t \in ToolType /\ a.tools \in Seq(ToolType)
  BY DEF ToolType, Status, AnswerType
<1>2. WithCall(a, p) = [a EXCEPT !.tools = Append(@, t)]
  BY DEF WithCall
<1> HIDE DEF t
<1>3. Append(a.tools, t) \in Seq(ToolType)
  BY <1>1
<1> QED
  BY <1>2, <1>3 DEF AnswerType, ToolType, Status

LEMMA ResultType ==
  ASSUME NEW a \in AnswerType, NEW p \in Parts
  PROVE  WithResult(a, p) \in AnswerType /\ WithResult(a, p).content = a.content
<1> DEFINE T == ToolType
           s == a.tools
           f == [i \in DOMAIN s |-> IF s[i].id = p THEN [id |-> p, status |-> "completed"] ELSE s[i]]
<1>1. s \in Seq(T) /\ [id |-> p, status |-> "completed"] \in T
  BY DEF ToolType, Status, AnswerType
<1>2. DOMAIN s = 1 .. Len(s) /\ Len(s) \in Nat /\ \A i \in DOMAIN s : s[i] \in T
  BY <1>1
<1>3. f \in [1 .. Len(s) -> T]
  BY <1>1, <1>2
<1>4. f \in Seq(T)
  BY <1>2, <1>3
<1>5. WithResult(a, p) = [a EXCEPT !.tools = f]
  BY DEF WithResult
<1> HIDE DEF f
<1> QED
  BY <1>4, <1>5 DEF AnswerType, ToolType, Status

-----------------------------------------------------------------------------
(* What the steps do to the turns and to the collectors.                   *)

Pcs   == {"new", "ask", "track", "send", "stream", "aside", "reply", "notify", "end"}
Notes == {"none", "text", "tool", "request", "system", "done", "error"}

Turned    == turn \in [Turns -> TurnType]
Others(m) == \A h \in Turns \ {m} : turn'[h] = turn[h]

\* The turn keeps where it came from.
Same(m) == turn'[m].src = turn[m].src /\ turn'[m].sid = turn[m].sid

LEMMA TurnMoves ==
  ASSUME NEW q \in TurnType, NEW pc \in Pcs, NEW nt \in Notes, NEW ev \in Nat, NEW res \in Results
  PROVE  [q EXCEPT !.pc = pc, !.note = nt, !.events = ev, !.result = res] \in TurnType
  BY DEF TurnType, Pcs, Notes

LEMMA NotedEffect ==
  ASSUME Turned, NEW m \in Turns, NEW note \in Notes, NEW result \in Results, Noted(m, note, result)
  PROVE  /\ Turned' /\ Others(m) /\ Same(m)
         /\ turn'[m].pc = IF OverWS(m) THEN "notify" ELSE IF result = "none" THEN "stream" ELSE "end"
         /\ turn'[m].note = IF OverWS(m) THEN note ELSE "none"
         /\ turn'[m].events = IF result = "none" THEN turn[m].events + 1 ELSE turn[m].events
         /\ turn'[m].seen = turn[m].seen /\ turn'[m].told = turn[m].told /\ turn'[m].result = result
<1> DEFINE pc == IF OverWS(m) THEN "notify" ELSE IF result = "none" THEN "stream" ELSE "end"
           nt == IF OverWS(m) THEN note ELSE "none"
           ev == IF result = "none" THEN turn[m].events + 1 ELSE turn[m].events
           r  == [turn[m] EXCEPT !.pc = pc, !.note = nt, !.events = ev, !.result = result]
<1>1. turn[m] \in TurnType /\ turn[m].events \in Nat
  BY DEF Turned, TurnType
<1>2. pc \in Pcs /\ nt \in Notes /\ ev \in Nat
  BY <1>1 DEF Pcs, Notes
<1>3. turn' = [turn EXCEPT ![m] =
                 [turn[m] EXCEPT !.pc = pc, !.note = nt,
                                 !.events = IF result = "none" THEN @ + 1 ELSE @, !.result = result]]
  BY DEF Noted
<1>7. turn' = [turn EXCEPT ![m] = r]
  BY <1>3
<1> HIDE DEF pc, nt, ev
<1>4. r \in TurnType
  BY <1>1, <1>2, TurnMoves
<1>5. /\ r.pc = pc /\ r.note = nt /\ r.events = ev /\ r.result = result
      /\ r.src = turn[m].src /\ r.sid = turn[m].sid /\ r.seen = turn[m].seen /\ r.told = turn[m].told
  BY <1>1 DEF TurnType
<1> HIDE DEF r
<1>6. Turned' /\ Others(m) /\ turn'[m] = r
  BY <1>7, <1>4 DEF Turned, Others
<1> QED
  BY <1>5, <1>6 DEF Same, pc, nt, ev

LEMMA PcEffect ==
  ASSUME Turned, NEW m \in Turns, NEW pc \in Pcs, turn' = [turn EXCEPT ![m].pc = pc]
  PROVE  /\ Turned' /\ Others(m) /\ Same(m)
         /\ turn'[m].pc = pc
         /\ turn'[m].note = turn[m].note /\ turn'[m].events = turn[m].events
         /\ turn'[m].seen = turn[m].seen /\ turn'[m].told = turn[m].told /\ turn'[m].result = turn[m].result
<1> DEFINE r == [turn[m] EXCEPT !.pc = pc]
<1>1. turn[m] \in TurnType /\ turn' = [turn EXCEPT ![m] = r]
  BY DEF Turned
<1>2. /\ r \in TurnType /\ r.pc = pc
      /\ r.note = turn[m].note /\ r.events = turn[m].events /\ r.result = turn[m].result
      /\ r.src = turn[m].src /\ r.sid = turn[m].sid /\ r.seen = turn[m].seen /\ r.told = turn[m].told
  BY <1>1 DEF TurnType, Pcs
<1> HIDE DEF r
<1>3. Turned' /\ Others(m) /\ turn'[m] = r
  BY <1>1, <1>2 DEF Turned, Others
<1> QED
  BY <1>2, <1>3 DEF Same

\* A turn begins, from x and in the session s.
Begins(m, x, s) ==
  /\ turn'[m].pc = "ask" /\ turn'[m].src = x /\ turn'[m].sid = s
  /\ turn'[m].note = turn[m].note /\ turn'[m].events = turn[m].events /\ turn'[m].result = turn[m].result
  /\ turn'[m].seen = turn[m].seen /\ turn'[m].told = turn[m].told

\* A request over a WebSocket, or over REST, up to the load in AddMessage.
Asks(m, x, s) ==
  /\ turn[m].pc = "new" /\ x \in Conns \cup {m}
  /\ turn' = [turn EXCEPT ![m] = [@ EXCEPT !.pc = "ask", !.src = x, !.sid = s]]
  /\ Load(m, s)
  /\ UNCHANGED <<link, authed, known, track, history, said, crossed>>

LEMMA RequestAsks ==
  ASSUME NEW m \in Turns, NEW s \in Sessions, Post(m, s) \/ \E c \in Conns : ChatMessage(c, m, s)
  PROVE  \E x \in Conns \cup {m} : Asks(m, x, s)
<1>1. Post(m, s) => Asks(m, m, s)
  BY DEF Post, Asks
<1>2. \A c \in Conns : ChatMessage(c, m, s) => Asks(m, c, s)
  BY DEF ChatMessage, Asks
<1> QED
  BY <1>1, <1>2

LEMMA AsksEffect ==
  ASSUME Turned, NEW m \in Turns, NEW x \in Conns \cup {m}, NEW s \in Sessions, Asks(m, x, s)
  PROVE  Turned' /\ Others(m) /\ Begins(m, x, s)
<1> DEFINE r == [turn[m] EXCEPT !.pc = "ask", !.src = x, !.sid = s]
<1>1. turn[m] \in TurnType /\ turn' = [turn EXCEPT ![m] = r]
  BY DEF Turned, Asks
<1>2. /\ r \in TurnType /\ r.pc = "ask" /\ r.src = x /\ r.sid = s
      /\ r.note = turn[m].note /\ r.events = turn[m].events /\ r.result = turn[m].result
      /\ r.seen = turn[m].seen /\ r.told = turn[m].told
  BY <1>1 DEF TurnType
<1> HIDE DEF r
<1>3. Turned' /\ Others(m) /\ turn'[m] = r
  BY <1>1, <1>2 DEF Turned, Others
<1> QED
  BY <1>2, <1>3 DEF Begins

LEMMA CutEffect ==
  ASSUME Turned, NEW m \in Turns, turn' = [turn EXCEPT ![m].pc = "end", ![m].result = "cut"]
  PROVE  /\ Turned' /\ Others(m) /\ Same(m)
         /\ turn'[m].pc = "end" /\ turn'[m].result = "cut"
         /\ turn'[m].note = turn[m].note /\ turn'[m].events = turn[m].events
         /\ turn'[m].seen = turn[m].seen /\ turn'[m].told = turn[m].told
<1> DEFINE r == [turn[m] EXCEPT !.pc = "end", !.result = "cut"]
<1>1. turn[m] \in TurnType /\ turn' = [turn EXCEPT ![m] = r]
  BY DEF Turned
<1>2. /\ r \in TurnType /\ r.pc = "end" /\ r.result = "cut"
      /\ r.note = turn[m].note /\ r.events = turn[m].events
      /\ r.src = turn[m].src /\ r.sid = turn[m].sid /\ r.seen = turn[m].seen /\ r.told = turn[m].told
  BY <1>1 DEF TurnType, Results
<1> HIDE DEF r
<1>3. Turned' /\ Others(m) /\ turn'[m] = r
  BY <1>1, <1>2 DEF Turned, Others
<1> QED
  BY <1>2, <1>3 DEF Same

Told(m) ==
  /\ turn'[m].seen = IF link[Src(m)] = "open" /\ turn[m].note = "text"
                       THEN Append(turn[m].seen, Part(m, turn[m].events)) ELSE turn[m].seen
  /\ turn'[m].told = IF link[Src(m)] = "open" /\ turn[m].result # "none"
                       THEN turn[m].result ELSE turn[m].told

LEMMA NotifyEffect ==
  ASSUME Turned, NEW m \in Turns, Notify(m)
  PROVE  /\ Turned' /\ Others(m) /\ Same(m) /\ Told(m)
         /\ turn[m].pc = "notify"
         /\ turn'[m].pc = IF turn[m].result = "none" THEN "stream" ELSE "end"
         /\ turn'[m].note = "none" /\ turn'[m].events = turn[m].events /\ turn'[m].result = turn[m].result
<1> DEFINE q    == turn[m]
           open == link[q.src] = "open"
           pc   == IF q.result = "none" THEN "stream" ELSE "end"
           seen == IF open /\ q.note = "text" THEN Append(q.seen, Part(m, q.events)) ELSE q.seen
           told == IF open /\ q.result # "none" THEN q.result ELSE q.told
           r    == [q EXCEPT !.pc = pc, !.note = "none", !.seen = seen, !.told = told]
<1>1. q \in TurnType /\ q.events \in Nat /\ q.seen \in Seq(Parts)
  BY DEF Turned, TurnType
<1>2. turn' = [turn EXCEPT ![m] = r] /\ q.pc = "notify"
  BY DEF Notify
<1>3. seen \in Seq(Parts)
  BY <1>1, PartType
<1>4. told \in Results /\ pc \in Pcs
  BY <1>1 DEF TurnType, Pcs
<1> HIDE DEF seen, told, pc, q
<1>5. r \in TurnType
  BY <1>1, <1>3, <1>4 DEF TurnType, Pcs
<1>6. /\ r.pc = pc /\ r.note = "none" /\ r.seen = seen /\ r.told = told
      /\ r.src = q.src /\ r.sid = q.sid /\ r.events = q.events /\ r.result = q.result
  BY <1>1 DEF TurnType
<1> HIDE DEF r
<1>7. Turned' /\ Others(m) /\ turn'[m] = r
  BY <1>2, <1>5 DEF Turned, Others
<1> QED
  BY <1>2, <1>6, <1>7 DEF Same, Told, Src, pc, seen, told, q

\* AddMessage loads and stores.
LEMMA LoadEffect ==
  ASSUME Histories, raced \in SUBSET Sessions, NEW m \in Turns, NEW s \in Sessions, Load(m, s), history' = history
  PROVE  /\ Histories' /\ raced' \in SUBSET Sessions /\ raced \subseteq raced'
         /\ loaded'[m] = history[s]
         /\ \A h \in Turns \ {m} : loaded'[h] = loaded[h]
         /\ \A h \in Turns : Adding(h) /\ turn[h].sid = s => s \in raced'
<1>1. history[s] \in Seq(Entries)
  BY DEF Histories
<1> QED
  BY <1>1 DEF Load, Histories

LEMMA AppendIndex ==
  ASSUME NEW s \in Seq(Entries), NEW e \in Entries
  PROVE  /\ Append(s, e) \in Seq(Entries)
         /\ DOMAIN Append(s, e) = DOMAIN s \cup {Len(s) + 1} /\ Len(s) + 1 \notin DOMAIN s
         /\ Append(s, e)[Len(s) + 1] = e
         /\ \A i \in DOMAIN s : Append(s, e)[i] = s[i]
  OBVIOUS

LEMMA SeqElements ==
  ASSUME NEW q \in Seq(Entries)
  PROVE  DOMAIN q = 1 .. Len(q) /\ Len(q) \in Nat /\ \A i \in DOMAIN q : q[i] \in Entries
  OBVIOUS

\* What is stored: cells that were loaded, cells that the store had, and the
\* message; without an overlap, the history and the message.
LEMMA StoreEffect ==
  ASSUME Histories, NEW m \in Turns, turn[m].sid \in Sessions, NEW msg \in Entries, Store(m, msg)
  PROVE  /\ Histories' /\ raced' = raced
         /\ loaded'[m] = <<>>
         /\ \A h \in Turns \ {m} : loaded'[h] = loaded[h]
         /\ \A t \in Sessions \ {turn[m].sid} : history'[t] = history[t]
         /\ \A i \in DOMAIN history'[turn[m].sid] :
              \/ i \in DOMAIN loaded[m] /\ history'[turn[m].sid][i] = loaded[m][i]
              \/ i \in DOMAIN history[turn[m].sid] /\ history'[turn[m].sid][i] = history[turn[m].sid][i]
              \/ i = Len(loaded[m]) + 1 /\ history'[turn[m].sid][i] = msg
         /\ loaded[m] = history[turn[m].sid] => history'[turn[m].sid] = Append(history[turn[m].sid], msg)
<1> DEFINE s      == turn[m].sid
           l      == loaded[m]
           slice  == Append(l, msg)
           shared == {i \in DOMAIN slice \cap DOMAIN history[s] : slice[i] # history[s][i]}
           new(W) == [i \in DOMAIN slice |-> IF i \in W THEN history[s][i] ELSE slice[i]]
<1>1. PICK W \in SUBSET shared : history' = [history EXCEPT ![s] = new(W)]
  BY DEF Store
<1>2. loaded' = [loaded EXCEPT ![m] = <<>>] /\ raced' = raced
  BY DEF Store
<1>3. history[s] \in Seq(Entries) /\ l \in Seq(Entries) /\ <<>> \in Seq(Entries)
  BY DEF Histories
<1>4. /\ slice \in Seq(Entries)
      /\ DOMAIN slice = DOMAIN l \cup {Len(l) + 1} /\ Len(l) + 1 \notin DOMAIN l
      /\ slice[Len(l) + 1] = msg /\ \A i \in DOMAIN l : slice[i] = l[i]
  BY <1>3, AppendIndex
<1>5. \A i \in W : i \in DOMAIN slice /\ i \in DOMAIN history[s]
  OBVIOUS
<1>6. DOMAIN slice = 1 .. Len(slice) /\ Len(slice) \in Nat /\ \A i \in DOMAIN slice : slice[i] \in Entries
  BY <1>4, SeqElements
<1>7. \A i \in DOMAIN history[s] : history[s][i] \in Entries
  BY <1>3, SeqElements
<1>8. l = history[s] => W = {}
  BY <1>4
<1> HIDE DEF slice, shared
<1>9. new(W) \in Seq(Entries)
  <2>1. \A i \in DOMAIN slice : (IF i \in W THEN history[s][i] ELSE slice[i]) \in Entries
    BY <1>5, <1>6, <1>7
  <2>2. new(W) \in [1 .. Len(slice) -> Entries]
    BY <1>6, <2>1
  <2> HIDE DEF new
  <2> QED BY <1>6, <2>2
<1>10. \A i \in DOMAIN new(W) :
         \/ i \in DOMAIN l /\ new(W)[i] = l[i]
         \/ i \in DOMAIN history[s] /\ new(W)[i] = history[s][i]
         \/ i = Len(l) + 1 /\ new(W)[i] = msg
  BY <1>4, <1>5
<1>11. l = history[s] => new(W) = slice
  <2> SUFFICES ASSUME l = history[s] PROVE new(W) = slice
    OBVIOUS
  <2>1. new(W) = [i \in DOMAIN slice |-> slice[i]]
    BY <1>8
  <2> QED
    BY <1>4, <2>1
<1> HIDE DEF new, l
<1>12. history'[s] = new(W) /\ \A t \in Sessions \ {s} : history'[t] = history[t]
  BY <1>1 DEF Histories
<1>13. Histories'
  BY <1>1, <1>2, <1>3, <1>9 DEF Histories
<1>14. loaded'[m] = <<>> /\ \A h \in Turns \ {m} : loaded'[h] = loaded[h]
  BY <1>2 DEF Histories
<1> QED
  BY <1>2, <1>10, <1>11, <1>12, <1>13, <1>14 DEF l, slice, s

LEMMA EntryTypes ==
  ASSUME NEW m \in Turns
  PROVE  /\ UserMessage(m) \in Entries /\ SystemMessage(m) \in Entries
         /\ UserMessage(m).role # "assistant" /\ SystemMessage(m).role # "assistant"
         /\ \A a \in AnswerType : /\ Reply(m, a) \in Entries
                                  /\ Reply(m, a).turn = m /\ Reply(m, a).answer = a
                                  /\ Reply(m, a).role = "assistant"
  BY NothingType DEF UserMessage, SystemMessage, Reply, Entries

Collectors == Conns \cup Turns

\* A collector is set to another tracking.
LEMMA TrackEffect ==
  ASSUME track \in [Collectors -> TrackType], NEW x \in Collectors, NEW t \in TrackType,
         track' = [track EXCEPT ![x] = t]
  PROVE  /\ track' \in [Collectors -> TrackType]
         /\ track'[x] = t
         /\ \A y \in Collectors \ {x} : track'[y] = track[y]
  OBVIOUS

LEMMA TrackingType ==
  ASSUME NEW id \in Turns \cup {None}, NEW a \in AnswerType
  PROVE  /\ Tracking(id, a) \in TrackType
         /\ Tracking(id, a).id = id /\ Tracking(id, a).answer = a
  BY DEF Tracking, TrackType

LEMMA NoTrackingType == NoTracking \in TrackType /\ NoTracking.id = None
  BY TrackingType, NothingType DEF NoTracking

\* A part of the answer is collected.
LEMMA CollectEffect ==
  ASSUME track \in [Collectors -> TrackType], said \in [Turns -> AnswerType],
         NEW m \in Turns, Src(m) \in Collectors, NEW a \in AnswerType, NEW b \in AnswerType,
         Collect(m, a, b)
  PROVE  /\ track' \in [Collectors -> TrackType] /\ said' \in [Turns -> AnswerType]
         /\ track'[Src(m)].id = track[Src(m)].id
         /\ \A n \in Turns \cup {None} : track[Src(m)] = Tracking(n, Collected(m)) => track'[Src(m)] = Tracking(n, a)
         /\ said'[m] = b
         /\ \A y \in Collectors \ {Src(m)} : track'[y] = track[y]
         /\ \A h \in Turns \ {m} : said'[h] = said[h]
<1> DEFINE x == Src(m)
           t == [track[x] EXCEPT !.answer = a]
<1>1. track[x] \in TrackType /\ x \in Collectors
  OBVIOUS
<1>2. track' = [track EXCEPT ![x] = t] /\ said' = [said EXCEPT ![m] = b]
  BY DEF Collect
<1>3. t \in TrackType /\ t.id = track[x].id
  BY <1>1 DEF TrackType
<1>4. \A n \in Turns \cup {None} : track[x] = Tracking(n, Collected(m)) => t = Tracking(n, a)
  BY DEF Tracking
<1> HIDE DEF t, x
<1>5. /\ track' \in [Collectors -> TrackType] /\ track'[x] = t
      /\ \A y \in Collectors \ {x} : track'[y] = track[y]
  BY <1>1, <1>2, <1>3, TrackEffect
<1>6. said' \in [Turns -> AnswerType] /\ said'[m] = b /\ \A h \in Turns \ {m} : said'[h] = said[h]
  BY <1>2
<1> QED
  BY <1>3, <1>4, <1>5, <1>6 DEF x

-----------------------------------------------------------------------------
(* The type invariant.                                                     *)

Plain == /\ link \in [Conns -> {"open", "closed"}]
         /\ authed \in SUBSET Conns /\ known \in SUBSET Sessions
         /\ crossed \in SUBSET Turns /\ raced \in SUBSET Sessions
Data  == /\ track \in [Collectors -> TrackType] /\ said \in [Turns -> AnswerType]
         /\ Histories
Begun == \A m \in Turns : turn[m].pc # "new" => Src(m) \in Conns \cup {m} /\ turn[m].sid \in Sessions

LEMMA TypeParts == TypeOK <=> Plain /\ Data /\ Turned /\ Begun
  BY DEF TypeOK, Plain, Data, Turned, Begun, Collectors, TrackType, Histories, Entries, Entry

LEMMA TypePartsNext == Plain' /\ Data' /\ Turned' /\ Begun' => TypeOK'
  BY DEF TypeOK, Plain, Data, Turned, Begun, Collectors, TrackType, Histories, Entries, Entry

\* A turn that has begun goes on.
LEMMA BegunOn ==
  ASSUME Begun, NEW m \in Turns, turn[m].pc # "new", Others(m), Same(m)
  PROVE  Begun'
  BY DEF Begun, Others, Same, Src

LEMMA BegunFirst ==
  ASSUME Begun, NEW m \in Turns, NEW x \in Conns \cup {m}, NEW s \in Sessions,
         Others(m), turn'[m].src = x, turn'[m].sid = s
  PROVE  Begun'
  BY DEF Begun, Others, Src

\* What the steps of a turn read of its collector.
LEMMA CollectedType ==
  ASSUME TypeOK, NEW m \in Turns, turn[m].pc # "new"
  PROVE  /\ Src(m) \in Collectors /\ turn[m].sid \in Sessions
         /\ track[Src(m)] \in TrackType /\ Collected(m) \in AnswerType /\ said[m] \in AnswerType
         /\ track[Src(m)].id \in Turns \cup {None}
         /\ turn[m].events \in Nat /\ turn[m].events + 1 \in Nat
<1>1. Src(m) \in Collectors /\ turn[m].sid \in Sessions
  BY TypeParts DEF Begun, Collectors
<1>2. track[Src(m)] \in TrackType /\ said[m] \in AnswerType
  BY <1>1, TypeParts DEF Data
<1>3. turn[m] \in TurnType
  BY TypeParts DEF Turned
<1> QED
  BY <1>1, <1>2, <1>3 DEF TrackType, Collected, TurnType

LEMMA InitType == Init => TypeOK
<1> SUFFICES ASSUME Init PROVE TypeOK
  OBVIOUS
<1> USE DEF Init
<1>1. NewTurn \in TurnType /\ NewTurn.pc = "new"
  BY DEF NewTurn, TurnType, Results
<1>2. Turned /\ Begun
  BY <1>1 DEF Turned, Begun
<1>3. Data
  <2>1. <<>> \in Seq(Entries)
    OBVIOUS
  <2> QED
    BY <2>1, NothingType, NoTrackingType DEF Data, Collectors, Histories
<1>4. Plain
  BY DEF Plain
<1> QED
  BY <1>2, <1>3, <1>4, TypeParts

\* A step of a turn that has begun.
LEMMA TurnStepType ==
  ASSUME TypeOK, NEW m \in Turns, turn[m].pc # "new", Turned', Others(m), Same(m), Plain', Data'
  PROVE  TypeOK'
  BY BegunOn, TypeParts, TypePartsNext

\* The steps that leave the data alone.
LEMMA QuietType ==
  ASSUME TypeOK, UNCHANGED <<link, authed, known, track, history, loaded, said, crossed, raced>>
  PROVE  Plain' /\ Data'
  BY TypeParts DEF Plain, Data, Histories

LEMMA MiscType ==
  ASSUME TypeOK, NEW c \in Conns, Auth(c) \/ Disconnect(c) \/ \E s \in Sessions : SessionCreate(c, s)
  PROVE  TypeOK'
<1>1. UNCHANGED <<turn, track, history, loaded, said, crossed>>
  BY DEF Auth, Disconnect, SessionCreate
<1>2. Plain'
  BY TypeParts DEF Plain, Auth, Disconnect, SessionCreate
<1>3. Data' /\ Turned' /\ Begun'
  BY <1>1, TypeParts DEF Data, Turned, Begun, Src, Histories
<1> QED
  BY <1>2, <1>3, TypePartsNext

LEMMA AsksType ==
  ASSUME TypeOK, NEW m \in Turns, NEW x \in Conns \cup {m}, NEW s \in Sessions, Asks(m, x, s)
  PROVE  TypeOK'
<1>1. Turned' /\ Others(m) /\ turn'[m].src = x /\ turn'[m].sid = s
  BY AsksEffect, TypeParts DEF Begins
<1>2. Begun'
  BY <1>1, BegunFirst, TypeParts
<1>3. Histories' /\ raced' \in SUBSET Sessions
  BY LoadEffect, TypeParts DEF Asks, Data, Plain
<1>4. Plain' /\ Data'
  BY <1>3, TypeParts DEF Asks, Plain, Data
<1> QED
  BY <1>1, <1>2, <1>4, TypePartsNext

\* The steps that store a message, but for the answer.
Messages(m) == {UserMessage(m), SystemMessage(m)}

LEMMA StoreType ==
  ASSUME TypeOK, NEW m \in Turns, turn[m].pc # "new", NEW msg \in Messages(m), Store(m, msg)
  PROVE  Histories' /\ raced' \in SUBSET Sessions
  BY CollectedType, EntryTypes, StoreEffect, TypeParts DEF Messages, Data, Plain

LEMMA ChatStoreType ==
  ASSUME TypeOK, NEW m \in Turns, ChatStore(m)
  PROVE  TypeOK'
<1>1. turn[m].pc # "new" /\ Store(m, UserMessage(m)) /\ turn' = [turn EXCEPT ![m].pc = "track"]
  BY DEF ChatStore
<1>2. Turned' /\ Others(m) /\ Same(m)
  BY <1>1, PcEffect, TypeParts DEF Pcs
<1>3. Histories' /\ raced' \in SUBSET Sessions
  BY <1>1, StoreType DEF Messages
<1>4. Plain' /\ Data'
  BY <1>3, TypeParts DEF ChatStore, Plain, Data
<1> QED
  BY <1>1, <1>2, <1>4, TurnStepType

LEMMA PostStoreType ==
  ASSUME TypeOK, NEW m \in Turns, PostStore(m)
  PROVE  TypeOK'
<1>1. turn[m].pc # "new" /\ Store(m, UserMessage(m)) /\ turn' = [turn EXCEPT ![m].pc = "send"]
  BY DEF PostStore
<1>2. Turned' /\ Others(m) /\ Same(m)
  BY <1>1, PcEffect, TypeParts DEF Pcs
<1>3. Histories' /\ raced' \in SUBSET Sessions
  BY <1>1, StoreType DEF Messages
<1>4. track' \in [Collectors -> TrackType]
  BY TypeParts, TrackEffect, TrackingType, NothingType DEF PostStore, Data, Collectors
<1>5. Plain' /\ Data'
  BY <1>3, <1>4, TypeParts DEF PostStore, Plain, Data
<1> QED
  BY <1>1, <1>2, <1>5, TurnStepType

LEMMA TrackType1 ==
  ASSUME TypeOK, NEW m \in Turns, Track(m)
  PROVE  TypeOK'
<1>1. turn[m].pc # "new" /\ Src(m) \in Collectors
  BY CollectedType DEF Track
<1>2. Turned' /\ Others(m) /\ Same(m)
  BY PcEffect, TypeParts DEF Track, Pcs
<1>3. track' \in [Collectors -> TrackType]
  BY <1>1, TypeParts, TrackEffect, TrackingType, NothingType DEF Track, Data
<1>4. crossed' \in SUBSET Turns
  BY TypeParts DEF Plain, Track, Running
<1>5. Plain' /\ Data'
  BY <1>3, <1>4, TypeParts DEF Track, Plain, Data, Histories
<1> QED
  BY <1>1, <1>2, <1>5, TurnStepType

LEMMA SendType ==
  ASSUME TypeOK, NEW m \in Turns, Send(m) \/ SendFails(m) \/ Request(m) \/ Error(m) \/ StreamEnds(m) \/ Notify(m)
  PROVE  TypeOK'
<1>1. UNCHANGED <<link, authed, known, track, history, loaded, said, crossed, raced>> /\ turn[m].pc # "new"
  BY DEF Send, SendFails, Request, Error, StreamEnds, Notify, MoreEvents
<1>2. Turned
  BY TypeParts
<1>3. CASE Send(m)
  BY <1>1, <1>2, <1>3, PcEffect, QuietType, TurnStepType DEF Send, Pcs
<1>4. CASE SendFails(m)
  BY <1>1, <1>2, <1>4, NotedEffect, QuietType, TurnStepType DEF SendFails, Notes, Results
<1>5. CASE Request(m)
  BY <1>1, <1>2, <1>5, NotedEffect, QuietType, TurnStepType DEF Request, Notes, Results
<1>6. CASE Error(m)
  BY <1>1, <1>2, <1>6, NotedEffect, QuietType, TurnStepType DEF Error, Notes, Results
<1>7. CASE StreamEnds(m)
  BY <1>1, <1>2, <1>7, CutEffect, QuietType, TurnStepType DEF StreamEnds
<1>8. CASE Notify(m)
  BY <1>1, <1>2, <1>8, NotifyEffect, QuietType, TurnStepType
<1> QED
  BY <1>3, <1>4, <1>5, <1>6, <1>7, <1>8

\* A text, a tool call or a result: what it does to the collector, to what was
\* said, and to the turn.
Collects(m, note, a, b) ==
  /\ turn[m].pc = "stream"
  /\ Collect(m, a, b)
  /\ Noted(m, note, "none")
  /\ UNCHANGED <<link, authed, known, history, loaded, crossed, raced>>

LEMMA EventCollects ==
  ASSUME TypeOK, NEW m \in Turns, Text(m) \/ ToolCall(m) \/ ToolResult(m)
  PROVE  \E a \in AnswerType : \E b \in AnswerType : \E note \in {"text", "tool"} :
           /\ Collects(m, note, a, b)
           /\ Collected(m) = said[m] => a = b
           /\ b.content = IF note = "text" THEN Append(said[m].content, Part(m, turn[m].events + 1)) ELSE said[m].content
<1>1. turn[m].pc # "new" /\ turn[m].pc = "stream"
  BY DEF Text, ToolCall, ToolResult, MoreEvents
<1>2. Collected(m) \in AnswerType /\ said[m] \in AnswerType /\ turn[m].events + 1 \in Nat
  BY <1>1, CollectedType
<1> DEFINE p == Part(m, turn[m].events + 1)
<1>3. p \in Parts
  BY <1>2, PartType
<1>4. CASE Text(m)
  <2>1. Collects(m, "text", WithText(Collected(m), p), WithText(said[m], p))
    BY <1>1, <1>4 DEF Text, Collects
  <2> QED
    BY <1>2, <1>3, <2>1, TextType
<1>5. CASE ToolCall(m)
  <2>1. Collects(m, "tool", WithCall(Collected(m), p), WithCall(said[m], p))
    BY <1>1, <1>5 DEF ToolCall, Collects
  <2> QED
    BY <1>2, <1>3, <2>1, CallType
<1>6. CASE ToolResult(m)
  <2>1. PICK i \in DOMAIN said[m].tools :
          Collect(m, WithResult(Collected(m), said[m].tools[i].id), WithResult(said[m], said[m].tools[i].id))
    BY <1>6 DEF ToolResult
  <2> DEFINE q == said[m].tools[i].id
  <2>2. q \in Parts
    <3>1. said[m].tools \in Seq(ToolType)
      BY <1>2 DEF AnswerType, ToolType, Status
    <3>2. said[m].tools[i] \in ToolType
      BY <3>1
    <3> QED
      BY <3>2 DEF ToolType
  <2>3. Collects(m, "tool", WithResult(Collected(m), q), WithResult(said[m], q))
    BY <1>1, <1>6, <2>1 DEF ToolResult, Collects
  <2> QED
    BY <1>2, <2>2, <2>3, ResultType
<1> QED
  BY <1>4, <1>5, <1>6

LEMMA CollectsType ==
  ASSUME TypeOK, NEW m \in Turns, Text(m) \/ ToolCall(m) \/ ToolResult(m)
  PROVE  TypeOK'
<1>1. PICK a \in AnswerType, b \in AnswerType, note \in {"text", "tool"} : Collects(m, note, a, b)
  BY EventCollects
<1>2. turn[m].pc # "new"
  BY <1>1 DEF Collects
<1>3. Data'
  BY <1>1, <1>2, TypeParts, CollectedType, CollectEffect DEF Collects, Data, Histories
<1>4. Turned' /\ Others(m) /\ Same(m)
  BY <1>1, TypeParts, NotedEffect DEF Collects, Notes, Results
<1>5. Plain'
  BY <1>1, TypeParts DEF Collects, Plain
<1> QED
  BY <1>2, <1>3, <1>4, <1>5, TurnStepType

LEMMA SystemType ==
  ASSUME TypeOK, NEW m \in Turns, System(m) \/ SystemStore(m)
  PROVE  TypeOK'
<1>1. turn[m].pc # "new" /\ turn[m].sid \in Sessions /\ UNCHANGED <<link, authed, known, track, said, crossed>>
  BY CollectedType DEF System, SystemStore, MoreEvents
<1>2. Turned' /\ Others(m) /\ Same(m)
  <2>1. CASE System(m)
    BY <2>1, TypeParts, PcEffect DEF System, Pcs
  <2>2. CASE SystemStore(m)
    BY <2>2, TypeParts, NotedEffect DEF SystemStore, Notes, Results
  <2> QED BY <2>1, <2>2
<1>3. Histories' /\ raced' \in SUBSET Sessions
  <2>1. CASE System(m)
    BY <1>1, <2>1, TypeParts, LoadEffect DEF System, Data, Plain
  <2>2. CASE SystemStore(m)
    BY <1>1, <2>2, StoreType DEF SystemStore, Messages
  <2> QED BY <2>1, <2>2
<1>4. Plain' /\ Data'
  BY <1>1, <1>3, TypeParts DEF Plain, Data
<1> QED
  BY <1>1, <1>2, <1>4, TurnStepType

\* The result, up to the load in AddMessage.
LEMMA DoneTurn ==
  ASSUME TypeOK, NEW m \in Turns, Done(m)
  PROVE  /\ Turned' /\ Others(m) /\ Same(m) /\ turn[m].pc = "stream" /\ ~ Locked(Src(m))
         /\ turn'[m].seen = turn[m].seen /\ turn'[m].told = turn[m].told /\ turn'[m].events = turn[m].events
         /\ UNCHANGED <<link, authed, known, track, history, said, crossed>>
         /\ \/ /\ Saves(m) /\ Load(m, turn[m].sid)
               /\ turn'[m].pc = "reply" /\ turn'[m].result = turn[m].result
            \/ /\ ~ Saves(m) /\ UNCHANGED <<loaded, raced>>
               /\ turn'[m].pc = (IF OverWS(m) THEN "notify" ELSE "end") /\ turn'[m].result = "done"
               /\ turn'[m].note # "text"
<1>1. Turned
  BY TypeParts
<1>2. CASE Saves(m) /\ turn' = [turn EXCEPT ![m].pc = "reply"] /\ Load(m, turn[m].sid)
  BY <1>1, <1>2, PcEffect DEF Done, Pcs
<1>3. CASE ~ Saves(m) /\ Noted(m, "done", "done") /\ UNCHANGED <<loaded, raced>>
  BY <1>1, <1>3, NotedEffect DEF Done, Notes, Results
<1> QED
  BY <1>2, <1>3 DEF Done

LEMMA DoneType ==
  ASSUME TypeOK, NEW m \in Turns, Done(m)
  PROVE  TypeOK'
<1>1. /\ Turned' /\ Others(m) /\ Same(m) /\ turn[m].pc # "new"
      /\ UNCHANGED <<link, authed, known, track, history, said, crossed>>
      /\ Load(m, turn[m].sid) \/ UNCHANGED <<loaded, raced>>
  BY DoneTurn
<1>2. turn[m].sid \in Sessions
  BY <1>1, CollectedType
<1>3. Histories' /\ raced' \in SUBSET Sessions
  <2>1. Histories /\ raced \in SUBSET Sessions
    BY TypeParts DEF Data, Plain
  <2> QED
    BY <1>1, <1>2, <2>1, LoadEffect DEF Histories
<1>4. Plain' /\ Data'
  BY <1>1, <1>3, TypeParts DEF Plain, Data
<1> QED
  BY <1>1, <1>2, <1>4, TurnStepType

-----------------------------------------------------------------------------
(* Whose tracking a connection holds.                                      *)

\* Sources of turns that have begun: connections, and REST turns themselves.
LEMMA Sources ==
  ASSUME IInv, NEW m \in Turns, turn[m].pc # "new"
  PROVE  /\ Src(m) \in Collectors
         /\ ~ OverWS(m) => Src(m) = m /\ m \notin crossed
         /\ \A h \in Turns : turn[h].pc # "new" /\ Src(h) = Src(m) /\ h # m => OverWS(h) /\ OverWS(m)
         /\ \A h \in Turns : turn[h].pc = "new" => Src(h) # Src(m) /\ h \notin crossed
<1>1. \A h \in Turns : turn[h].pc # "new" => Src(h) \in Conns \cup {h}
  BY TypeParts DEF IInv, Begun
<1>2. \A h \in Turns : turn[h].pc = "new" => Src(h) = None
  BY DEF IInv, Flow
<1> QED
  BY <1>1, <1>2, ConnsNotTurns, NoneFresh DEF Collectors, OverWS, IInv, Tracks, Apart

\* A step of a turn that leaves the collectors alone.
LEMMA QuietTracks ==
  ASSUME IInv, NEW m \in Turns, Others(m), Same(m), UNCHANGED <<track, said, crossed>>,
         Runs(m)' => Runs(m)
  PROVE  Tracks'
<1>1. \A h \in Turns : Src(h)' = Src(h) /\ (Runs(h)' => Runs(h))
  BY DEF Others, Same, Src, Runs
<1>2. Kept' /\ Finds' /\ Together'
  BY <1>1 DEF IInv, Tracks, Kept, Finds, Together
<1>3. Apart'
  BY <1>1, TypeParts DEF IInv, Tracks, Apart, OverWS, Plain
<1> QED
  BY <1>2, <1>3 DEF Tracks

LEMMA AsksTracks ==
  ASSUME IInv, NEW m \in Turns, NEW x \in Conns \cup {m}, NEW s \in Sessions, Asks(m, x, s)
  PROVE  Tracks'
<1>1. UNCHANGED <<track, said, crossed>> /\ turn[m].pc = "new" /\ Others(m) /\ turn'[m].pc = "ask"
  BY AsksEffect, TypeParts DEF Asks, IInv, Begins
<1>2. m \notin crossed
  BY <1>1, NoneFresh DEF IInv, Tracks, Apart, Flow, OverWS
<1>3. \A h \in Turns \ {m} : Src(h)' = Src(h) /\ (Runs(h)' <=> Runs(h))
  BY <1>1 DEF Others, Src, Runs
<1>4. ~ Runs(m)'
  BY <1>1 DEF Runs
<1>5. \A h \in crossed : h \in Turns \ {m}
  BY <1>2, TypeParts DEF IInv, Plain
<1>6. Kept' /\ Finds'
  BY <1>1, <1>3, <1>4 DEF IInv, Tracks, Kept, Finds
<1>7. Together'
  BY <1>1, <1>3, <1>4 DEF IInv, Tracks, Together
<1>8. Apart'
  BY <1>1, <1>3, <1>5 DEF IInv, Tracks, Apart, OverWS
<1> QED
  BY <1>6, <1>7, <1>8 DEF Tracks

LEMMA TrackTracks ==
  ASSUME IInv, NEW m \in Turns, Track(m)
  PROVE  Tracks'
<1> DEFINE x == Src(m)
<1>0. TypeOK /\ Flow /\ Kept /\ Finds /\ Together /\ Apart
  BY DEF IInv, Tracks
<1>1. turn[m].pc = "track" /\ said' = said /\ track' = [track EXCEPT ![x] = Tracking(m, Nothing)]
      /\ crossed' = crossed \cup IF Running(x) = {} THEN {} ELSE Running(x) \cup {m}
  BY DEF Track
<1>2. Others(m) /\ Same(m) /\ turn'[m].pc = "send" /\ turn'[m].result = turn[m].result
  BY PcEffect, TypeParts, <1>0 DEF Track, Pcs
<1>3. OverWS(m) /\ turn[m].result = "none" /\ said[m] = Nothing /\ x \in Collectors
  BY <1>0, <1>1 DEF Flow, Collectors, OverWS
<1>4. \A h \in Turns : Src(h)' = Src(h)
  BY <1>2 DEF Others, Same, Src
<1>5. \A h \in Turns \ {m} : Runs(h)' <=> Runs(h)
  BY <1>2 DEF Others, Runs
<1>6. /\ track'[x] = Tracking(m, Nothing) /\ Tracking(m, Nothing).id = m
      /\ \A y \in Collectors \ {x} : track'[y] = track[y]
  BY <1>0, <1>1, <1>3, TypeParts, TrackEffect, TrackingType, NothingType DEF Data
<1>7. \A h \in Turns \ {m} : Runs(h) /\ Src(h) = x => h \in crossed' /\ m \in crossed' /\ OverWS(h)
  <2> SUFFICES ASSUME NEW h \in Turns \ {m}, Runs(h), Src(h) = x
               PROVE  h \in Running(x) /\ OverWS(h)
    BY <1>1
  <2> QED
    BY <1>3 DEF Running, Runs, OverWS
<1>8. \A h \in Turns : Runs(h) => Src(h) \in Collectors
  BY Sources DEF Runs
<1>9. Kept'
  <2> SUFFICES ASSUME NEW h \in Turns, h \notin crossed', Runs(h)'
               PROVE  track'[Src(h)] = Tracking(h, said[h])
    BY <1>1, <1>4 DEF Kept
  <2>1. CASE h = m
    BY <2>1, <1>3, <1>6
  <2>2. CASE h # m
    BY <2>2, <1>0, <1>1, <1>5, <1>6, <1>7, <1>8 DEF Kept
  <2> QED BY <2>1, <2>2
<1>10. Finds'
  <2> SUFFICES ASSUME NEW h \in Turns, Runs(h)'
               PROVE  track'[Src(h)].id \in {h, None} \cup crossed'
    BY <1>4 DEF Finds
  <2>1. CASE h = m
    BY <2>1, <1>6
  <2>2. CASE h # m
    BY <2>2, <1>0, <1>1, <1>5, <1>6, <1>7, <1>8 DEF Finds
  <2> QED BY <2>1, <2>2
<1>11. Together'
  <2> SUFFICES ASSUME NEW g \in Turns, NEW h \in Turns, g # h, Runs(g)', Runs(h)', Src(g) = Src(h)
               PROVE  g \in crossed' /\ h \in crossed'
    BY <1>4 DEF Together
  <2>1. CASE g = m
    BY <2>1, <1>5, <1>7
  <2>2. CASE h = m
    BY <2>2, <1>5, <1>7
  <2>3. CASE g # m /\ h # m
    BY <2>3, <1>0, <1>1, <1>5 DEF Together
  <2> QED BY <2>1, <2>2, <2>3
<1>12. Apart'
  <2>1. \A h \in Running(x) : h \in Turns /\ OverWS(h)
    BY <1>3 DEF Running, OverWS
  <2>2. \A h \in crossed' : OverWS(h)
    BY <2>1, <1>0, <1>1, <1>3 DEF Apart
  <2>3. crossed' \subseteq Turns
    BY <2>1, <1>0, <1>1, TypeParts DEF Plain
  <2> QED
    BY <2>2, <2>3, <1>4 DEF Apart, OverWS
<1> QED
  BY <1>9, <1>10, <1>11, <1>12 DEF Tracks

LEMMA PostStoreTracks ==
  ASSUME IInv, NEW m \in Turns, PostStore(m)
  PROVE  Tracks'
<1>0. TypeOK /\ Flow /\ Kept /\ Finds /\ Together /\ Apart
  BY DEF IInv, Tracks
<1>1. UNCHANGED <<said, crossed>> /\ turn[m].pc = "ask" /\ track' = [track EXCEPT ![m] = Tracking(m, Nothing)]
  BY DEF PostStore
<1>2. Others(m) /\ Same(m) /\ Src(m) = m
  <2>1. Others(m) /\ Same(m)
    BY <1>0, PcEffect, TypeParts DEF PostStore, Pcs
  <2> QED
    BY <1>1, <2>1, Sources DEF PostStore
<1>3. /\ track'[m] = Tracking(m, Nothing) /\ Tracking(m, Nothing).id = m
      /\ \A y \in Collectors \ {m} : track'[y] = track[y]
  BY <1>0, <1>1, TypeParts, TrackEffect, TrackingType, NothingType DEF Data, Collectors
<1>4. said[m] = Nothing /\ m \notin crossed
  BY <1>0, <1>1 DEF Flow, Apart, PostStore
<1>5. \A h \in Turns \ {m} : Src(h)' = Src(h) /\ (Runs(h)' <=> Runs(h))
  BY <1>2 DEF Others, Src, Runs
<1>6. \A h \in Turns \ {m} : Runs(h) => Src(h) \in Collectors \ {m}
  BY <1>0, TypeParts, ConnsNotTurns DEF Runs, Begun, Collectors
<1>7. Src(m)' = m
  BY <1>2 DEF Src, Same
<1>8. Kept'
  BY <1>0, <1>1, <1>3, <1>4, <1>5, <1>6, <1>7 DEF Kept
<1>9. Finds'
  BY <1>0, <1>1, <1>3, <1>5, <1>6, <1>7 DEF Finds
<1>10. Together'
  BY <1>0, <1>1, <1>5, <1>6, <1>7 DEF Together
<1>11. Apart'
  BY <1>0, <1>1, <1>2, <1>4, <1>5, <1>7, TypeParts DEF Apart, OverWS, Plain
<1> QED
  BY <1>8, <1>9, <1>10, <1>11 DEF Tracks

LEMMA CollectsTracks ==
  ASSUME IInv, NEW m \in Turns, Text(m) \/ ToolCall(m) \/ ToolResult(m)
  PROVE  Tracks'
<1>0. TypeOK /\ Flow /\ Kept /\ Finds /\ Together /\ Apart
  BY DEF IInv, Tracks
<1>1. PICK a \in AnswerType, b \in AnswerType, note \in {"text", "tool"} :
        Collects(m, note, a, b) /\ (Collected(m) = said[m] => a = b)
  BY <1>0, EventCollects
<1>2. turn[m].pc = "stream" /\ turn[m].result = "none" /\ Runs(m) /\ crossed' = crossed
  BY <1>0, <1>1 DEF Collects, Flow, Runs
<1>3. Others(m) /\ Same(m)
  BY <1>0, <1>1, TypeParts, NotedEffect DEF Collects, Notes, Results
<1>4. Src(m) \in Collectors
  BY <1>2, Sources
<1>5. /\ track'[Src(m)].id = track[Src(m)].id
      /\ \A n \in Turns \cup {None} : track[Src(m)] = Tracking(n, Collected(m)) => track'[Src(m)] = Tracking(n, a)
      /\ said'[m] = b
      /\ \A y \in Collectors \ {Src(m)} : track'[y] = track[y]
      /\ \A h \in Turns \ {m} : said'[h] = said[h]
  BY <1>0, <1>1, <1>4, TypeParts, CollectEffect DEF Collects, Data
<1>6. \A h \in Turns : Src(h)' = Src(h) /\ (Runs(h)' => Runs(h))
  BY <1>2, <1>3 DEF Others, Same, Src, Runs
<1>7. \A h \in Turns : Runs(h) => Src(h) \in Collectors
  BY Sources DEF Runs
<1>8. m \notin crossed => track'[Src(m)] = Tracking(m, b)
  <2> SUFFICES ASSUME m \notin crossed PROVE track'[Src(m)] = Tracking(m, b)
    OBVIOUS
  <2>1. track[Src(m)] = Tracking(m, said[m])
    BY <1>0, <1>2 DEF Kept
  <2>2. Collected(m) = said[m]
    BY <2>1 DEF Collected, Tracking
  <2> QED
    BY <1>1, <1>5, <2>1, <2>2
<1>9. \A h \in Turns \ {m} : Runs(h) /\ Src(h) = Src(m) => h \in crossed
  BY <1>0, <1>2 DEF Together
<1>10. Kept'
  BY <1>0, <1>2, <1>5, <1>6, <1>7, <1>8, <1>9 DEF Kept
<1>11. \A y \in Collectors : track'[y].id = track[y].id
  BY <1>4, <1>5
<1>12. Finds' /\ Together'
  BY <1>0, <1>2, <1>6, <1>7, <1>11 DEF Finds, Together
<1>13. Apart'
  BY <1>0, <1>2, <1>6, TypeParts DEF Apart, OverWS, Plain
<1> QED
  BY <1>10, <1>12, <1>13 DEF Tracks

LEMMA DoneStoreTracks ==
  ASSUME IInv, NEW m \in Turns, DoneStore(m)
  PROVE  Tracks'
<1>0. TypeOK /\ Flow /\ Kept /\ Finds /\ Together /\ Apart
  BY DEF IInv, Tracks
<1>1. turn[m].pc = "reply" /\ UNCHANGED <<said, crossed>>
      /\ track' = IF OverWS(m) THEN [track EXCEPT ![Src(m)] = NoTracking] ELSE track
  BY DEF DoneStore
<1>2. Runs(m)
  BY <1>0, <1>1 DEF Flow, Runs
<1>3. Others(m) /\ Same(m) /\ turn'[m].result = "done"
  BY <1>0, TypeParts, NotedEffect DEF DoneStore, Notes, Results
<1>4. Src(m) \in Collectors
  BY <1>1, Sources
<1>5. \A y \in Collectors \ {Src(m)} : track'[y] = track[y]
  BY <1>0, <1>1, <1>4, TypeParts, TrackEffect, NoTrackingType DEF Data
<1>6. OverWS(m) => track'[Src(m)].id = None
  BY <1>0, <1>1, <1>4, TypeParts, TrackEffect, NoTrackingType DEF Data
<1>7. \A h \in Turns : Src(h)' = Src(h) /\ (Runs(h)' => Runs(h) /\ h # m)
  BY <1>3 DEF Others, Same, Src, Runs
<1>8. \A h \in Turns : Runs(h) => Src(h) \in Collectors
  BY Sources DEF Runs
<1>9. \A h \in Turns \ {m} : Runs(h) /\ Src(h) = Src(m) => h \in crossed /\ OverWS(m)
  BY <1>0, <1>2, <1>1, Sources DEF Together, Runs
<1>10. Kept'
  BY <1>0, <1>1, <1>5, <1>7, <1>8, <1>9 DEF Kept
<1>11. Finds'
  BY <1>0, <1>1, <1>5, <1>6, <1>7, <1>8, <1>9 DEF Finds
<1>12. Together'
  BY <1>0, <1>1, <1>7 DEF Together
<1>13. Apart'
  BY <1>0, <1>1, <1>7, TypeParts DEF Apart, OverWS, Plain
<1> QED
  BY <1>10, <1>11, <1>12, <1>13 DEF Tracks

-----------------------------------------------------------------------------
(* Flow.                                                                   *)

LEMMA FlowOn ==
  ASSUME Flow, NEW m \in Turns, Others(m), Same(m), \A h \in Turns \ {m} : said'[h] = said[h],
         \/ turn'[m].pc \in {"stream", "aside", "reply", "notify"}
         \/ turn'[m].pc \in {"track", "send"} /\ said'[m] = Nothing /\ turn'[m].seen = <<>>
         \/ turn'[m].pc = "end" /\ turn'[m].result # "none",
         turn'[m].pc \in {"track", "send", "stream", "aside", "reply"} => turn'[m].result = "none",
         turn'[m].pc \in {"track", "notify"} => OverWS(m)
  PROVE  Flow'
  BY DEF Flow, Others, Same, Src, OverWS

LEMMA FlowFirst ==
  ASSUME Flow, NEW m \in Turns, Others(m), said' = said, turn[m].pc = "new",
         turn'[m].result = turn[m].result, turn'[m].seen = turn[m].seen, turn'[m].pc = "ask"
  PROVE  Flow'
  BY DEF Flow, Others, Src, OverWS

-----------------------------------------------------------------------------
(* Calls of AddMessage.                                                    *)

\* A step that is inside no call.
LEMMA QuietAdds ==
  ASSUME Alone, Fresh, NEW m \in Turns, Others(m), ~ Adding(m), ~ Adding(m)', UNCHANGED <<history, loaded, raced>>
  PROVE  Alone' /\ Fresh'
<1>1. \A h \in Turns : (Adding(h)' <=> Adding(h)) /\ (Adding(h) => turn'[h] = turn[h])
  BY DEF Others, Adding
<1> QED
  BY <1>1 DEF Alone, Fresh

LEMMA LoadAdds ==
  ASSUME TypeOK, Alone, Fresh, NEW m \in Turns, NEW s \in Sessions, Load(m, s), history' = history,
         Others(m), Adding(m)', turn'[m].sid = s
  PROVE  Alone' /\ Fresh'
<1>1. \A h \in Turns \ {m} : (Adding(h)' <=> Adding(h)) /\ turn'[h].sid = turn[h].sid
  BY DEF Others, Adding
<1>2. /\ raced \subseteq raced' /\ loaded'[m] = history[s]
      /\ \A h \in Turns \ {m} : loaded'[h] = loaded[h]
      /\ \A h \in Turns : Adding(h) /\ turn[h].sid = s => s \in raced'
  BY LoadEffect, TypeParts DEF Data, Plain
<1>3. Alone'
  BY <1>1, <1>2 DEF Alone
<1>4. Fresh'
  BY <1>1, <1>2 DEF Fresh
<1> QED
  BY <1>3, <1>4

LEMMA StoreAdds ==
  ASSUME TypeOK, Begun, Alone, Fresh, NEW m \in Turns, Adding(m), NEW msg \in Entries, Store(m, msg),
         Others(m), ~ Adding(m)'
  PROVE  Alone' /\ Fresh'
<1>1. \A h \in Turns \ {m} : (Adding(h)' <=> Adding(h)) /\ turn'[h].sid = turn[h].sid
  BY DEF Others, Adding
<1>2. turn[m].sid \in Sessions /\ \A h \in Turns : Adding(h) => turn[h].sid \in Sessions
  BY DEF Begun, Adding
<1>3. /\ raced' = raced /\ loaded'[m] = <<>>
      /\ \A h \in Turns \ {m} : loaded'[h] = loaded[h]
      /\ \A t \in Sessions \ {turn[m].sid} : history'[t] = history[t]
  BY <1>2, StoreEffect, TypeParts DEF Data
<1>4. Alone'
  BY <1>1, <1>3 DEF Alone
<1>5. \A h \in Turns \ {m} : Adding(h) => turn[h].sid \in raced \/ history'[turn[h].sid] = history[turn[h].sid]
  BY <1>2, <1>3 DEF Alone
<1>6. Fresh'
  BY <1>1, <1>3, <1>5 DEF Fresh
<1> QED
  BY <1>4, <1>6

\* The answers that others are about to store stay as they are.
LEMMA LocksOn ==
  ASSUME Locks, NEW m \in Turns, Others(m),
         \A h \in Turns \ {m} : turn[h].pc = "reply" => track'[Src(h)] = track[Src(h)],
         turn'[m].pc = "reply" => ~ Locked(Src(m)) /\ Same(m) /\ Saves(m) /\ track' = track
  PROVE  Locks'
<1>1. \A h \in Turns \ {m} : turn'[h] = turn[h] /\ Src(h)' = Src(h) /\ (OverWS(h)' <=> OverWS(h))
  BY DEF Others, Src, OverWS
<1>2. \A h \in Turns \ {m} : turn'[h].pc = "reply" => Saves(h)'
  BY <1>1 DEF Locks, Saves, Collected
<1>3. turn'[m].pc = "reply" =>
        Saves(m)' /\ Src(m)' = Src(m) /\ \A h \in Turns \ {m} : Src(h) = Src(m) => turn[h].pc # "reply"
  BY DEF Locked, Saves, Same, Src, OverWS, Collected
<1> QED
  BY <1>1, <1>2, <1>3 DEF Locks

LEMMA LocksQuiet ==
  ASSUME Locks, NEW m \in Turns, Others(m), track' = track, turn'[m].pc # "reply"
  PROVE  Locks'
  BY LocksOn

\* A step that changes the tracking of a source that is not locked.
LEMMA LocksFree ==
  ASSUME Locks, NEW m \in Turns, Others(m), turn'[m].pc # "reply", ~ Locked(Src(m)),
         \A h \in Turns : turn[h].pc = "reply" => Src(h) \in Collectors,
         \A y \in Collectors \ {Src(m)} : track'[y] = track[y]
  PROVE  Locks'
<1>1. \A h \in Turns \ {m} : turn[h].pc = "reply" => Src(h) # Src(m)
  BY DEF Locked
<1> QED
  BY <1>1, LocksOn

-----------------------------------------------------------------------------
(* What the history holds, and what calls have loaded.                     *)

\* Nothing new is held but, it may be, the i-th entry e of s.
HeldBut(s, i, e) ==
  \A t \in Sessions : \A j, f : Held(t, j, f)' => Held(t, j, f) \/ (t = s /\ j = i /\ f = e)
HeldNone == \A t \in Sessions : \A j, f : Held(t, j, f)' => Held(t, j, f)

\* What is stored stays, where no calls overlap.
HistoryGrows ==
  /\ raced \subseteq raced'
  /\ \A s \in Sessions \ raced' : \A i \in DOMAIN history[s] :
       i \in DOMAIN history'[s] /\ history'[s][i] = history[s][i]

LEMMA QuietHeld ==
  ASSUME NEW m \in Turns, Others(m), Same(m), UNCHANGED <<history, loaded, raced>>
  PROVE  HeldNone /\ HistoryGrows
<1>1. \A h \in Turns : turn'[h].sid = turn[h].sid
  BY DEF Others, Same
<1> QED
  BY <1>1 DEF HeldNone, Held, HistoryGrows

LEMMA LoadHeld ==
  ASSUME TypeOK, NEW m \in Turns, NEW s \in Sessions, Load(m, s), history' = history,
         Others(m), turn'[m].sid = s
  PROVE  HeldNone /\ HistoryGrows
<1>1. \A h \in Turns \ {m} : turn'[h].sid = turn[h].sid
  BY DEF Others
<1>2. /\ raced \subseteq raced' /\ loaded'[m] = history[s]
      /\ \A h \in Turns \ {m} : loaded'[h] = loaded[h]
  BY LoadEffect, TypeParts DEF Data, Plain
<1> QED
  BY <1>1, <1>2 DEF HeldNone, Held, HistoryGrows

LEMMA StoreHeld ==
  ASSUME TypeOK, Begun, Fresh, NEW m \in Turns, Adding(m), NEW msg \in Entries, Store(m, msg), Others(m), Same(m)
  PROVE  /\ HeldBut(turn[m].sid, Len(loaded[m]) + 1, msg) /\ HistoryGrows
         /\ raced' = raced
         /\ \A t \in Sessions \ {turn[m].sid} : history'[t] = history[t]
         /\ turn[m].sid \notin raced =>
              /\ DOMAIN history'[turn[m].sid] = DOMAIN history[turn[m].sid] \cup {Len(loaded[m]) + 1}
              /\ history'[turn[m].sid][Len(loaded[m]) + 1] = msg
              /\ \A i \in DOMAIN history[turn[m].sid] : i \in 1 .. Len(loaded[m])
<1>0. PICK s, n : s \in Sessions /\ s = turn[m].sid /\ n = Len(loaded[m]) + 1
  BY DEF Begun, Adding
<1>1. /\ raced' = raced /\ loaded'[m] = <<>>
      /\ \A h \in Turns \ {m} : loaded'[h] = loaded[h]
      /\ \A t \in Sessions \ {s} : history'[t] = history[t]
      /\ \A i \in DOMAIN history'[s] :
           \/ i \in DOMAIN loaded[m] /\ history'[s][i] = loaded[m][i]
           \/ i \in DOMAIN history[s] /\ history'[s][i] = history[s][i]
           \/ i = n /\ history'[s][i] = msg
      /\ loaded[m] = history[s] => history'[s] = Append(history[s], msg)
  BY <1>0, StoreEffect, TypeParts DEF Data
<1>2. s \notin raced => loaded[m] = history[s]
  BY <1>0 DEF Fresh
<1>3. history[s] \in Seq(Entries)
  BY <1>0, TypeParts DEF Data, Histories
<1>4. s \notin raced =>
        /\ DOMAIN history'[s] = DOMAIN history[s] \cup {n} /\ history'[s][n] = msg
        /\ \A i \in DOMAIN history[s] : history'[s][i] = history[s][i] /\ i \in 1 .. Len(loaded[m])
  <2> SUFFICES ASSUME s \notin raced
               PROVE  /\ DOMAIN history'[s] = DOMAIN history[s] \cup {n} /\ history'[s][n] = msg
                      /\ \A i \in DOMAIN history[s] : history'[s][i] = history[s][i] /\ i \in 1 .. Len(loaded[m])
    OBVIOUS
  <2>1. history'[s] = Append(history[s], msg) /\ n = Len(history[s]) + 1 /\ loaded[m] = history[s]
    BY <1>0, <1>1, <1>2
  <2> QED
    BY <1>3, <2>1, AppendIndex, SeqElements
<1>5. HistoryGrows
  BY <1>1, <1>4 DEF HistoryGrows
<1>6. ASSUME NEW t \in Sessions, NEW j, NEW f, Held(t, j, f)'
      PROVE  Held(t, j, f) \/ (t = s /\ j = n /\ f = msg)
  <2>1. CASE j \in DOMAIN history'[t] /\ history'[t][j] = f
    BY <1>0, <1>1, <2>1 DEF Held
  <2>2. CASE \E h \in Turns : turn'[h].sid = t /\ j \in DOMAIN loaded'[h] /\ loaded'[h][j] = f
    <3>1. PICK h \in Turns : turn'[h].sid = t /\ j \in DOMAIN loaded'[h] /\ loaded'[h][j] = f
      BY <2>2
    <3>2. h # m
      <4>1. DOMAIN <<>> = {}
        OBVIOUS
      <4> QED BY <1>1, <3>1, <4>1
    <3>3. turn[h].sid = t /\ loaded'[h] = loaded[h]
      BY <1>1, <3>1, <3>2 DEF Others
    <3> QED
      BY <3>1, <3>3 DEF Held
  <2> QED
    BY <1>6, <2>1, <2>2 DEF Held
<1>7. HeldBut(s, n, msg)
  BY <1>6 DEF HeldBut
<1> QED
  BY <1>0, <1>1, <1>4, <1>5, <1>7

\* The entries that are replies to m.
RepliesKept(m) == \A s \in Sessions : \A i, e : Held(s, i, e)' /\ IsReply(e, m) => Held(s, i, e)

LEMMA NoReplyAdded ==
  ASSUME NEW s, NEW i, NEW e, HeldBut(s, i, e), NEW m, ~ IsReply(e, m)
  PROVE  RepliesKept(m)
  BY DEF HeldBut, RepliesKept

LEMMA NoneAdded ==
  ASSUME HeldNone, NEW m
  PROVE  RepliesKept(m)
  BY DEF HeldNone, RepliesKept

LEMMA StoredPartsNext == (\A m \in Turns : m \notin crossed' => StoredFor(m)') => Stored'
  BY DEF Stored

\* A turn whose result has not come, before and after.
LEMMA StoredNone ==
  ASSUME NEW m \in Turns, StoredFor(m), RepliesKept(m), turn[m].result # "done", turn'[m].result # "done"
  PROVE  StoredFor(m)'
<1>1. \A s \in Sessions : \A i, e : Held(s, i, e)' => ~ IsReply(e, m)
  BY DEF StoredFor, RepliesKept
<1> QED
  BY <1>1 DEF StoredFor, IsReply

LEMMA StoredSame ==
  ASSUME NEW m \in Turns, StoredFor(m), RepliesKept(m), HistoryGrows, said'[m] = said[m],
         turn'[m].result = turn[m].result, Same(m),
         turn[m].result = "done" => turn[m].sid \in Sessions
  PROVE  StoredFor(m)'
<1>1. (OverWS(m)' <=> OverWS(m)) /\ turn'[m].sid = turn[m].sid
  BY DEF Same, OverWS, Src
<1>2. \A s \in Sessions : \A i, e : Held(s, i, e)' /\ IsReply(e, m) =>
        /\ s = turn'[m].sid /\ turn'[m].result = "done"
        /\ e.answer = said'[m]
        /\ \A j, f : Held(s, j, f)' /\ IsReply(f, m) => i = j
  BY <1>1 DEF StoredFor, RepliesKept
<1>3. turn'[m].result = "done" /\ (OverWS(m)' \/ said'[m] # Nothing) =>
        \/ turn'[m].sid \in raced'
        \/ \E i \in DOMAIN history'[turn'[m].sid] : IsReply(history'[turn'[m].sid][i], m)
  BY <1>1 DEF StoredFor, HistoryGrows
<1> QED
  BY <1>2, <1>3 DEF StoredFor, IsReply

\* A step of m that adds no reply to a turn.
LEMMA StoredOn ==
  ASSUME TypeOK, Flow, Stored, NEW m \in Turns, Others(m), \A h \in Turns \ {m} : said'[h] = said[h],
         crossed \subseteq crossed', \A h \in Turns : RepliesKept(h), HistoryGrows,
         \/ turn[m].result # "done" /\ turn'[m].result # "done"
         \/ said'[m] = said[m] /\ turn'[m].result = turn[m].result /\ Same(m)
  PROVE  Stored'
<1> SUFFICES ASSUME NEW h \in Turns, h \notin crossed'
             PROVE  StoredFor(h)'
  BY StoredPartsNext
<1>1. StoredFor(h)
  BY DEF Stored
<1>2. turn[h].result = "done" => turn[h].sid \in Sessions
  BY TypeParts DEF Flow, Begun
<1>3. CASE h = m
  BY <1>1, <1>2, <1>3, StoredNone, StoredSame
<1>4. CASE h # m
  BY <1>1, <1>2, <1>4, StoredSame DEF Others, Same
<1> QED
  BY <1>3, <1>4

-----------------------------------------------------------------------------
(* What the client sees.                                                   *)

SeenFor(m) ==
  /\ turn[m].pc \notin {"new", "ask", "track"} /\ OverWS(m) /\ link[Src(m)] = "open" =>
       said[m].content = IF turn[m].pc = "notify" /\ turn[m].note = "text"
                           THEN Append(turn[m].seen, Part(m, turn[m].events)) ELSE turn[m].seen
  /\ turn[m].told = "done" => /\ OverWS(m) /\ turn[m].pc = "end" /\ turn[m].result = "done"
                              /\ said[m].content = turn[m].seen

LEMMA SeenParts == Seen <=> \A m \in Turns : SeenFor(m)
  BY DEF Seen, SeenFor

LEMMA SeenPartsNext == (\A m \in Turns : SeenFor(m)') => Seen'
  BY DEF Seen, SeenFor

LEMMA SeenOthers ==
  ASSUME Seen, NEW m \in Turns, Others(m), link' = link, \A h \in Turns \ {m} : said'[h] = said[h], SeenFor(m)'
  PROVE  Seen'
<1> SUFFICES ASSUME NEW h \in Turns, h # m PROVE SeenFor(h)'
  BY SeenPartsNext
<1>1. turn'[h] = turn[h] /\ said'[h] = said[h] /\ SeenFor(h)
  BY SeenParts DEF Others
<1> QED
  BY <1>1 DEF SeenFor, OverWS, Src

-----------------------------------------------------------------------------
(* The steps.                                                              *)

Rest == Flow /\ Tracks /\ Adds /\ Stored /\ Seen

LEMMA InvParts == IInv <=> TypeOK /\ Rest
  BY DEF IInv, Rest

LEMMA MiscRest ==
  ASSUME IInv, UNCHANGED <<turn, track, history, loaded, said, crossed, raced>>,
         \A c \in Conns : link'[c] = "open" => link[c] = "open"
  PROVE  Rest'
<1>1. Flow' /\ Tracks'
  BY DEF IInv, Flow, Tracks, Kept, Finds, Together, Apart, Runs, Src, OverWS
<1>2. Seen'
  <2> SUFFICES ASSUME NEW m \in Turns PROVE SeenFor(m)'
    BY SeenPartsNext
  <2>1. SeenFor(m)
    BY SeenParts DEF IInv
  <2> QED
    BY <2>1 DEF SeenFor, OverWS, Src
<1>3. Adds'
  BY DEF IInv, Adds, Alone, Fresh, Locks, Adding, Saves, Collected, OverWS, Src
<1>4. Stored'
  <2> SUFFICES ASSUME NEW m \in Turns, m \notin crossed PROVE StoredFor(m)'
    BY StoredPartsNext
  <2>1. RepliesKept(m) /\ HistoryGrows
    BY DEF RepliesKept, HistoryGrows, Held
  <2>2. turn[m].result = "done" => turn[m].sid \in Sessions
    BY TypeParts DEF IInv, Flow, Begun
  <2> QED
    BY <2>1, <2>2, StoredSame DEF IInv, Stored, Same
<1> QED
  BY <1>1, <1>2, <1>3, <1>4 DEF Rest

LEMMA AsksRest ==
  ASSUME IInv, NEW m \in Turns, NEW x \in Conns \cup {m}, NEW s \in Sessions, Asks(m, x, s)
  PROVE  Rest'
<1>0. TypeOK /\ Flow /\ Adds /\ Stored /\ Seen
  BY DEF IInv
<1>1. UNCHANGED <<track, history, said, crossed, link>> /\ turn[m].pc = "new" /\ Load(m, s)
  BY DEF Asks
<1>2. Others(m) /\ Begins(m, x, s) /\ turn[m].result = "none"
  BY <1>0, <1>1, TypeParts, AsksEffect DEF Flow
<1>3. Flow'
  BY <1>0, <1>1, <1>2, FlowFirst DEF Begins
<1>4. HeldNone /\ HistoryGrows
  BY <1>0, <1>1, <1>2, LoadHeld DEF Begins
<1>5. Stored'
  <2>1. \A h \in Turns : RepliesKept(h)
    BY <1>4, NoneAdded
  <2> QED
    BY <1>0, <1>1, <1>2, <1>4, <2>1, StoredOn DEF Begins
<1>6. SeenFor(m)'
  BY <1>0, <1>1, <1>2, SeenParts DEF SeenFor, Begins
<1>7. Seen'
  BY <1>0, <1>1, <1>2, <1>6, SeenOthers
<1>8. Alone' /\ Fresh'
  BY <1>0, <1>1, <1>2, LoadAdds DEF Begins, Adds, Adding
<1>9. Locks'
  BY <1>0, <1>1, <1>2, LocksQuiet DEF Begins, Adds
<1> QED
  BY <1>3, <1>5, <1>7, <1>8, <1>9, AsksTracks DEF Rest, Adds

\* A step that stores a message, but for the answer.
LEMMA StoreRest ==
  ASSUME IInv, NEW m \in Turns, Adding(m), NEW msg \in Messages(m), Store(m, msg), Others(m), Same(m), ~ Adding(m)',
         said' = said, crossed' = crossed,
         turn[m].result # "done" /\ turn'[m].result # "done"
  PROVE  Alone' /\ Fresh' /\ Stored'
<1>0. TypeOK /\ Begun /\ Flow /\ Alone /\ Fresh /\ Stored
  BY TypeParts DEF IInv, Adds
<1>1. msg \in Entries /\ \A h : ~ IsReply(msg, h)
  BY EntryTypes DEF Messages, IsReply
<1>2. Alone' /\ Fresh'
  BY <1>0, <1>1, StoreAdds
<1>3. HeldBut(turn[m].sid, Len(loaded[m]) + 1, msg) /\ HistoryGrows
  BY <1>0, <1>1, StoreHeld
<1>4. \A h \in Turns : RepliesKept(h)
  BY <1>1, <1>3, NoReplyAdded
<1>5. Stored'
  BY <1>0, <1>3, <1>4, StoredOn
<1> QED
  BY <1>2, <1>5

LEMMA ChatStoreRest ==
  ASSUME IInv, NEW m \in Turns, ChatStore(m)
  PROVE  Rest'
<1>0. TypeOK /\ Flow /\ Adds /\ Stored /\ Seen
  BY DEF IInv
<1>1. UNCHANGED <<track, said, crossed, link>> /\ turn[m].pc = "ask" /\ OverWS(m) /\ Store(m, UserMessage(m))
  BY DEF ChatStore
<1>2. /\ Others(m) /\ Same(m) /\ turn'[m].pc = "track"
      /\ turn'[m].seen = turn[m].seen /\ turn'[m].told = turn[m].told /\ turn'[m].result = turn[m].result
  BY <1>0, TypeParts, PcEffect DEF ChatStore, Pcs
<1>3. said[m] = Nothing /\ turn[m].seen = <<>> /\ turn[m].result = "none"
  BY <1>0, <1>1 DEF Flow
<1>4. Flow'
  BY <1>0, <1>1, <1>2, <1>3, FlowOn
<1>5. Alone' /\ Fresh' /\ Stored'
  BY <1>1, <1>2, <1>3, StoreRest DEF Messages, Adding
<1>6. SeenFor(m)'
  BY <1>0, <1>1, <1>2, SeenParts DEF SeenFor
<1>7. Seen'
  BY <1>0, <1>1, <1>2, <1>6, SeenOthers
<1>8. Tracks'
  BY <1>1, <1>2, QuietTracks DEF Runs
<1>9. Locks'
  BY <1>0, <1>1, <1>2, LocksQuiet DEF Adds
<1> QED
  BY <1>4, <1>5, <1>7, <1>8, <1>9 DEF Rest, Adds

LEMMA PostStoreRest ==
  ASSUME IInv, NEW m \in Turns, PostStore(m)
  PROVE  Rest'
<1>0. TypeOK /\ Flow /\ Adds /\ Stored /\ Seen
  BY DEF IInv
<1>1. /\ UNCHANGED <<said, crossed, link>> /\ turn[m].pc = "ask" /\ ~ OverWS(m) /\ Store(m, UserMessage(m))
      /\ track' = [track EXCEPT ![m] = Tracking(m, Nothing)]
  BY DEF PostStore
<1>2. /\ Others(m) /\ Same(m) /\ turn'[m].pc = "send"
      /\ turn'[m].seen = turn[m].seen /\ turn'[m].told = turn[m].told /\ turn'[m].result = turn[m].result
  BY <1>0, TypeParts, PcEffect DEF PostStore, Pcs
<1>3. said[m] = Nothing /\ turn[m].seen = <<>> /\ turn[m].result = "none"
  BY <1>0, <1>1 DEF Flow
<1>4. Flow'
  BY <1>0, <1>1, <1>2, <1>3, FlowOn
<1>5. Alone' /\ Fresh' /\ Stored'
  BY <1>1, <1>2, <1>3, StoreRest DEF Messages, Adding
<1>6. SeenFor(m)'
  <2>1. ~ OverWS(m)'
    BY <1>1, <1>2 DEF OverWS, Src, Same
  <2>2. SeenFor(m)
    BY <1>0, SeenParts
  <2> QED
    BY <1>1, <1>2, <2>1, <2>2 DEF SeenFor
<1>7. Seen'
  BY <1>0, <1>1, <1>2, <1>6, SeenOthers
<1>8. Locks'
  <2>1. \A h \in Turns \ {m} : turn[h].pc = "reply" => Src(h) \in Collectors \ {m}
    BY <1>0, TypeParts, ConnsNotTurns DEF Begun, Collectors
  <2>2. \A y \in Collectors \ {m} : track'[y] = track[y]
    BY <1>0, <1>1, TypeParts DEF Data
  <2> QED
    BY <1>0, <1>2, <2>1, <2>2, LocksOn DEF Adds
<1> QED
  BY <1>4, <1>5, <1>7, <1>8, PostStoreTracks DEF Rest, Adds

\* What a step that neither loads nor stores does to the calls and the answers.
LEMMA SameRest ==
  ASSUME IInv, NEW m \in Turns, Others(m), Same(m), ~ Adding(m), ~ Adding(m)', UNCHANGED <<history, loaded, raced>>,
         crossed \subseteq crossed', \A h \in Turns \ {m} : said'[h] = said[h],
         \/ turn[m].result # "done" /\ turn'[m].result # "done"
         \/ said'[m] = said[m] /\ turn'[m].result = turn[m].result
  PROVE  /\ Alone' /\ Fresh' /\ Stored'
         /\ track' = track => Locks'
<1>0. TypeOK /\ Flow /\ Adds /\ Stored
  BY DEF IInv
<1>1. HeldNone /\ HistoryGrows
  BY QuietHeld
<1>2. \A h \in Turns : RepliesKept(h)
  BY <1>1, NoneAdded
<1>3. Stored'
  BY <1>0, <1>1, <1>2, StoredOn
<1>4. Alone' /\ Fresh'
  BY <1>0, QuietAdds DEF Adds
<1>5. track' = track => Locks'
  BY <1>0, LocksQuiet DEF Adds, Adding
<1> QED
  BY <1>3, <1>4, <1>5

LEMMA TrackRest ==
  ASSUME IInv, NEW m \in Turns, Track(m)
  PROVE  Rest'
<1>0. TypeOK /\ Flow /\ Adds /\ Stored /\ Seen
  BY DEF IInv
<1>1. /\ UNCHANGED <<said, history, loaded, raced, link>> /\ turn[m].pc = "track" /\ crossed \subseteq crossed'
      /\ ~ Locked(Src(m)) /\ track' = [track EXCEPT ![Src(m)] = Tracking(m, Nothing)]
  BY DEF Track
<1>2. /\ Others(m) /\ Same(m) /\ turn'[m].pc = "send"
      /\ turn'[m].seen = turn[m].seen /\ turn'[m].told = turn[m].told /\ turn'[m].result = turn[m].result
  BY <1>0, TypeParts, PcEffect DEF Track, Pcs
<1>3. said[m] = Nothing /\ turn[m].seen = <<>> /\ turn[m].result = "none"
  BY <1>0, <1>1 DEF Flow
<1>4. Flow'
  BY <1>0, <1>1, <1>2, <1>3, FlowOn
<1>5. Alone' /\ Fresh' /\ Stored'
  BY <1>0, <1>1, <1>2, SameRest DEF Adding
<1>6. SeenFor(m)'
  BY <1>0, <1>1, <1>2, <1>3, SeenParts DEF SeenFor, Nothing
<1>7. Seen'
  BY <1>0, <1>1, <1>2, <1>6, SeenOthers
<1>8. Locks'
  <2>1. \A h \in Turns : turn[h].pc = "reply" => Src(h) \in Collectors
    BY Sources
  <2>2. \A y \in Collectors \ {Src(m)} : track'[y] = track[y]
    BY <1>0, <1>1, TypeParts DEF Data
  <2> QED
    BY <1>0, <1>1, <1>2, <2>1, <2>2, LocksFree DEF Adds
<1> QED
  BY <1>4, <1>5, <1>7, <1>8, TrackTracks DEF Rest, Adds

LEMMA SendRest ==
  ASSUME IInv, NEW m \in Turns, Send(m)
  PROVE  Rest'
<1>0. TypeOK /\ Flow /\ Stored /\ Seen
  BY DEF IInv
<1>1. UNCHANGED <<track, said, history, loaded, link, crossed, raced>> /\ turn[m].pc = "send"
  BY DEF Send
<1>2. /\ Others(m) /\ Same(m) /\ turn'[m].pc = "stream"
      /\ turn'[m].seen = turn[m].seen /\ turn'[m].told = turn[m].told /\ turn'[m].result = turn[m].result
  BY <1>0, TypeParts, PcEffect DEF Send, Pcs
<1>3. said[m] = Nothing /\ turn[m].seen = <<>> /\ turn[m].result = "none"
  BY <1>0, <1>1 DEF Flow
<1>4. Flow'
  BY <1>0, <1>1, <1>2, <1>3, FlowOn
<1>5. Alone' /\ Fresh' /\ Locks' /\ Stored'
  BY <1>0, <1>1, <1>2, <1>3, SameRest DEF Adding
<1>6. SeenFor(m)'
  BY <1>0, <1>1, <1>2, <1>3, SeenParts DEF SeenFor, Nothing
<1>7. Seen'
  BY <1>0, <1>1, <1>2, <1>6, SeenOthers
<1>8. Tracks'
  BY <1>1, <1>2, <1>3, QuietTracks DEF Runs
<1> QED
  BY <1>4, <1>5, <1>7, <1>8 DEF Rest, Adds

\* A step that Noted ends, of a turn that has not got its result, and that
\* neither collects nor shows anything.
LEMMA NotedRest ==
  ASSUME IInv, NEW m \in Turns, NEW note \in Notes \ {"text"}, NEW result \in Results \ {"done"},
         Noted(m, note, result), turn[m].pc \in {"send", "stream", "aside"}, turn[m].pc = "send" => result # "none",
         UNCHANGED <<link, said, crossed, track>>
  PROVE  /\ Flow' /\ Seen' /\ Tracks' /\ Locks' /\ Others(m) /\ Same(m) /\ ~ Adding(m)'
         /\ turn[m].result # "done" /\ turn'[m].result # "done"
<1>0. TypeOK /\ Flow /\ Adds /\ Seen
  BY DEF IInv
<1>1. /\ Others(m) /\ Same(m)
      /\ turn'[m].pc = IF OverWS(m) THEN "notify" ELSE IF result = "none" THEN "stream" ELSE "end"
      /\ turn'[m].note = IF OverWS(m) THEN note ELSE "none"
      /\ turn'[m].seen = turn[m].seen /\ turn'[m].told = turn[m].told /\ turn'[m].result = result
  BY <1>0, TypeParts, NotedEffect
<1>2. turn[m].result = "none" /\ turn[m].told # "done"
  BY <1>0 DEF Flow, Seen
<1>3. OverWS(m) /\ link[Src(m)] = "open" => said[m].content = turn[m].seen
  BY <1>0 DEF Seen
<1>4. Flow'
  BY <1>0, <1>1, FlowOn
<1>5. SeenFor(m)'
  BY <1>1, <1>2, <1>3 DEF SeenFor, Same, OverWS, Src
<1>6. Seen'
  BY <1>0, <1>1, <1>5, SeenOthers
<1>7. Tracks'
  BY <1>1, <1>2, QuietTracks DEF Runs
<1>8. Locks'
  BY <1>0, <1>1, LocksQuiet DEF Adds
<1> QED
  BY <1>1, <1>2, <1>4, <1>6, <1>7, <1>8 DEF Adding

LEMMA QuietRest ==
  ASSUME IInv, NEW m \in Turns, SendFails(m) \/ Request(m) \/ Error(m)
  PROVE  Rest'
<1>0. UNCHANGED <<link, said, crossed, track, history, loaded, raced>>
  BY DEF SendFails, Request, Error
<1>1. PICK note \in Notes \ {"text"}, result \in Results \ {"done"} :
        /\ Noted(m, note, result) /\ turn[m].pc \in {"send", "stream"}
        /\ turn[m].pc = "send" => result # "none"
  <2> USE DEF Notes, Results
  <2>1. CASE SendFails(m)
    BY <2>1 DEF SendFails
  <2>2. CASE Request(m)
    BY <2>2 DEF Request, MoreEvents
  <2>3. CASE Error(m)
    BY <2>3 DEF Error
  <2> QED
    BY <2>1, <2>2, <2>3
<1>2. /\ Flow' /\ Seen' /\ Tracks' /\ Locks' /\ Others(m) /\ Same(m) /\ ~ Adding(m)'
      /\ turn[m].result # "done" /\ turn'[m].result # "done"
  BY <1>0, <1>1, NotedRest
<1>3. Alone' /\ Fresh' /\ Stored'
  BY <1>0, <1>1, <1>2, SameRest DEF Adding
<1> QED
  BY <1>2, <1>3 DEF Rest, Adds

\* A turn goes into a call of AddMessage for something other than the question.
LEMMA LoadRest ==
  ASSUME IInv, NEW m \in Turns, turn[m].pc = "stream", Load(m, turn[m].sid),
         turn'[m].pc \in {"aside", "reply"}, Others(m), Same(m),
         turn'[m].seen = turn[m].seen /\ turn'[m].told = turn[m].told /\ turn'[m].result = turn[m].result,
         UNCHANGED <<link, track, history, said, crossed>>,
         turn'[m].pc = "reply" => ~ Locked(Src(m)) /\ Saves(m)
  PROVE  Rest'
<1>0. TypeOK /\ Flow /\ Adds /\ Stored /\ Seen
  BY DEF IInv
<1>1. turn[m].result = "none" /\ turn[m].told # "done" /\ turn[m].sid \in Sessions
  BY <1>0, TypeParts DEF Flow, Seen, Begun
<1>2. Flow'
  BY <1>0, <1>1, FlowOn
<1>3. HeldNone /\ HistoryGrows
  BY <1>0, <1>1, LoadHeld DEF Same
<1>4. Stored'
  <2>1. \A h \in Turns : RepliesKept(h)
    BY <1>3, NoneAdded
  <2> QED
    BY <1>0, <1>3, <2>1, StoredOn
<1>5. Alone' /\ Fresh'
  BY <1>0, <1>1, LoadAdds DEF Adds, Adding, Same
<1>6. Locks'
  BY <1>0, LocksOn DEF Adds
<1>7. SeenFor(m)'
  <2>1. SeenFor(m) /\ Src(m)' = Src(m)
    BY <1>0, SeenParts DEF Src, Same
  <2> QED
    BY <1>1, <2>1 DEF SeenFor, OverWS
<1>8. Seen'
  BY <1>0, <1>7, SeenOthers
<1>9. Tracks'
  BY <1>1, QuietTracks DEF Runs
<1> QED
  BY <1>2, <1>4, <1>5, <1>6, <1>8, <1>9 DEF Rest, Adds

LEMMA SystemRest ==
  ASSUME IInv, NEW m \in Turns, System(m)
  PROVE  Rest'
<1>1. /\ turn[m].pc = "stream" /\ turn' = [turn EXCEPT ![m].pc = "aside"] /\ Load(m, turn[m].sid)
      /\ UNCHANGED <<link, track, history, said, crossed>>
  BY DEF System, MoreEvents
<1>2. /\ Others(m) /\ Same(m) /\ turn'[m].pc = "aside"
      /\ turn'[m].seen = turn[m].seen /\ turn'[m].told = turn[m].told /\ turn'[m].result = turn[m].result
  BY <1>1, TypeParts, PcEffect DEF IInv, Pcs
<1> QED
  BY <1>1, <1>2, LoadRest

LEMMA SystemStoreRest ==
  ASSUME IInv, NEW m \in Turns, SystemStore(m)
  PROVE  Rest'
<1>1. /\ UNCHANGED <<link, said, crossed, track>> /\ turn[m].pc = "aside"
      /\ Store(m, SystemMessage(m)) /\ Noted(m, "system", "none")
  BY DEF SystemStore
<1>2. "system" \in Notes \ {"text"} /\ "none" \in Results \ {"done"}
  BY DEF Notes, Results
<1>3. /\ Flow' /\ Seen' /\ Tracks' /\ Locks' /\ Others(m) /\ Same(m) /\ ~ Adding(m)'
      /\ turn[m].result # "done" /\ turn'[m].result # "done"
  BY <1>1, <1>2, NotedRest
<1>4. Alone' /\ Fresh' /\ Stored'
  BY <1>1, <1>3, StoreRest DEF Messages, Adding
<1> QED
  BY <1>3, <1>4 DEF Rest, Adds

LEMMA StreamEndsRest ==
  ASSUME IInv, NEW m \in Turns, StreamEnds(m)
  PROVE  Rest'
<1>0. TypeOK /\ Flow /\ Stored /\ Seen
  BY DEF IInv
<1>1. UNCHANGED <<track, said, history, loaded, link, crossed, raced>> /\ turn[m].pc = "stream"
  BY DEF StreamEnds
<1>2. /\ Others(m) /\ Same(m) /\ turn'[m].pc = "end" /\ turn'[m].result = "cut"
      /\ turn'[m].seen = turn[m].seen /\ turn'[m].told = turn[m].told
  BY <1>0, TypeParts, CutEffect DEF StreamEnds
<1>3. turn[m].result = "none" /\ turn[m].told # "done"
  BY <1>0, <1>1 DEF Flow, Seen
<1>4. Flow'
  BY <1>0, <1>1, <1>2, FlowOn
<1>5. Alone' /\ Fresh' /\ Locks' /\ Stored'
  BY <1>0, <1>1, <1>2, <1>3, SameRest DEF Adding
<1>6. SeenFor(m)'
  BY <1>0, <1>1, <1>2, <1>3, SeenParts DEF SeenFor, Same, OverWS, Src
<1>7. Seen'
  BY <1>0, <1>1, <1>2, <1>6, SeenOthers
<1>8. Tracks'
  BY <1>1, <1>2, QuietTracks DEF Runs
<1> QED
  BY <1>4, <1>5, <1>7, <1>8 DEF Rest, Adds

LEMMA NotifyRest ==
  ASSUME IInv, NEW m \in Turns, Notify(m)
  PROVE  Rest'
<1>0. TypeOK /\ Flow /\ Stored /\ Seen
  BY DEF IInv
<1>1. UNCHANGED <<track, said, history, loaded, link, crossed, raced>>
  BY DEF Notify
<1>2. /\ Others(m) /\ Same(m) /\ Told(m) /\ turn[m].pc = "notify"
      /\ turn'[m].pc = IF turn[m].result = "none" THEN "stream" ELSE "end"
      /\ turn'[m].result = turn[m].result
  BY <1>0, TypeParts, NotifyEffect
<1>3. OverWS(m) /\ turn[m].told # "done"
  BY <1>0, <1>2 DEF Flow, Seen
<1>4. Flow'
  BY <1>0, <1>1, <1>2, FlowOn
<1>5. Alone' /\ Fresh' /\ Locks' /\ Stored'
  BY <1>0, <1>1, <1>2, SameRest DEF Adding
<1>6. SeenFor(m)'
  <2>1. link[Src(m)] = "open" => said[m].content = turn'[m].seen
    BY <1>0, <1>2, <1>3 DEF Seen, Told
  <2>2. turn'[m].told = "done" => link[Src(m)] = "open" /\ turn[m].result = "done"
    BY <1>2, <1>3 DEF Told
  <2>3. Src(m)' = Src(m)
    BY <1>2 DEF Same, Src
  <2> QED
    BY <1>1, <1>2, <1>3, <2>1, <2>2, <2>3 DEF SeenFor, OverWS
<1>7. Seen'
  BY <1>0, <1>1, <1>2, <1>6, SeenOthers
<1>8. Tracks'
  BY <1>1, <1>2, QuietTracks DEF Runs
<1> QED
  BY <1>4, <1>5, <1>7, <1>8 DEF Rest, Adds

LEMMA CollectsRest ==
  ASSUME IInv, NEW m \in Turns, Text(m) \/ ToolCall(m) \/ ToolResult(m)
  PROVE  Rest'
<1>0. TypeOK /\ Flow /\ Adds /\ Stored /\ Seen
  BY DEF IInv
<1>1. PICK a \in AnswerType, b \in AnswerType, note \in {"text", "tool"} :
        /\ Collects(m, note, a, b)
        /\ b.content = IF note = "text" THEN Append(said[m].content, Part(m, turn[m].events + 1)) ELSE said[m].content
  BY <1>0, EventCollects
<1>2. turn[m].pc = "stream" /\ UNCHANGED <<link, history, loaded, raced, crossed>> /\ Noted(m, note, "none")
  BY <1>1 DEF Collects
<1>3. /\ Others(m) /\ Same(m)
      /\ turn'[m].pc = IF OverWS(m) THEN "notify" ELSE "stream"
      /\ turn'[m].note = (IF OverWS(m) THEN note ELSE "none") /\ turn'[m].events = turn[m].events + 1
      /\ turn'[m].seen = turn[m].seen /\ turn'[m].told = turn[m].told /\ turn'[m].result = "none"
  BY <1>0, <1>2, TypeParts, NotedEffect DEF Notes, Results
<1>4. turn[m].result = "none" /\ turn[m].told # "done"
  BY <1>0, <1>2 DEF Flow, Seen
<1>5. said'[m] = b /\ \A h \in Turns \ {m} : said'[h] = said[h]
  BY <1>0, <1>1, <1>2, TypeParts, CollectedType, CollectEffect DEF Collects, Data
<1>6. OverWS(m) /\ link[Src(m)] = "open" => said[m].content = turn[m].seen
  BY <1>0, <1>2 DEF Seen
<1>7. Flow'
  BY <1>0, <1>3, <1>5, FlowOn
<1>8. Alone' /\ Fresh' /\ Stored'
  BY <1>0, <1>2, <1>3, <1>4, <1>5, SameRest DEF Adding
<1>9. SeenFor(m)'
  <2>1. Src(m)' = Src(m)
    BY <1>3 DEF Same, Src
  <2> QED
    BY <1>1, <1>2, <1>3, <1>4, <1>5, <1>6, <2>1 DEF SeenFor, OverWS
<1>10. Seen'
  BY <1>0, <1>2, <1>3, <1>5, <1>9, SeenOthers
<1>11. Locks'
  <2>1. ~ Locked(Src(m))
    BY DEF Text, ToolCall, ToolResult
  <2>2. \A h \in Turns : turn[h].pc = "reply" => Src(h) \in Collectors
    BY Sources
  <2>3. \A y \in Collectors \ {Src(m)} : track'[y] = track[y]
    BY <1>0, <1>1, <1>2, TypeParts, CollectedType, CollectEffect DEF Collects, Data
  <2> QED
    BY <1>0, <1>3, <2>1, <2>2, <2>3, LocksFree DEF Adds
<1> QED
  BY <1>7, <1>8, <1>10, <1>11, CollectsTracks DEF Rest, Adds

\* The result: without an answer to store the turn is over.
LEMMA DoneRest ==
  ASSUME IInv, NEW m \in Turns, Done(m)
  PROVE  Rest'
<1>0. TypeOK /\ Flow /\ Tracks /\ Adds /\ Stored /\ Seen
  BY DEF IInv
<1>1. /\ Others(m) /\ Same(m) /\ turn[m].pc = "stream" /\ ~ Locked(Src(m))
      /\ turn'[m].seen = turn[m].seen /\ turn'[m].told = turn[m].told
      /\ UNCHANGED <<link, authed, known, track, history, said, crossed>>
  BY <1>0, DoneTurn
<1>2. CASE Saves(m) /\ Load(m, turn[m].sid) /\ turn'[m].pc = "reply" /\ turn'[m].result = turn[m].result
  BY <1>1, <1>2, LoadRest
<1>3. CASE /\ ~ Saves(m) /\ UNCHANGED <<loaded, raced>>
           /\ turn'[m].pc = (IF OverWS(m) THEN "notify" ELSE "end") /\ turn'[m].result = "done"
           /\ turn'[m].note # "text"
  <2>1. turn[m].result = "none" /\ turn[m].told # "done" /\ Runs(m)
    BY <1>0, <1>1 DEF Flow, Seen, Runs
  <2>2. Flow'
    BY <1>0, <1>1, <1>3, FlowOn
  <2>3. OverWS(m) /\ link[Src(m)] = "open" => said[m].content = turn[m].seen
    BY <1>0, <1>1 DEF Seen
  <2>4. SeenFor(m)' /\ Src(m)' = Src(m)
    BY <1>1, <1>3, <2>1, <2>3 DEF SeenFor, OverWS, Src, Same
  <2>5. Seen'
    BY <1>0, <1>1, <2>4, SeenOthers
  <2>6. Tracks'
    BY <1>1, <1>3, <2>1, QuietTracks DEF Runs
  <2>7. Alone' /\ Fresh' /\ Locks'
    BY <1>0, <1>1, <1>3, QuietAdds, LocksQuiet DEF Adds, Adding
  <2>8. HeldNone /\ HistoryGrows /\ \A h \in Turns : RepliesKept(h)
    BY <1>1, <1>3, QuietHeld, NoneAdded
  <2>9. Stored'
    <3> SUFFICES ASSUME NEW h \in Turns, h \notin crossed PROVE StoredFor(h)'
      BY <1>1, StoredPartsNext
    <3>1. StoredFor(h) /\ RepliesKept(h)
      BY <1>0, <2>8 DEF Stored
    <3>2. CASE h # m
      <4>1. turn[h].result = "done" => turn[h].sid \in Sessions
        BY <1>0, TypeParts DEF Flow, Begun
      <4> QED
        BY <1>1, <2>8, <3>1, <3>2, <4>1, StoredSame DEF Others, Same
    \* A turn that keeps its tracking stores nothing only over REST, with nothing collected.
    <3>3. CASE h = m
      <4>1. track[Src(m)] = Tracking(m, said[m])
        BY <1>0, <2>1, <3>3 DEF Tracks, Kept
      <4>2. ~ OverWS(m) /\ said[m] = Nothing
        BY <1>3, <4>1, NoneFresh DEF Saves, Tracking, Collected
      <4>3. ~ OverWS(m)' /\ said'[m] = Nothing
        BY <1>1, <4>2 DEF OverWS, Src, Same
      <4>4. \A s \in Sessions : \A i, e : ~ (Held(s, i, e)' /\ IsReply(e, m))
        BY <2>1, <3>1, <3>3 DEF StoredFor, RepliesKept
      <4> QED
        BY <3>3, <4>3, <4>4 DEF StoredFor, IsReply
    <3> QED
      BY <3>2, <3>3
  <2> QED
    BY <2>2, <2>5, <2>6, <2>7, <2>9 DEF Rest, Adds
<1> QED
  BY <1>2, <1>3, DoneTurn, <1>0

\* What is stored at the result is m's own answer, if m did not cross another turn.
LEMMA DoneStoreEffect ==
  ASSUME IInv, NEW m \in Turns, DoneStore(m)
  PROVE  /\ TypeOK'
         /\ Others(m) /\ Same(m) /\ turn'[m].result = "done" /\ turn'[m].events = turn[m].events
         /\ turn'[m].pc = IF OverWS(m) THEN "notify" ELSE "end"
         /\ turn'[m].note # "text" /\ turn'[m].seen = turn[m].seen /\ turn'[m].told = turn[m].told
         /\ \E e \in Entries :
              /\ Store(m, e) /\ e.role = "assistant" /\ e.turn \in {m} \cup crossed
              /\ e.turn = track[Src(m)].id /\ e.answer = Collected(m)
              /\ m \notin crossed => e.turn = m /\ e.answer = said[m]
<1> DEFINE t == track[Src(m)]
           s == turn[m].sid
           e == Reply(t.id, t.answer)
<1>0. TypeOK /\ Flow /\ Kept /\ Finds /\ Apart /\ Locks
  BY DEF IInv, Tracks, Adds
<1>1. /\ turn[m].pc = "reply" /\ UNCHANGED <<link, authed, known, said, crossed>> /\ Noted(m, "done", "done")
      /\ track' = IF OverWS(m) THEN [track EXCEPT ![Src(m)] = NoTracking] ELSE track
      /\ Store(m, e)
  BY DEF DoneStore, Collected
<1>2. Runs(m) /\ Saves(m)
  BY <1>0, <1>1 DEF Flow, Runs, Locks
<1>3. /\ Src(m) \in Collectors /\ s \in Sessions /\ t \in TrackType
      /\ t.id \in Turns \cup {None} /\ t.answer \in AnswerType
  BY <1>0, <1>1, CollectedType DEF Collected
<1>4. m \notin crossed => t.id = m /\ t.answer = said[m]
  <2>1. m \notin crossed => t = Tracking(m, said[m])
    BY <1>0, <1>2 DEF Kept
  <2> QED BY <2>1 DEF Tracking
<1>5. t.id # None
  BY <1>0, <1>2, <1>4, NoneFresh DEF Saves, Apart
<1>6. t.id \in {m} \cup crossed /\ t.id \in Turns
  BY <1>0, <1>2, <1>3, <1>5 DEF Finds
<1>7. e \in Entries /\ e.turn = t.id /\ e.answer = t.answer /\ e.role = "assistant"
  BY <1>3, <1>6, EntryTypes
<1>8. /\ Turned' /\ Others(m) /\ Same(m) /\ turn'[m].result = "done" /\ turn'[m].events = turn[m].events
      /\ turn'[m].pc = IF OverWS(m) THEN "notify" ELSE "end"
      /\ turn'[m].note # "text" /\ turn'[m].seen = turn[m].seen /\ turn'[m].told = turn[m].told
  BY <1>0, <1>1, TypeParts, NotedEffect DEF Notes, Results
<1>9. Histories' /\ raced' = raced
  BY <1>0, <1>1, <1>3, <1>7, StoreEffect, TypeParts DEF Data
<1>10. track' \in [Collectors -> TrackType]
  BY <1>0, <1>1, <1>3, TypeParts, TrackEffect, NoTrackingType DEF Data
<1>11. Plain' /\ Data'
  BY <1>0, <1>1, <1>9, <1>10, TypeParts DEF Plain, Data
<1>12. TypeOK'
  BY <1>0, <1>1, <1>8, <1>11, TurnStepType
<1> QED
  BY <1>1, <1>4, <1>6, <1>7, <1>8, <1>12 DEF Collected

\* The one reply that is added to a turn that had none.
LEMMA StoredFirst ==
  ASSUME TypeOK, Begun, Fresh, NEW m \in Turns, StoredFor(m), Adding(m),
         turn[m].result = "none", turn'[m].result = "done", Others(m), Same(m), said' = said,
         NEW e \in Entries, Store(m, e), IsReply(e, m), e.answer = said[m]
  PROVE  StoredFor(m)'
<1>1. \A t \in Sessions : \A i, f : Held(t, i, f) => ~ IsReply(f, m)
  BY DEF StoredFor
<1>2. (OverWS(m)' <=> OverWS(m)) /\ turn'[m].sid = turn[m].sid
  BY DEF Same, OverWS, Src
<1>3. PICK s, n : s = turn[m].sid /\ n = Len(loaded[m]) + 1
  OBVIOUS
<1>4. /\ HeldBut(s, n, e) /\ raced' = raced
      /\ s \notin raced => n \in DOMAIN history'[s] /\ history'[s][n] = e
  BY <1>3, StoreHeld
<1>5. \A t \in Sessions : \A i, f : Held(t, i, f)' /\ IsReply(f, m) => t = s /\ i = n /\ f = e
  BY <1>1, <1>4 DEF HeldBut
<1> QED
  BY <1>2, <1>3, <1>4, <1>5 DEF StoredFor, IsReply

LEMMA DoneStoreRest ==
  ASSUME IInv, NEW m \in Turns, DoneStore(m)
  PROVE  Rest'
<1>0. TypeOK /\ Begun /\ Flow /\ Alone /\ Fresh /\ Locks /\ Stored /\ Seen
  BY TypeParts DEF IInv, Adds
<1>1. /\ UNCHANGED <<link, said, crossed>> /\ turn[m].pc = "reply" /\ Adding(m)
      /\ track' = IF OverWS(m) THEN [track EXCEPT ![Src(m)] = NoTracking] ELSE track
  BY DEF DoneStore, Adding
<1>2. /\ Others(m) /\ Same(m) /\ turn'[m].result = "done"
      /\ turn'[m].pc = IF OverWS(m) THEN "notify" ELSE "end"
      /\ turn'[m].note # "text" /\ turn'[m].seen = turn[m].seen /\ turn'[m].told = turn[m].told
  BY DoneStoreEffect
<1>3. PICK e \in Entries :
        /\ Store(m, e) /\ e.role = "assistant" /\ e.turn \in {m} \cup crossed
        /\ m \notin crossed => e.turn = m /\ e.answer = said[m]
  BY DoneStoreEffect
<1>4. turn[m].result = "none" /\ turn[m].told # "done" /\ turn[m].sid \in Sessions /\ ~ Adding(m)'
  BY <1>0, <1>1, <1>2 DEF Flow, Seen, Begun, Adding
<1>5. Alone' /\ Fresh'
  BY <1>0, <1>1, <1>2, <1>3, <1>4, StoreAdds
<1>6. Locks'
  <2>1. \A h \in Turns \ {m} : turn[h].pc = "reply" => Src(h) \in Collectors /\ Src(h) # Src(m)
    BY <1>0, <1>1, Sources DEF Locks
  <2>2. \A y \in Collectors \ {Src(m)} : track'[y] = track[y]
    BY <1>0, <1>1, TypeParts DEF Data
  <2> QED
    BY <1>0, <1>2, <2>1, <2>2, LocksOn
<1>7. HeldBut(turn[m].sid, Len(loaded[m]) + 1, e) /\ HistoryGrows
  BY <1>0, <1>1, <1>2, <1>3, StoreHeld
<1>8. Flow'
  BY <1>0, <1>1, <1>2, FlowOn
<1>9. Stored'
  <2> SUFFICES ASSUME NEW h \in Turns, h \notin crossed
               PROVE  StoredFor(h)'
    BY <1>1, StoredPartsNext
  <2>1. StoredFor(h)
    BY <1>0 DEF Stored
  <2>2. CASE h = m
    <3>1. e.turn = m /\ e.answer = said[m] /\ IsReply(e, m)
      BY <1>3, <2>2 DEF IsReply
    <3> QED
      BY <1>0, <1>1, <1>2, <1>3, <1>4, <2>1, <2>2, <3>1, StoredFirst
  <2>3. CASE h # m
    <3>1. turn[h].result = "done" => turn[h].sid \in Sessions
      BY <1>0, TypeParts DEF Flow, Begun
    <3>2. RepliesKept(h) /\ turn'[h].result = turn[h].result /\ Same(h)
      <4>1. ~ IsReply(e, h)
        BY <1>3, <2>3 DEF IsReply
      <4> QED
        BY <1>2, <1>7, <2>3, <4>1, NoReplyAdded DEF Others, Same
    <3> QED
      BY <1>1, <1>7, <2>1, <3>1, <3>2, StoredSame
  <2> QED
    BY <2>2, <2>3
<1>10. OverWS(m) /\ link[Src(m)] = "open" => said[m].content = turn[m].seen
  BY <1>0, <1>1 DEF Seen
<1>11. SeenFor(m)'
  <2>1. Src(m)' = Src(m)
    BY <1>2 DEF Same, Src
  <2> QED
    BY <1>1, <1>2, <1>4, <1>10, <2>1 DEF SeenFor, OverWS
<1>12. Seen'
  BY <1>0, <1>1, <1>2, <1>11, SeenOthers
<1> QED
  BY <1>5, <1>6, <1>8, <1>9, <1>12, DoneStoreTracks DEF Rest, Adds

LEMMA InitInv == Init => IInv
<1> SUFFICES ASSUME Init PROVE IInv
  OBVIOUS
<1>1. TypeOK
  BY InitType
<1>2. /\ \A m \in Turns : turn[m] = NewTurn /\ said[m] = Nothing
      /\ \A s \in Sessions : history[s] = <<>>
      /\ \A m \in Turns : loaded[m] = <<>>
      /\ crossed = {}
  BY DEF Init
<1>3. /\ NewTurn.pc = "new" /\ NewTurn.src = None /\ NewTurn.seen = <<>>
      /\ NewTurn.told = "none" /\ NewTurn.result = "none"
  BY DEF NewTurn
<1>4. Flow
  BY <1>2, <1>3 DEF Flow, Src
<1>5. \A m \in Turns : ~ Runs(m)
  BY <1>2, <1>3 DEF Runs
<1>6. Tracks
  BY <1>2, <1>5 DEF Tracks, Kept, Finds, Together, Apart
<1>7. Stored /\ Adds
  <2>1. DOMAIN <<>> = {}
    OBVIOUS
  <2>2. \A s \in Sessions : \A i, e : ~ Held(s, i, e)
    BY <1>2, <2>1 DEF Held
  <2>3. Stored
    BY <1>2, <1>3, <2>2 DEF Stored, StoredFor
  <2>4. Adds
    BY <1>2, <1>3 DEF Adds, Alone, Fresh, Locks, Adding
  <2> QED BY <2>3, <2>4
<1>8. Seen
  BY <1>2, <1>3 DEF Seen
<1> QED
  BY <1>1, <1>4, <1>6, <1>7, <1>8 DEF IInv

LEMMA NextInv == IInv /\ [Next]_vars => IInv'
<1> SUFFICES ASSUME IInv, [Next]_vars PROVE TypeOK' /\ Rest'
  BY DEF IInv, Rest
<1>0. TypeOK
  BY DEF IInv
<1>1. ASSUME NEW c \in Conns, Auth(c) \/ Disconnect(c) \/ \E s \in Sessions : SessionCreate(c, s)
      PROVE  TypeOK' /\ Rest'
  <2>1. UNCHANGED <<turn, track, history, loaded, said, crossed, raced>> /\ \A d \in Conns : link'[d] = "open" => link[d] = "open"
    BY <1>0, <1>1, TypeParts DEF Auth, Disconnect, SessionCreate, Plain
  <2> QED
    BY <1>0, <1>1, <2>1, MiscType, MiscRest
<1>3. ASSUME NEW m \in Turns, NEW s \in Sessions, Post(m, s) \/ \E c \in Conns : ChatMessage(c, m, s)
      PROVE  TypeOK' /\ Rest'
  <2>1. PICK x \in Conns \cup {m} : Asks(m, x, s)
    BY <1>3, RequestAsks
  <2> QED
    BY <1>0, <2>1, AsksType, AsksRest
<1>4. ASSUME NEW m \in Turns, Step(m)
      PROVE  TypeOK' /\ Rest'
  <2>1. CASE Track(m)
    BY <1>0, <2>1, TrackType1, TrackRest
  <2>2. CASE Send(m)
    BY <1>0, <2>2, SendType, SendRest
  <2>3. CASE SendFails(m) \/ Request(m) \/ Error(m)
    BY <1>0, <2>3, SendType, QuietRest
  <2>4. CASE Text(m) \/ ToolCall(m) \/ ToolResult(m)
    BY <1>0, <2>4, CollectsType, CollectsRest
  <2>5. CASE System(m) \/ SystemStore(m)
    BY <1>0, <2>5, SystemType, SystemRest, SystemStoreRest
  <2>6. CASE Done(m)
    BY <1>0, <2>6, DoneType, DoneRest
  <2>9. CASE DoneStore(m)
    BY <2>9, DoneStoreEffect, DoneStoreRest
  <2>10. CASE ChatStore(m)
    BY <1>0, <2>10, ChatStoreType, ChatStoreRest
  <2>11. CASE PostStore(m)
    BY <1>0, <2>11, PostStoreType, PostStoreRest
  <2>7. CASE StreamEnds(m)
    BY <1>0, <2>7, SendType, StreamEndsRest
  <2>8. CASE Notify(m)
    BY <1>0, <2>8, SendType, NotifyRest
  <2> QED
    BY <1>4, <2>1, <2>2, <2>3, <2>4, <2>5, <2>6, <2>7, <2>8, <2>9, <2>10, <2>11 DEF Step, Event
<1>5. CASE UNCHANGED vars
  <2>1. UNCHANGED <<turn, track, history, loaded, said, crossed, raced>> /\ UNCHANGED <<link, authed, known>>
    BY <1>5 DEF vars
  <2>2. Plain' /\ Data' /\ Turned' /\ Begun'
    BY <1>0, <2>1, TypeParts DEF Plain, Data, Turned, Begun, Src, Histories
  <2> QED
    BY <2>1, <2>2, TypePartsNext, MiscRest
<1> QED
  BY <1>1, <1>3, <1>4, <1>5 DEF Next

LEMMA Invariance == Spec => []IInv
<1> QED
  BY InitInv, NextInv, PTL DEF Spec

-----------------------------------------------------------------------------
(* The theorems.                                                           *)

\* The variables keep their types, and a turn that has begun has a session and
\* comes from a connection or from itself.
THEOREM TurnTypes == Spec => []TypeOK
<1>1. IInv => TypeOK
  BY DEF IInv
<1> QED
  BY <1>1, Invariance, PTL

\* A turn that shares its connection with no other one has exactly its own
\* answer in the history, once, in its own session, after its result came,
\* whatever the other connections and the REST turns do meanwhile; only a call
\* of AddMessage that overlapped another one can have lost it.
THEOREM AnswersAreOwn == Spec => []OwnReply
<1>1. IInv => OwnReply
  <2> SUFFICES ASSUME IInv, NEW m \in Turns \ crossed
               PROVE  /\ \A s \in Sessions : \A i \in Replies(s, m) :
                           /\ s = turn[m].sid /\ turn[m].result = "done"
                           /\ history[s][i].answer = said[m]
                           /\ Replies(s, m) = {i}
                      /\ turn[m].result = "done" /\ (OverWS(m) \/ said[m] # Nothing) =>
                           turn[m].sid \in raced \/ Replies(turn[m].sid, m) # {}
    BY DEF OwnReply
  <2>1. StoredFor(m)
    BY DEF IInv, Stored
  <2>2. \A s \in Sessions : \A i \in Replies(s, m) :
          /\ s = turn[m].sid /\ turn[m].result = "done"
          /\ history[s][i].answer = said[m]
          /\ \A j \in Replies(s, m) : i = j
    <3>1. \A s \in Sessions : \A i \in Replies(s, m) : Held(s, i, history[s][i]) /\ IsReply(history[s][i], m)
      BY DEF Replies, IsReply, Held
    <3> QED
      BY <2>1, <3>1 DEF StoredFor
  <2>3. turn[m].result = "done" /\ (OverWS(m) \/ said[m] # Nothing) =>
          turn[m].sid \in raced \/ Replies(turn[m].sid, m) # {}
    BY <2>1 DEF StoredFor, Replies, IsReply
  <2> QED
    BY <2>2, <2>3
<1> QED
  BY <1>1, Invariance, PTL

\* A client that was told chat.done has seen the answer that the history holds,
\* as long as its turn crossed no other one and no two calls of AddMessage
\* overlapped on its session.
THEOREM DoneIsSaved == Spec => []SeenIsSaved
<1>1. IInv => SeenIsSaved
  <2> SUFFICES ASSUME IInv, NEW m \in Turns \ crossed, turn[m].told = "done", turn[m].sid \notin raced
               PROVE  \E i \in Replies(turn[m].sid, m) : history[turn[m].sid][i].answer.content = turn[m].seen
    BY DEF SeenIsSaved
  <2>1. OverWS(m) /\ turn[m].pc = "end" /\ turn[m].result = "done" /\ said[m].content = turn[m].seen
    BY DEF IInv, Seen
  <2>2. turn[m].sid \in Sessions
    BY <2>1, TypeParts DEF IInv, Begun
  <2>3. StoredFor(m)
    BY DEF IInv, Stored
  <2>4. PICK i \in DOMAIN history[turn[m].sid] : IsReply(history[turn[m].sid][i], m)
    BY <2>1, <2>3 DEF StoredFor
  <2>5. history[turn[m].sid][i].answer = said[m] /\ i \in Replies(turn[m].sid, m)
    <3>1. Held(turn[m].sid, i, history[turn[m].sid][i])
      BY <2>4 DEF Held
    <3> QED
      BY <2>2, <2>3, <2>4, <3>1 DEF StoredFor, Replies, IsReply
  <2> QED
    BY <2>1, <2>5
<1> QED
  BY <1>1, Invariance, PTL

-----------------------------------------------------------------------------
(* Where the parts of answers are.                                         *)

\* Parts of turns that have begun from x, as far as these have come.
From(P, x) == \A p \in P : turn[p.of].pc # "new" /\ Src(p.of) = x /\ p.nr <= turn[p.of].events

\* A collector whose turn goes on holds parts of its own turns only, and none
\* that is stored or loaded; the tracking is one of its own turns, too.
Gathers(x) ==
  /\ From(PartsOf(track[x]), x)
  /\ x \in Conns \/ turn[x].result = "none" =>
       \A s \in Sessions : \A i, e : Held(s, i, e) => PartsOf(track[x]) \cap PartsOf(e) = {}
  /\ track[x].id # None => turn[track[x].id].pc # "new" /\ Src(track[x].id) = x

\* The question of a turn whose question was stored is there.
Asked(m) ==
  turn[m].pc \notin {"new", "ask"} =>
    \/ turn[m].sid \in raced
    \/ \E i \in DOMAIN history[turn[m].sid] : history[turn[m].sid][i] = UserMessage(m)

\* An entry's parts come from the source of its turn, and it shares them with
\* no entry of another place.
Placed(s, i, e) ==
  /\ From(PartsOf(e), Src(e.turn))
  /\ \A t \in Sessions : \A j, f : Held(t, j, f) /\ PartsOf(e) \cap PartsOf(f) # {} => t = s /\ j = i

\* An entry with parts comes after a question of the same source.
Ahead(s, i) ==
  s \notin raced => \A p \in PartsOf(history[s][i]) :
    \E m \in Turns : Src(m) = Src(p.of) /\ \E j \in 1 .. i - 1 : history[s][j] = UserMessage(m)

Stays ==
  /\ \A x \in Collectors : Gathers(x)
  /\ \A m \in Turns : Asked(m)
  /\ \A s \in Sessions : \A i, e : Held(s, i, e) => Placed(s, i, e)
  /\ \A s \in Sessions : \A i \in DOMAIN history[s] : Ahead(s, i)

LEMMA PartsTyped ==
  ASSUME TypeOK
  PROVE  /\ \A s \in Sessions : \A i, e : Held(s, i, e) => e \in Entries /\ PartsOf(e) \subseteq Parts /\ e.turn \in Turns
         /\ \A s \in Sessions : \A i \in DOMAIN history[s] : Held(s, i, history[s][i])
         /\ \A x \in Collectors : PartsOf(track[x]) \subseteq Parts
<1>1. \A a \in AnswerType : \A i \in DOMAIN a.content : a.content[i] \in Parts
  <2> SUFFICES ASSUME NEW q \in Seq(Parts) PROVE \A i \in DOMAIN q : q[i] \in Parts
    BY DEF AnswerType
  <2> QED OBVIOUS
<1>2. \A s \in Sessions : \A i, e : Held(s, i, e) => e \in Entries
  <2>1. \A q \in Seq(Entries) : \A i \in DOMAIN q : q[i] \in Entries
    BY SeqElements
  <2> QED
    BY <2>1, TypeParts DEF Data, Histories, Held
<1>3. \A x \in Collectors : track[x] \in TrackType
  BY TypeParts DEF Data
<1>4. \A s \in Sessions : \A i \in DOMAIN history[s] : Held(s, i, history[s][i])
  BY DEF Held
<1> QED
  BY <1>1, <1>2, <1>3, <1>4 DEF PartsOf, Entries, TrackType

\* Turns go on.
TurnsGoOn ==
  \A h \in Turns :
    /\ turn[h].pc # "new" => turn'[h].pc # "new" /\ Same(h) /\ turn[h].events <= turn'[h].events
    /\ turn'[h].result = "none" => turn[h].result = "none"

\* An entry that a step brings, to the store or to what a call has loaded.
New(s, i, e) == Held(s, i, e)' /\ ~ Held(s, i, e)

\* A turn with the source of one that has begun has begun.
LEMMA SameSource ==
  ASSUME IInv, NEW m \in Turns, NEW h \in Turns, turn[m].pc # "new", Src(h) = Src(m)
  PROVE  turn[h].pc # "new"
  BY Sources

LEMMA FromOn ==
  ASSUME TypeOK, TypeOK', TurnsGoOn, NEW P, P \subseteq Parts, NEW x, From(P, x)
  PROVE  \A p \in P : turn'[p.of].pc # "new" /\ turn'[p.of].src = x /\ p.nr <= turn'[p.of].events
<1> SUFFICES ASSUME NEW p \in P
             PROVE  turn'[p.of].pc # "new" /\ turn'[p.of].src = x /\ p.nr <= turn'[p.of].events
  OBVIOUS
<1>1. p.of \in Turns /\ p.nr \in Nat
  BY DEF Parts
<1>2. turn[p.of].events \in Nat /\ turn'[p.of].events \in Nat
  BY <1>1 DEF TypeOK, TurnType
<1>3. turn[p.of].pc # "new" /\ Src(p.of) = x /\ p.nr <= turn[p.of].events
  BY DEF From
<1> QED
  BY <1>1, <1>2, <1>3 DEF TurnsGoOn, Same, Src

\* An entry stays placed if nothing comes that shares a part with it.
LEMMA PlacedOn ==
  ASSUME IInv, TypeOK', TurnsGoOn, NEW s \in Sessions, NEW i, NEW e, Held(s, i, e), Placed(s, i, e),
         \A t \in Sessions : \A j, f : New(t, j, f) => PartsOf(e) \cap PartsOf(f) = {}
  PROVE  Placed(s, i, e)'
<1>1. PICK P : P = PartsOf(e)
  OBVIOUS
<1>2. TypeOK
  BY DEF IInv
<1>3. P \subseteq Parts /\ e.turn \in Turns
  BY <1>1, <1>2, PartsTyped
<1>4. From(P, Src(e.turn))
  BY <1>1 DEF Placed
<1>5. \A p \in P : p.of \in Turns /\ turn[p.of].pc # "new" /\ Src(p.of) = Src(e.turn)
  BY <1>3, <1>4 DEF From, Parts
<1>6. From(P, Src(e.turn))'
  <2>1. P # {} => turn'[e.turn].src = Src(e.turn)
    <3>1. P # {} => turn[e.turn].pc # "new"
      BY <1>3, <1>5, SameSource
    <3> QED
      BY <1>3, <3>1 DEF TurnsGoOn, Same, Src
  <2>2. \A p \in P : turn'[p.of].pc # "new" /\ turn'[p.of].src = Src(e.turn) /\ p.nr <= turn'[p.of].events
    BY <1>2, <1>3, <1>4, FromOn
  <2> QED
    BY <2>1, <2>2 DEF From, Src
<1>7. \A t \in Sessions : \A j, f : Held(t, j, f)' /\ P \cap PartsOf(f) # {} => t = s /\ j = i
  BY <1>1 DEF New, Placed
<1>8. PartsOf(e)' = P /\ \A f : PartsOf(f)' = PartsOf(f)
  BY <1>1 DEF PartsOf
<1> QED
  BY <1>6, <1>7, <1>8 DEF Placed

LEMMA AskedOn ==
  ASSUME TypeOK, TurnsGoOn, HistoryGrows, NEW m \in Turns, Asked(m), turn[m].pc \notin {"new", "ask"}
  PROVE  Asked(m)'
<1>1. turn[m].sid \in Sessions /\ turn'[m].sid = turn[m].sid
  BY TypeParts DEF Begun, TurnsGoOn, Same
<1>2. CASE turn[m].sid \in raced
  BY <1>1, <1>2 DEF Asked, HistoryGrows
<1>3. CASE turn[m].sid \notin raced'
  <2>1. PICK i \in DOMAIN history[turn[m].sid] : history[turn[m].sid][i] = UserMessage(m)
    BY <1>3 DEF Asked, HistoryGrows
  <2>2. i \in DOMAIN history'[turn[m].sid] /\ history'[turn[m].sid][i] = UserMessage(m)
    BY <1>1, <1>3, <2>1 DEF HistoryGrows
  <2> QED
    BY <1>1, <2>2 DEF Asked, UserMessage
<1> QED
  BY <1>1, <1>2, <1>3 DEF Asked

\* A question stays ahead.
LEMMA AheadOn ==
  ASSUME IInv, TurnsGoOn, HistoryGrows, NEW s \in Sessions, NEW i \in DOMAIN history[s], Ahead(s, i),
         Placed(s, i, history[s][i])
  PROVE  Ahead(s, i)'
<1> SUFFICES ASSUME s \notin raced', NEW p \in PartsOf(history'[s][i])
             PROVE  \E m \in Turns : Src(m)' = Src(p.of)' /\ \E j \in 1 .. i - 1 : history'[s][j] = UserMessage(m)
  BY DEF Ahead, PartsOf, UserMessage
<1>1. s \notin raced /\ i \in DOMAIN history'[s] /\ history'[s][i] = history[s][i]
  BY DEF HistoryGrows
<1>2. PICK m \in Turns, j \in 1 .. i - 1 : Src(m) = Src(p.of) /\ history[s][j] = UserMessage(m)
  BY <1>1 DEF Ahead
<1>3. p.of \in Turns /\ turn[p.of].pc # "new"
  <2>1. PartsOf(history[s][i]) \subseteq Parts
    BY PartsTyped DEF IInv
  <2> QED
    BY <1>1, <2>1 DEF Placed, From, Parts
<1>4. turn[m].pc # "new"
  BY <1>2, <1>3, SameSource
<1>5. Src(m)' = Src(p.of)'
  BY <1>2, <1>3, <1>4 DEF TurnsGoOn, Same, Src
<1>6. j \in DOMAIN history[s]
  <2>1. history[s] \in Seq(Entries)
    BY TypeParts DEF IInv, Data, Histories
  <2> QED
    BY <2>1
<1> QED
  BY <1>2, <1>5, <1>6 DEF HistoryGrows

\* A collector that takes nothing keeps to itself, if nothing comes that shares
\* a part with it.
LEMMA GathersOn ==
  ASSUME IInv, TypeOK', TurnsGoOn, NEW x \in Collectors, Gathers(x),
         PartsOf(track'[x]) \subseteq PartsOf(track[x]),
         \/ track'[x].id = track[x].id
         \/ track'[x].id = None
         \/ turn'[track'[x].id].pc # "new" /\ turn'[track'[x].id].src = x,
         \A s \in Sessions : \A j, f : New(s, j, f) => PartsOf(track[x]) \cap PartsOf(f) = {}
  PROVE  Gathers(x)'
<1>1. PICK P : P = PartsOf(track'[x])
  OBVIOUS
<1>2. TypeOK /\ PartsOf(track[x]) \subseteq Parts /\ track[x].id \in Turns \cup {None}
  BY PartsTyped, TypeParts DEF IInv, Data, TrackType
<1>3. P \subseteq Parts /\ From(P, x)
  BY <1>1, <1>2 DEF Gathers, From
<1>4. From(P, x)'
  BY <1>2, <1>3, FromOn DEF From, Src
<1>5. ASSUME x \in Conns \/ turn'[x].result = "none",
             NEW s \in Sessions, NEW i, NEW e, Held(s, i, e)'
      PROVE  P \cap PartsOf(e) = {}
  <2>1. x \in Conns \/ turn[x].result = "none"
    BY <1>5 DEF TurnsGoOn, Collectors
  <2>2. CASE New(s, i, e)
    BY <1>1, <2>2
  <2>3. CASE Held(s, i, e)
    BY <1>1, <2>1, <2>3 DEF Gathers
  <2> QED
    BY <1>5, <2>2, <2>3 DEF New
<1>6. track'[x].id # None => turn'[track'[x].id].pc # "new" /\ turn'[track'[x].id].src = x
  BY <1>2 DEF Gathers, TurnsGoOn, Same, Src
<1>7. PartsOf(track[x])' = P /\ \A e : PartsOf(e)' = PartsOf(e)
  BY <1>1 DEF PartsOf
<1> QED
  BY <1>4, <1>5, <1>6, <1>7 DEF Gathers, Src

\* A step that collects nothing and brings no parts, but perhaps a question.
LEMMA StaysFrame ==
  ASSUME IInv, TypeOK', Stays, TurnsGoOn, HistoryGrows,
         \A s \in Sessions : \A j, f : New(s, j, f) => PartsOf(f) = {},
         \A x \in Collectors :
           /\ PartsOf(track'[x]) \subseteq PartsOf(track[x])
           /\ \/ track'[x].id = track[x].id
              \/ track'[x].id = None
              \/ turn'[track'[x].id].pc # "new" /\ turn'[track'[x].id].src = x,
         \A m \in Turns : turn[m].pc \in {"new", "ask"} => Asked(m)'
  PROVE  Stays'
<1>0. TypeOK
  BY DEF IInv
<1>1. \A x \in Collectors : Gathers(x)'
  BY GathersOn DEF Stays
<1>2. \A m \in Turns : Asked(m)'
  BY <1>0, AskedOn DEF Stays
<1>3. ASSUME NEW s \in Sessions, NEW i, NEW e, Held(s, i, e)'
      PROVE  Placed(s, i, e)'
  <2>1. CASE Held(s, i, e)
    <3>1. Placed(s, i, e)
      BY <2>1 DEF Stays
    <3> QED
      BY <2>1, <3>1, PlacedOn
  <2>2. CASE ~ Held(s, i, e)
    <3>1. PartsOf(e)' = {}
      <4>1. PartsOf(e) = {}
        BY <1>3, <2>2 DEF New
      <4> QED
        BY <4>1 DEF PartsOf
    <3> QED
      BY <3>1 DEF Placed, From
  <2> QED
    BY <2>1, <2>2
<1>4. ASSUME NEW s \in Sessions, NEW i \in DOMAIN history'[s]
      PROVE  Ahead(s, i)'
  <2>1. CASE i \in DOMAIN history[s]
    <3>1. Ahead(s, i) /\ Placed(s, i, history[s][i])
      BY <1>0, <2>1, PartsTyped DEF Stays
    <3> QED
      BY <2>1, <3>1, AheadOn
  <2>2. CASE Held(s, i, history'[s][i]) /\ i \notin DOMAIN history[s]
    <3>1. PICK h \in Turns : turn[h].sid = s /\ i \in DOMAIN loaded[h]
      BY <2>2 DEF Held
    <3>2. s \in raced
      <4>1. DOMAIN <<>> = {}
        OBVIOUS
      <4> QED
        BY <2>2, <3>1, <4>1 DEF IInv, Adds, Fresh
    <3> QED
      BY <3>2 DEF Ahead, HistoryGrows
  <2>3. CASE ~ Held(s, i, history'[s][i])
    <3>1. PICK e : e = history'[s][i]
      OBVIOUS
    <3>2. Held(s, i, e)'
      BY <1>4, <3>1 DEF Held
    <3>3. PartsOf(e) = {}
      BY <1>3, <2>3, <3>1, <3>2 DEF New
    <3>4. DOMAIN e.answer.content = {}
      <4>1. ASSUME NEW k \in DOMAIN e.answer.content PROVE e.answer.content[k] \in PartsOf(e)
        BY DEF PartsOf
      <4> QED
        BY <3>3, <4>1
    <3>5. PartsOf(history[s][i])' = {}
      BY <3>1, <3>4 DEF PartsOf
    <3> QED
      BY <3>5 DEF Ahead
  <2> QED
    BY <2>1, <2>2, <2>3
<1> QED
  BY <1>1, <1>2, <1>3, <1>4 DEF Stays, Collectors

LEMMA TurnGoesOn ==
  ASSUME TypeOK, NEW m \in Turns, Others(m), turn[m].pc # "new" => turn'[m].pc # "new" /\ Same(m),
         turn[m].events <= turn'[m].events, turn'[m].result = "none" => turn[m].result = "none"
  PROVE  TurnsGoOn
<1>1. \A h \in Turns : turn[h].events \in Nat
  BY DEF TypeOK, TurnType
<1> QED
  BY <1>1 DEF TurnsGoOn, Others, Same

LEMMA TurnsStay ==
  ASSUME TypeOK, UNCHANGED turn
  PROVE  TurnsGoOn
<1>1. \A h \in Turns : turn[h].events \in Nat
  BY DEF TypeOK, TurnType
<1> QED
  BY <1>1 DEF TurnsGoOn, Same

\* A step that loads brings nothing new, nor does one that leaves both alone.
LEMMA NothingNew ==
  ASSUME HeldNone
  PROVE  \A s \in Sessions : \A j, f : ~ New(s, j, f)
  BY DEF HeldNone, New

LEMMA OneNew ==
  ASSUME NEW s, NEW i, NEW e, HeldBut(s, i, e)
  PROVE  \A t \in Sessions : \A j, f : New(t, j, f) => t = s /\ j = i /\ f = e
  BY DEF HeldBut, New

\* A turn that has not come as far as to have stored its question.
LEMMA NotAsked ==
  ASSUME NEW m \in Turns, turn'[m].pc \in {"new", "ask"}
  PROVE  Asked(m)'
  BY DEF Asked

LEMMA NothingHasNoParts ==
  /\ \A e : e.answer = Nothing => PartsOf(e) = {}
  /\ \A m : UserMessage(m).answer = Nothing /\ SystemMessage(m).answer = Nothing
  /\ \A id : Tracking(id, Nothing).answer = Nothing /\ Tracking(id, Nothing).id = id
<1>1. DOMAIN <<>> = {}
  OBVIOUS
<1> QED
  BY <1>1 DEF PartsOf, Nothing, UserMessage, SystemMessage, Tracking

\* The steps that leave collectors and history alone.
LEMMA QuietStays ==
  ASSUME IInv, TypeOK', Stays, NEW m \in Turns,
         Send(m) \/ SendFails(m) \/ Request(m) \/ Error(m) \/ StreamEnds(m) \/ Notify(m)
  PROVE  Stays'
<1>0. TypeOK /\ Turned /\ Flow /\ turn[m].events \in Nat
  BY TypeParts DEF IInv, TypeOK, TurnType
<1>1. UNCHANGED <<track, history, loaded, raced>> /\ turn[m].pc \notin {"new", "ask"}
  BY DEF Send, SendFails, Request, Error, StreamEnds, Notify, MoreEvents
<1>2. /\ Others(m) /\ Same(m) /\ turn'[m].pc # "new"
      /\ turn[m].events <= turn'[m].events
      /\ turn'[m].result = "none" => turn[m].result = "none"
  <2>1. CASE Send(m)
    <3>1. turn' = [turn EXCEPT ![m].pc = "stream"]
      BY <2>1 DEF Send
    <3>2. Others(m) /\ Same(m) /\ turn'[m].pc = "stream" /\ turn'[m].result = turn[m].result /\ turn'[m].events = turn[m].events
      BY <1>0, <3>1, PcEffect DEF Pcs
    <3> QED
      BY <1>0, <3>2
  <2>2. CASE SendFails(m)
    BY <1>0, <2>2, NotedEffect DEF SendFails, Notes, Results
  <2>3. CASE Request(m)
    BY <1>0, <2>3, NotedEffect DEF Request, Notes, Results, MoreEvents, Flow
  <2>4. CASE Error(m)
    BY <1>0, <2>4, NotedEffect DEF Error, Notes, Results
  <2>5. CASE StreamEnds(m)
    <3>1. turn' = [turn EXCEPT ![m].pc = "end", ![m].result = "cut"]
      BY <2>5 DEF StreamEnds
    <3>2. Others(m) /\ Same(m) /\ turn'[m].pc = "end" /\ turn'[m].result = "cut" /\ turn'[m].events = turn[m].events
      BY <1>0, <3>1, CutEffect
    <3> QED
      BY <1>0, <3>2
  <2>6. CASE Notify(m)
    BY <1>0, <2>6, NotifyEffect
  <2> QED
    BY <2>1, <2>2, <2>3, <2>4, <2>5, <2>6
<1>3. TurnsGoOn
  BY <1>0, <1>1, <1>2, TurnGoesOn
<1>4. \A h \in Turns : turn[h].pc \in {"new", "ask"} => Asked(h)'
  BY <1>1, <1>2, NotAsked DEF Others
<1>5. HeldNone /\ HistoryGrows
  BY <1>1, <1>2, QuietHeld
<1> QED
  BY <1>1, <1>3, <1>4, <1>5, NothingNew, StaysFrame

LEMMA MiscStays ==
  ASSUME IInv, TypeOK', Stays, UNCHANGED <<turn, track, history, loaded, raced>>
  PROVE  Stays'
<1>1. TurnsGoOn
  BY TurnsStay DEF IInv
<1>2. HeldNone /\ HistoryGrows
  BY DEF HeldNone, Held, HistoryGrows
<1>3. \A h \in Turns : turn[h].pc \in {"new", "ask"} => Asked(h)'
  BY NotAsked
<1> QED
  BY <1>1, <1>2, <1>3, NothingNew, StaysFrame

LEMMA AsksStays ==
  ASSUME IInv, TypeOK', Stays, NEW m \in Turns, NEW x \in Conns \cup {m}, NEW s \in Sessions, Asks(m, x, s)
  PROVE  Stays'
<1>0. TypeOK /\ Turned /\ turn[m].events \in Nat
  BY TypeParts DEF IInv, TypeOK, TurnType
<1>1. turn[m].pc = "new" /\ Load(m, s) /\ UNCHANGED <<track, history>>
  BY DEF Asks
<1>2. Others(m) /\ Begins(m, x, s)
  BY <1>0, AsksEffect
<1>3. TurnsGoOn
  BY <1>0, <1>1, <1>2, TurnGoesOn DEF Begins
<1>4. HeldNone /\ HistoryGrows
  BY <1>0, <1>1, <1>2, LoadHeld DEF Begins
<1>5. \A h \in Turns : turn[h].pc \in {"new", "ask"} => Asked(h)'
  BY <1>2, NotAsked DEF Others, Begins
<1> QED
  BY <1>1, <1>3, <1>4, <1>5, NothingNew, StaysFrame

\* A question is stored, of a connection or over REST.
LEMMA QuestionStays ==
  ASSUME IInv, TypeOK', Stays, NEW m \in Turns, ChatStore(m) \/ PostStore(m)
  PROVE  Stays'
<1>0. TypeOK /\ Turned /\ Flow /\ Begun /\ Fresh /\ turn[m].events \in Nat
  BY TypeParts DEF IInv, TypeOK, TurnType, Adds
<1>1. /\ turn[m].pc = "ask" /\ Adding(m) /\ Store(m, UserMessage(m)) /\ turn[m].sid \in Sessions
      /\ UserMessage(m) \in Entries
  BY <1>0, EntryTypes DEF ChatStore, PostStore, Adding, Begun
<1>2. /\ Others(m) /\ Same(m) /\ turn'[m].pc \in {"track", "send"}
      /\ turn'[m].events = turn[m].events /\ turn'[m].result = turn[m].result
  <2>1. CASE ChatStore(m)
    BY <1>0, <2>1, PcEffect DEF ChatStore, Pcs
  <2>2. CASE PostStore(m)
    BY <1>0, <2>2, PcEffect DEF PostStore, Pcs
  <2> QED BY <2>1, <2>2
<1>3. TurnsGoOn
  BY <1>0, <1>1, <1>2, TurnGoesOn
<1>4. /\ HeldBut(turn[m].sid, Len(loaded[m]) + 1, UserMessage(m)) /\ HistoryGrows /\ raced' = raced
      /\ turn[m].sid \notin raced =>
           \E i \in DOMAIN history'[turn[m].sid] : history'[turn[m].sid][i] = UserMessage(m)
  BY <1>0, <1>1, <1>2, StoreHeld
<1>5. \A t \in Sessions : \A j, f : New(t, j, f) => PartsOf(f) = {}
  BY <1>4, OneNew, NothingHasNoParts
<1>6. \A y \in Collectors :
        /\ PartsOf(track'[y]) \subseteq PartsOf(track[y])
        /\ \/ track'[y].id = track[y].id
           \/ turn'[track'[y].id].pc # "new" /\ turn'[track'[y].id].src = y
  <2>1. CASE ChatStore(m)
    BY <2>1 DEF ChatStore
  <2>2. CASE PostStore(m)
    <3>1. track \in [Collectors -> TrackType] /\ track' = [track EXCEPT ![m] = Tracking(m, Nothing)]
      BY <1>0, <2>2, TypeParts DEF Data, PostStore
    <3>2. turn'[m].src = m
      BY <1>1, <1>2, <2>2, Sources DEF Same, Src, PostStore
    <3> QED
      BY <1>2, <3>1, <3>2, NothingHasNoParts
  <2> QED
    BY <2>1, <2>2
<1>7. \A h \in Turns : turn[h].pc \in {"new", "ask"} => Asked(h)'
  <2>1. Asked(m)'
    <3>1. turn'[m].sid = turn[m].sid
      BY <1>2 DEF Same
    <3> QED
      BY <1>4, <3>1 DEF Asked, UserMessage
  <2> QED
    BY <1>2, <2>1, NotAsked DEF Others
<1> QED
  BY <1>3, <1>4, <1>5, <1>6, <1>7, StaysFrame

LEMMA TrackStays ==
  ASSUME IInv, TypeOK', Stays, NEW m \in Turns, Track(m)
  PROVE  Stays'
<1>0. TypeOK /\ Turned /\ Flow /\ turn[m].events \in Nat
  BY TypeParts DEF IInv, TypeOK, TurnType
<1>1. /\ turn[m].pc \notin {"new", "ask"} /\ Others(m) /\ Same(m) /\ turn'[m].pc # "new"
      /\ turn'[m].events = turn[m].events /\ turn'[m].result = turn[m].result
  BY <1>0, PcEffect DEF Track, Pcs
<1>2. track' = [track EXCEPT ![Src(m)] = Tracking(m, Nothing)] /\ UNCHANGED <<history, loaded, raced>>
  BY DEF Track
<1>3. TurnsGoOn
  BY <1>0, <1>1, TurnGoesOn
<1>4. \A x \in Collectors :
        /\ PartsOf(track'[x]) \subseteq PartsOf(track[x])
        /\ \/ track'[x].id = track[x].id
           \/ turn'[track'[x].id].pc # "new" /\ turn'[track'[x].id].src = x
  <2>1. track \in [Collectors -> TrackType]
    BY <1>0, TypeParts DEF Data
  <2> QED
    BY <1>1, <1>2, <2>1, NothingHasNoParts DEF Same, Src
<1>5. \A h \in Turns : turn[h].pc \in {"new", "ask"} => Asked(h)'
  BY <1>1, NotAsked DEF Others
<1>6. HeldNone /\ HistoryGrows
  BY <1>1, <1>2, QuietHeld
<1> QED
  BY <1>2, <1>3, <1>4, <1>5, <1>6, NothingNew, StaysFrame

\* A turn goes into a call of AddMessage for something other than the question.
LEMMA LoadStays ==
  ASSUME IInv, TypeOK', Stays, NEW m \in Turns, turn[m].pc = "stream", Load(m, turn[m].sid),
         Others(m), Same(m), turn'[m].pc # "new",
         turn'[m].events = turn[m].events /\ turn'[m].result = turn[m].result,
         UNCHANGED <<track, history>>
  PROVE  Stays'
<1>0. TypeOK /\ turn[m].sid \in Sessions /\ turn[m].events \in Nat
  BY TypeParts DEF IInv, TypeOK, TurnType, Begun
<1>1. TurnsGoOn
  BY <1>0, TurnGoesOn
<1>2. HeldNone /\ HistoryGrows
  BY <1>0, LoadHeld DEF Same
<1>3. \A h \in Turns : turn[h].pc \in {"new", "ask"} => Asked(h)'
  BY NotAsked DEF Others
<1> QED
  BY <1>1, <1>2, <1>3, NothingNew, StaysFrame

LEMMA SystemStays ==
  ASSUME IInv, TypeOK', Stays, NEW m \in Turns, System(m)
  PROVE  Stays'
<1>1. /\ turn[m].pc = "stream" /\ turn' = [turn EXCEPT ![m].pc = "aside"] /\ Load(m, turn[m].sid)
      /\ UNCHANGED <<track, history>>
  BY DEF System, MoreEvents
<1>2. /\ Others(m) /\ Same(m) /\ turn'[m].pc = "aside"
      /\ turn'[m].events = turn[m].events /\ turn'[m].result = turn[m].result
  BY <1>1, TypeParts, PcEffect DEF IInv, Pcs
<1> QED
  BY <1>1, <1>2, LoadStays

LEMMA SystemStoreStays ==
  ASSUME IInv, TypeOK', Stays, NEW m \in Turns, SystemStore(m)
  PROVE  Stays'
<1>0. TypeOK /\ Turned /\ Flow /\ Begun /\ Fresh /\ turn[m].events \in Nat
  BY TypeParts DEF IInv, TypeOK, TurnType, Adds
<1>1. /\ turn[m].pc = "aside" /\ Adding(m) /\ Store(m, SystemMessage(m)) /\ turn[m].sid \in Sessions
      /\ SystemMessage(m) \in Entries /\ UNCHANGED track
  BY <1>0, EntryTypes DEF SystemStore, Adding, Begun
<1>2. /\ Others(m) /\ Same(m) /\ turn'[m].pc # "new" /\ turn[m].events <= turn'[m].events
      /\ turn'[m].result = "none" => turn[m].result = "none"
  BY <1>0, <1>1, NotedEffect DEF SystemStore, Notes, Results, Flow
<1>3. TurnsGoOn
  BY <1>0, <1>1, <1>2, TurnGoesOn
<1>4. HeldBut(turn[m].sid, Len(loaded[m]) + 1, SystemMessage(m)) /\ HistoryGrows
  BY <1>0, <1>1, <1>2, StoreHeld
<1>5. \A t \in Sessions : \A j, f : New(t, j, f) => PartsOf(f) = {}
  BY <1>4, OneNew, NothingHasNoParts
<1>6. \A h \in Turns : turn[h].pc \in {"new", "ask"} => Asked(h)'
  BY <1>1, <1>2, NotAsked DEF Others
<1> QED
  BY <1>1, <1>3, <1>4, <1>5, <1>6, StaysFrame

\* A result without an answer to store.
LEMMA DoneStays ==
  ASSUME IInv, TypeOK', Stays, NEW m \in Turns, Done(m)
  PROVE  Stays'
<1>0. TypeOK /\ turn[m].events \in Nat
  BY DEF IInv, TypeOK, TurnType
<1>1. /\ Others(m) /\ Same(m) /\ turn[m].pc = "stream" /\ turn'[m].events = turn[m].events
      /\ UNCHANGED <<track, history>>
  BY <1>0, DoneTurn
<1>2. CASE Load(m, turn[m].sid) /\ turn'[m].pc = "reply" /\ turn'[m].result = turn[m].result
  BY <1>1, <1>2, LoadStays
<1>3. CASE UNCHANGED <<loaded, raced>> /\ turn'[m].pc \in {"notify", "end"} /\ turn'[m].result = "done"
  <2>1. TurnsGoOn
    BY <1>0, <1>1, <1>3, TurnGoesOn
  <2>2. HeldNone /\ HistoryGrows
    BY <1>1, <1>3, QuietHeld
  <2>3. \A h \in Turns : turn[h].pc \in {"new", "ask"} => Asked(h)'
    BY <1>1, NotAsked DEF Others
  <2> QED
    BY <1>1, <2>1, <2>2, <2>3, NothingNew, StaysFrame
<1> QED
  BY <1>0, <1>2, <1>3, DoneTurn

\* A text is a new part of its collector's turn; the other events bring none.
LEMMA CollectsStays ==
  ASSUME IInv, TypeOK', Stays, NEW m \in Turns, Text(m) \/ ToolCall(m) \/ ToolResult(m)
  PROVE  Stays'
<1> DEFINE p == Part(m, turn[m].events + 1)
<1>0. /\ TypeOK /\ Turned /\ Flow /\ turn[m].events \in Nat
      /\ turn[m].pc = "stream" /\ turn[m].pc # "new" /\ turn[m].result = "none"
  BY TypeParts DEF IInv, TypeOK, TurnType, Text, ToolCall, ToolResult, MoreEvents, Flow
<1>1. PICK x \in Collectors : /\ x = Src(m)
                             /\ track \in [Collectors -> TrackType] /\ track[x] \in TrackType
                             /\ Collected(m) \in AnswerType /\ said[m] \in AnswerType /\ p \in Parts
  BY <1>0, CollectedType, PartType, TypeParts DEF Data
<1>2. PICK a \in AnswerType :
        /\ track' = [track EXCEPT ![x] = [track[x] EXCEPT !.answer = a]]
        /\ a.content \in {Collected(m).content, Append(Collected(m).content, p)}
  <2>1. CASE Text(m)
    <3>1. Collect(m, WithText(Collected(m), p), WithText(said[m], p))
      BY <2>1 DEF Text
    <3>2. track' = [track EXCEPT ![x] = [track[x] EXCEPT !.answer = WithText(Collected(m), p)]]
      BY <1>1, <3>1 DEF Collect
    <3> QED
      BY <1>1, <3>2, TextType
  <2>2. CASE ToolCall(m)
    <3>1. Collect(m, WithCall(Collected(m), p), WithCall(said[m], p))
      BY <2>2 DEF ToolCall
    <3>2. track' = [track EXCEPT ![x] = [track[x] EXCEPT !.answer = WithCall(Collected(m), p)]]
      BY <1>1, <3>1 DEF Collect
    <3> QED
      BY <1>1, <3>2, CallType
  <2>3. CASE ToolResult(m)
    <3>1. PICK i \in DOMAIN said[m].tools :
            Collect(m, WithResult(Collected(m), said[m].tools[i].id), WithResult(said[m], said[m].tools[i].id))
      BY <2>3 DEF ToolResult
    <3>5. track' = [track EXCEPT ![x] = [track[x] EXCEPT !.answer = WithResult(Collected(m), said[m].tools[i].id)]]
      BY <1>1, <3>1 DEF Collect
    <3>2. said[m].tools \in Seq(ToolType)
      BY <1>1 DEF AnswerType, ToolType, Status
    <3>3. said[m].tools[i] \in ToolType
      BY <3>1, <3>2
    <3>4. said[m].tools[i].id \in Parts
      BY <3>3 DEF ToolType
    <3> QED
      BY <1>1, <3>4, <3>5, ResultType
  <2> QED
    BY <2>1, <2>2, <2>3
<1>3. /\ Others(m) /\ Same(m) /\ turn'[m].pc # "new" /\ turn'[m].events = turn[m].events + 1
  <2>1. Noted(m, "text", "none") \/ Noted(m, "tool", "none")
    BY DEF Text, ToolCall, ToolResult
  <2> QED
    BY <1>0, <2>1, NotedEffect DEF Notes, Results
<1>4. TurnsGoOn
  BY <1>0, <1>3, TurnGoesOn
<1>5. UNCHANGED <<history, loaded, raced>>
  BY DEF Text, ToolCall, ToolResult
<1>6. HeldNone /\ HistoryGrows /\ \A s \in Sessions : \A j, f : ~ New(s, j, f)
  BY <1>3, <1>5, QuietHeld, NothingNew
<1>7. /\ track'[x].id = track[x].id /\ PartsOf(track'[x]) \subseteq PartsOf(track[x]) \cup {p}
      /\ \A y \in Collectors \ {x} : track'[y] = track[y]
  <2>1. PICK q \in Seq(Parts) : q = Collected(m).content
    BY <1>1 DEF AnswerType
  <2>2. \A i \in DOMAIN Append(q, p) : Append(q, p)[i] = p \/ (i \in DOMAIN q /\ Append(q, p)[i] = q[i])
    BY <1>1
  <2>3. track'[x].id = track[x].id /\ track'[x].answer = a
    BY <1>1, <1>2 DEF TrackType
  <2>4. PartsOf(track'[x]) \subseteq PartsOf(track[x]) \cup {p}
    <3>1. \A i \in DOMAIN track'[x].answer.content :
            \/ track'[x].answer.content[i] = p
            \/ i \in DOMAIN q /\ track'[x].answer.content[i] = q[i]
      BY <1>2, <2>1, <2>2, <2>3
    <3>2. q = track[x].answer.content
      BY <1>1, <2>1 DEF Collected
    <3> QED
      BY <3>1, <3>2 DEF PartsOf
  <2> QED
    BY <1>1, <1>2, <2>3, <2>4
<1>8. \A y \in Collectors \ {x} : Gathers(y)'
  BY <1>4, <1>6, <1>7, GathersOn DEF Stays, Collectors
<1>9. Gathers(x)'
  <2>1. PICK P, Q : P = PartsOf(track'[x]) /\ Q = PartsOf(track[x])
    OBVIOUS
  <2>2. /\ Gathers(x) /\ From(Q, x) /\ Q \subseteq Parts /\ P \subseteq Q \cup {p}
    BY <1>0, <1>1, <1>7, <2>1, PartsTyped DEF Stays, Gathers, Collectors
  <2>3. p.of = m /\ p.nr = turn[m].events + 1
    BY DEF Part
  <2>4. \A q \in P : turn'[q.of].pc # "new" /\ turn'[q.of].src = x /\ q.nr <= turn'[q.of].events
    <3>1. \A q \in Q : turn'[q.of].pc # "new" /\ turn'[q.of].src = x /\ q.nr <= turn'[q.of].events
      BY <1>0, <1>4, <2>2, FromOn
    <3>2. turn'[p.of].pc # "new" /\ turn'[p.of].src = x /\ p.nr <= turn'[p.of].events
      BY <1>0, <1>1, <1>3, <2>3 DEF Same, Src
    <3> QED
      BY <2>2, <3>1, <3>2
  <2>5. x \in Conns \/ turn[x].result = "none"
    BY <1>0, <1>1, TypeParts DEF Begun
  <2>6. ASSUME NEW s \in Sessions, NEW i, NEW e, Held(s, i, e)' PROVE P \cap PartsOf(e) = {}
    <3>0. Held(s, i, e)
      BY <1>6, <2>6 DEF HeldNone
    <3>1. p \notin PartsOf(e)
      <4>1. From(PartsOf(e), Src(e.turn))
        BY <2>6, <3>0 DEF Stays, Placed
      <4> QED
        BY <1>0, <2>3, <4>1 DEF From
    <3>2. Q \cap PartsOf(e) = {}
      BY <2>1, <2>2, <2>5, <2>6, <3>0 DEF Gathers
    <3> QED
      BY <2>2, <3>1, <3>2
  <2>7. track'[x].id # None => turn'[track'[x].id].pc # "new" /\ turn'[track'[x].id].src = x
    <3>1. track[x].id \in Turns \cup {None}
      BY <1>1 DEF TrackType
    <3> QED
      BY <1>4, <1>7, <2>2, <3>1 DEF Gathers, TurnsGoOn, Same, Src
  <2>8. /\ PartsOf(track[x])' = P
        /\ \A e : PartsOf(e)' = PartsOf(e)
    BY <2>1 DEF PartsOf
  <2> QED
    BY <2>4, <2>6, <2>7, <2>8 DEF Gathers, From, Src
<1>10. \A h \in Turns : Asked(h)'
  <2> SUFFICES ASSUME NEW h \in Turns PROVE Asked(h)'
    OBVIOUS
  <2>1. CASE turn[h].pc \notin {"new", "ask"}
    BY <1>0, <1>4, <1>6, <2>1, AskedOn DEF Stays
  <2>2. CASE turn[h].pc \in {"new", "ask"}
    BY <1>0, <1>3, <2>2, NotAsked DEF Others
  <2> QED
    BY <2>1, <2>2
<1>11. \A s \in Sessions : \A i, e : Held(s, i, e)' => Placed(s, i, e)'
  BY <1>4, <1>6, PlacedOn DEF Stays, HeldNone
<1>12. \A s \in Sessions : \A i \in DOMAIN history[s] : Ahead(s, i)'
  BY <1>0, <1>4, <1>6, AheadOn, PartsTyped DEF Stays
<1> QED
  BY <1>5, <1>8, <1>9, <1>10, <1>11, <1>12 DEF Stays, Collectors

\* The answer is stored: what the collector held becomes an entry, and over a
\* WebSocket the collector forgets it.
LEMMA DoneStoreStays ==
  ASSUME IInv, TypeOK', Stays, NEW m \in Turns, DoneStore(m)
  PROVE  Stays'
<1>0. /\ TypeOK /\ Turned /\ Flow /\ Begun /\ Fresh /\ turn[m].events \in Nat /\ Kept /\ Apart
      /\ turn[m].pc = "reply" /\ Adding(m) /\ turn[m].result = "none" /\ Runs(m)
  BY TypeParts DEF IInv, TypeOK, TurnType, DoneStore, Flow, Tracks, Runs, Adds, Adding
<1>1. PICK x \in Collectors, s \in Sessions, t \in TrackType : x = Src(m) /\ s = turn[m].sid /\ t = track[x]
  BY <1>0, CollectedType
<1>2. /\ Others(m) /\ Same(m) /\ turn'[m].result = "done" /\ turn'[m].pc \in {"notify", "end"}
      /\ turn'[m].events = turn[m].events
  BY DoneStoreEffect
<1>3. TurnsGoOn
  BY <1>0, <1>2, TurnGoesOn
<1>4. PICK e \in Entries : Store(m, e) /\ e.turn = t.id /\ e.answer = t.answer
  BY <1>1, DoneStoreEffect DEF Collected
<1>5. track' = IF x \in Conns THEN [track EXCEPT ![x] = NoTracking] ELSE track
  BY <1>1 DEF DoneStore, OverWS
<1>6. PICK P : P = PartsOf(t) /\ P = PartsOf(e)
  BY <1>4 DEF PartsOf
<1>7. Gathers(x) /\ From(P, x) /\ P \subseteq Parts /\ t.id \in Turns
  BY <1>0, <1>1, <1>4, <1>6, PartsTyped DEF Stays, Collectors, Gathers, Entries
<1>8. x \notin Conns => x = m
  BY <1>0, <1>1 DEF Begun
<1>9. \A r \in Sessions : \A i, f : Held(r, i, f) => P \cap PartsOf(f) = {}
  BY <1>0, <1>1, <1>6, <1>7, <1>8 DEF Gathers
<1>10. PICK n :
        /\ HeldBut(s, n, e) /\ HistoryGrows /\ raced' = raced
        /\ \A r \in Sessions \ {s} : history'[r] = history[r]
        /\ s \notin raced =>
             /\ DOMAIN history'[s] = DOMAIN history[s] \cup {n} /\ history'[s][n] = e
             /\ \A i \in DOMAIN history[s] : i \in 1 .. n - 1
  <2>1. Len(loaded[m]) \in Nat
    BY <1>0, TypeParts DEF Data, Histories
  <2>2. (Len(loaded[m]) + 1) - 1 = Len(loaded[m])
    BY <2>1
  <2> QED
    BY <1>0, <1>1, <1>2, <1>4, <2>2, StoreHeld
<1>11. \A r \in Sessions : \A j, f : New(r, j, f) => r = s /\ j = n /\ f = e
  BY <1>10, OneNew
<1>12. /\ From(P, x)' /\ turn'[t.id].src = x /\ turn'[t.id].pc # "new" /\ turn'[m].src = x
       /\ \A p \in P : turn'[p.of].src = x
  <2>1. \A p \in P : turn'[p.of].pc # "new" /\ turn'[p.of].src = x /\ p.nr <= turn'[p.of].events
    BY <1>0, <1>3, <1>7, FromOn
  <2>2. turn'[t.id].src = x /\ turn'[t.id].pc # "new"
    BY <1>1, <1>3, <1>7, NoneFresh DEF Gathers, TurnsGoOn, Same, Src
  <2>3. turn'[m].src = x
    BY <1>1, <1>2 DEF Same, Src
  <2> QED
    BY <2>1, <2>2, <2>3 DEF From, Src
<1>13. \A f : PartsOf(f)' = PartsOf(f)
  BY DEF PartsOf
<1>14. ASSUME NEW r \in Sessions, NEW j, NEW f, Held(r, j, f)' PROVE Placed(r, j, f)'
  <2>1. CASE Held(r, j, f)
    <3>1. \A q \in Sessions : \A k, g : New(q, k, g) => PartsOf(f) \cap PartsOf(g) = {}
      BY <1>6, <1>9, <1>11, <2>1
    <3> QED
      BY <1>3, <2>1, <3>1, PlacedOn DEF Stays
  <2>2. CASE New(r, j, f)
    <3>1. r = s /\ j = n /\ f = e /\ PartsOf(f)' = P
      BY <1>6, <1>11, <1>13, <2>2
    <3>2. From(PartsOf(f), Src(f.turn))'
      BY <1>4, <1>12, <3>1 DEF From, Src
    <3>3. \A q \in Sessions : \A k, g : Held(q, k, g)' /\ P \cap PartsOf(g) # {} => q = r /\ k = j
      BY <1>9, <1>11, <3>1 DEF New
    <3> QED
      BY <1>13, <3>1, <3>2, <3>3 DEF Placed
  <2> QED
    BY <1>14, <2>1, <2>2 DEF New
<1>15. ASSUME NEW r \in Sessions, NEW i \in DOMAIN history'[r] PROVE Ahead(r, i)'
  <2>1. CASE i \in DOMAIN history[r]
    <3>1. Ahead(r, i) /\ Placed(r, i, history[r][i])
      BY <1>0, <2>1, PartsTyped DEF Stays
    <3> QED
      BY <1>3, <1>10, <2>1, <3>1, AheadOn
  <2>2. CASE i \notin DOMAIN history[r]
    <3> SUFFICES ASSUME r \notin raced PROVE Ahead(r, i)'
      BY <1>10 DEF Ahead
    <3>1. r = s /\ i = n /\ history'[r][i] = e
      BY <1>10, <1>15, <2>2
    <3>2. PICK k \in DOMAIN history[s] : history[s][k] = UserMessage(m)
      BY <1>0, <1>1, <3>1 DEF Stays, Asked
    <3>3. k \in 1 .. n - 1 /\ history'[s][k] = UserMessage(m)
      BY <1>10, <3>1, <3>2 DEF HistoryGrows
    <3>4. PartsOf(history[r][i])' = P /\ UserMessage(m)' = UserMessage(m)
      BY <1>6, <3>1 DEF PartsOf, UserMessage
    <3>5. \A p \in P : Src(m)' = Src(p.of)' /\ \E l \in 1 .. i - 1 : history'[r][l] = UserMessage(m)'
      BY <1>12, <3>1, <3>3, <3>4 DEF Src
    <3> QED
      BY <3>4, <3>5 DEF Ahead
  <2> QED
    BY <2>1, <2>2
<1>16. \A y \in Collectors \ {x} : Gathers(y)'
  <2> SUFFICES ASSUME NEW y \in Collectors \ {x} PROVE Gathers(y)'
    OBVIOUS
  <2>1. Gathers(y)
    BY DEF Stays, Collectors
  <2>2. PartsOf(track[y]) \cap P = {}
    BY <1>7, <2>1 DEF Gathers, From
  <2>3. track'[y] = track[y]
    BY <1>0, <1>5, TypeParts DEF Data
  <2>4. \A q \in Sessions : \A j, f : New(q, j, f) => PartsOf(track[y]) \cap PartsOf(f) = {}
    BY <1>6, <1>11, <2>2
  <2> QED
    BY <1>3, <2>1, <2>3, <2>4, GathersOn
<1>17. Gathers(x)'
  <2>1. CASE x \in Conns
    <3>1. track'[x] = NoTracking
      BY <1>0, <1>5, <2>1, TypeParts DEF Data
    <3>2. PartsOf(track[x])' = {} /\ track'[x].id = None
      BY <3>1, NothingHasNoParts DEF NoTracking, PartsOf
    <3> QED
      BY <3>2 DEF Gathers, From
  <2>2. CASE x \notin Conns
    <3>1. track' = track /\ x = m
      BY <1>5, <1>8, <2>2
    <3>2. turn'[x].result # "none"
      BY <1>2, <3>1
    <3>3. PartsOf(track[x])' = P /\ track'[x] = t
      BY <1>1, <1>6, <3>1 DEF PartsOf
    <3> QED
      BY <1>12, <2>2, <3>2, <3>3 DEF Gathers, From, Src
  <2> QED
    BY <2>1, <2>2
<1>18. \A h \in Turns : Asked(h)'
  <2> SUFFICES ASSUME NEW h \in Turns PROVE Asked(h)'
    OBVIOUS
  <2>1. CASE turn[h].pc \notin {"new", "ask"}
    BY <1>0, <1>3, <1>10, <2>1, AskedOn DEF Stays
  <2>2. CASE turn[h].pc \in {"new", "ask"}
    BY <1>0, <1>2, <2>2, NotAsked DEF Others
  <2> QED
    BY <2>1, <2>2
<1> QED
  BY <1>14, <1>15, <1>16, <1>17, <1>18 DEF Stays, Collectors

\* What a stream delivered is stored at most once and for a turn of its own
\* connection, however turns and calls of AddMessage overlap, and after a
\* question of that connection where no two calls did.
THEOREM PartsStay == Spec => []PartsStayOnTheirConnection
<1>1. Init => Stays
  <2> SUFFICES ASSUME Init PROVE Stays
    OBVIOUS
  <2>1. \A x \in Collectors : PartsOf(track[x]) = {} /\ track[x].id = None
    BY NothingHasNoParts DEF Init, Collectors, NoTracking
  <2>2. /\ \A s \in Sessions : DOMAIN history[s] = {}
        /\ \A s, i, e : s \in Sessions => ~ Held(s, i, e)
    BY DEF Init, Held
  <2>3. \A m \in Turns : turn[m].pc = "new"
    BY DEF Init, NewTurn
  <2> QED
    BY <2>1, <2>2, <2>3 DEF Stays, Gathers, From, Asked, Collectors
<1>2. Stays /\ IInv /\ [Next]_vars => Stays'
  <2> SUFFICES ASSUME Stays, IInv, [Next]_vars PROVE Stays'
    OBVIOUS
  <2>0. TypeOK'
    BY NextInv DEF IInv
  <2>1. CASE \E c \in Conns : Auth(c) \/ Disconnect(c) \/ \E s \in Sessions : SessionCreate(c, s)
    BY <2>0, <2>1, MiscStays DEF Auth, Disconnect, SessionCreate
  <2>2. CASE \E m \in Turns : \E s \in Sessions : Post(m, s) \/ \E c \in Conns : ChatMessage(c, m, s)
    <3>1. PICK m \in Turns, s \in Sessions : Post(m, s) \/ \E c \in Conns : ChatMessage(c, m, s)
      BY <2>2
    <3>2. PICK x \in Conns \cup {m} : Asks(m, x, s)
      BY <3>1, RequestAsks
    <3> QED
      BY <2>0, <3>2, AsksStays
  <2>3. CASE \E m \in Turns : Step(m)
    <3>1. PICK m \in Turns : Step(m)
      BY <2>3
    <3> QED
      BY <2>0, <3>1, QuestionStays, TrackStays, QuietStays, CollectsStays, SystemStays, SystemStoreStays,
         DoneStays, DoneStoreStays DEF Step, Event
  <2>4. CASE UNCHANGED vars
    BY <2>0, <2>4, MiscStays DEF vars
  <2> QED
    BY <2>1, <2>2, <2>3, <2>4 DEF Next
<1>3. Stays /\ IInv => PartsStayOnTheirConnection
  <2> SUFFICES ASSUME Stays, IInv, NEW s \in Sessions, NEW i \in DOMAIN history[s],
                      NEW p \in PartsOf(history[s][i])
               PROVE  /\ Src(p.of) = Src(history[s][i].turn)
                      /\ \/ s \in raced
                         \/ \E m \in Turns : Src(m) = Src(p.of) /\ \E j \in 1 .. i - 1 : history[s][j] = UserMessage(m)
                      /\ \A t \in Sessions : \A j \in DOMAIN history[t] :
                           p \in PartsOf(history[t][j]) => <<t, j>> = <<s, i>>
    BY DEF PartsStayOnTheirConnection
  <2>1. Placed(s, i, history[s][i]) /\ Ahead(s, i)
    BY PartsTyped DEF Stays, IInv
  <2>2. \A t \in Sessions : \A j \in DOMAIN history[t] : Held(t, j, history[t][j])
    BY DEF Held
  <2> QED
    BY <2>1, <2>2 DEF Placed, Ahead, From
<1> QED
  BY <1>1, <1>2, <1>3, Invariance, PTL DEF Spec
=============================================================================
