---------------------------- MODULE WebViewProofs ----------------------------
(***************************************************************************)
(* What the web client shows, for any sessions, any turns and any number   *)
(* of sockets: its types; that messages are of the session shown           *)
(* (OwnSession); that the input is not disabled for nothing                *)
(* (GeneratingHasEnd); that a request for permission is shown (AskIsShown);*)
(* that the messages are what the store holds (ViewIsHistory).             *)
(*                                                                         *)
(* None of them is inductive.  A text or a history shown now was once on   *)
(* the wire, so what is said of the view has to be said of the requests,   *)
(* the frames and the store as well (Wire, Belongs), and of the answer     *)
(* under construction, which survives the choice of a session (Mine).      *)
(* That the mark has an end needs that there is never a second turn which  *)
(* could take it away (Single), that an unmarked view has none under way,  *)
(* and that nobody left the session meanwhile (Stays); its cause is then   *)
(* kept by every step (Marked).  A request is the one shown because the    *)
(* last one on the wire is always that of the turn that waits (Shows).     *)
(*                                                                         *)
(* View and store are compared at rest only, but the comparison has to be  *)
(* kept while they differ: the message that waits for its turn is set      *)
(* apart, and so is the answer that grows, on both sides (Agrees); of that *)
(* answer the client has a beginning, and the frames on the wire bring     *)
(* the rest in order (FlowsOut, FlowsEnd).  A system message is stored     *)
(* before the client hears of it: it is set apart while its frame is       *)
(* coming, and those set apart are the last ones, in the order of their    *)
(* frames (Asides).                                                        *)
(*                                                                         *)
(* Most of the module says what each action does, in terms of the indices  *)
(* of the sequences it changes; each part of the invariant is then kept    *)
(* for a few reasons only, which are lemmas of their own.                  *)
(***************************************************************************)
EXTENDS WebView, SequenceTheorems, TLAPS

-----------------------------------------------------------------------------
(* The inductive invariant.                                                *)

IsNotice(f) == f.kind \in {"text", "tool", "system", "ask", "done", "error"}
IsEnd(f)    == f.kind \in {"done", "error"}
Begun(m)    == turn[m].pc # "new"

\* Requests and frames are about turns that have begun, from this socket and in
\* their session.
WireTurns == \A m \in Turns : turn[m].src <= nr /\ (Begun(m) => turn[m].sid \in Sessions)
WireReqs ==
  \A i \in DOMAIN reqs :
    /\ reqs[i].kind # "attach" => reqs[i].turn \in Turns
    /\ reqs[i].kind = "message" => LET r == turn[reqs[i].turn] IN r.sid = reqs[i].sid /\ r.src = nr /\ r.pc = "sent"
WireServing == serving # NoRequest => serving.kind \in {"attach", "answer"} /\ serving.sid \in Sessions
WireFrames ==
  \A i \in DOMAIN frames : IsNotice(frames[i]) =>
    LET f == frames[i] IN /\ f.part \in Parts /\ Begun(f.part.of)
                          /\ turn[f.part.of].sid = f.sid /\ turn[f.part.of].src = nr
WireSync == \A k \in Socks : sync[k].pc # "none" => sync[k].sid \in Sessions
Wire == WireTurns /\ WireReqs /\ WireServing /\ WireFrames /\ WireSync

\* What is stored of a session, or was read from it, belongs to it: t is turn.
OfSession(t, e, s) ==
  /\ t[e.turn].pc # "new" /\ t[e.turn].sid = s
  /\ \A j \in DOMAIN e.text : t[e.text[j].of].pc # "new" /\ t[e.text[j].of].sid = s
Read(t, l, s) == \A i \in DOMAIN l : l[i].by = "server" /\ OfSession(t, l[i], s)

Belongs ==
  /\ \A s \in Sessions : Read(turn, history[s], s)
  /\ serving.kind = "attach" => Read(turn, serving.list, serving.sid)
  /\ \A i \in DOMAIN frames : frames[i].kind = "attached" => Read(turn, frames[i].list, frames[i].sid)
  /\ \A k \in Socks : Read(turn, sync[k].list, sync[k].sid)
  /\ \A m \in Turns : \A j \in DOMAIN answer[m] : answer[m][j].of = m

\* The answer under construction is that of its message, as long as the message
\* is there.
Grows(e, b) == e.by = "client" /\ e.role = "assistant" /\ e.turn = b.turn
Mine ==
  /\ \A j \in DOMAIN bubble.text : Begun(bubble.text[j].of)
  /\ (\E i \in DOMAIN messages : Grows(messages[i], bubble)) =>
       \A j \in DOMAIN bubble.text : turn[bubble.text[j].of].sid = cur
  /\ "overtaken" \notin trouble => \A i \in DOMAIN messages : OfSession(turn, messages[i], cur)

\* A turn that may still end the generating mark.
Active(m) == turn[m].src = nr /\ turn[m].pc \in {"sent", "run", "ask"}
Posted(m) == turn[m].src = 0 /\ turn[m].pc = "sent"
Ending(m) == \E i \in DOMAIN frames : IsEnd(frames[i]) /\ frames[i].part.of = m
Open(m)   == Active(m) \/ Posted(m) \/ Ending(m)

\* There is one such turn at a time, and none while the mark is off; what is
\* on the wire is its own, its end comes last.
OneOpen  == \A m, h \in Turns : Open(m) /\ Open(h) => m = h
NoneOpen == ~gen => /\ \A m \in Turns : ~Open(m)
                    /\ \A i \in DOMAIN frames : ~IsNotice(frames[i])
ItsOwn   == \A i \in DOMAIN frames : IsNotice(frames[i]) => \A m \in Turns : Open(m) => m = frames[i].part.of
EndLast  == \A i \in DOMAIN frames : IsEnd(frames[i]) =>
              /\ turn[frames[i].part.of].pc = "over"
              /\ \A j \in DOMAIN frames : j > i => ~IsNotice(frames[j])
OneAsked == \A i, j \in DOMAIN reqs : reqs[i].kind = "message" /\ reqs[j].kind = "message" => i = j
Single == OneOpen /\ NoneOpen /\ ItsOwn /\ EndLast /\ OneAsked

\* Nobody has left: the session of a turn under way is the one shown.
Untroubled == trouble \cap {"left", "untold"} = {}
StaysMarked == gen /\ Untroubled => sock = "open" /\ ~Attaching
StaysActive == \A m \in Turns : Active(m) /\ sock = "open" /\ "left" \notin trouble =>
                                  turn[m].sid = cur /\ ~Attaching
Stays == StaysMarked /\ StaysActive

\* A request for permission is shown, or on its way behind any earlier one.
Asks(f, m) == f.kind = "ask" /\ f.part = Part(m, turn[m].events)
ShowsLast ==
  \A m \in Turns : turn[m].pc = "ask" /\ Sees(m) =>
    \A i \in DOMAIN frames : frames[i].kind = "ask" => \E j \in DOMAIN frames : j >= i /\ Asks(frames[j], m)
ShowsAsk ==
  \A m \in Turns : turn[m].pc = "ask" /\ Sees(m) /\ trouble \cap {"left", "erased"} = {} =>
    ask = Part(m, turn[m].events) \/ \E i \in DOMAIN frames : Asks(frames[i], m)
Shows == ShowsLast /\ ShowsAsk

\* The mark has a cause: the turn under way, or its end.
Marked ==
  gen /\ Untroubled =>
    \/ \E i \in DOMAIN reqs : reqs[i].kind = "message"
    \/ \E m \in Turns : turn[m].src = nr /\ turn[m].pc \in {"run", "ask"}
    \/ \E i \in DOMAIN frames : IsEnd(frames[i]) /\ frames[i].sid = cur

IInv == TypeOK /\ Wire /\ Belongs /\ Mine /\ Single /\ Stays /\ Shows /\ Marked

-----------------------------------------------------------------------------
(* Sequences, by their indices.                                            *)

\* Append keeps what is there and adds one element at the end.
LEMMA AppendAt ==
  ASSUME NEW T, NEW q \in Seq(T), NEW e \in T
  PROVE  /\ Append(q, e) \in Seq(T) /\ Append(q, e) # <<>>
         /\ Len(q) \in Nat /\ DOMAIN q = 1 .. Len(q)
         /\ DOMAIN Append(q, e) = 1 .. Len(q) + 1 /\ Len(Append(q, e)) = Len(q) + 1
         /\ \A i \in DOMAIN q : Append(q, e)[i] = q[i]
         /\ Append(q, e)[Len(q) + 1] = e
  <1>1. Len(q) \in Nat /\ DOMAIN q = 1 .. Len(q)
    OBVIOUS
  <1>2. Append(q, e) \in Seq(T) /\ Append(q, e) # <<>> /\ Len(Append(q, e)) = Len(q) + 1
    BY AppendProperties
  <1>3. DOMAIN Append(q, e) = 1 .. Len(Append(q, e))
    BY <1>2
  <1>4. (\A i \in 1 .. Len(q) : Append(q, e)[i] = q[i]) /\ Append(q, e)[Len(q) + 1] = e
    BY AppendProperties
  <1> QED
    BY <1>1, <1>2, <1>3, <1>4

\* Every element of the longer sequence is an old one or the new one.
LEMMA AppendFrom ==
  ASSUME NEW T, NEW q \in Seq(T), NEW e \in T
  PROVE  \A i \in DOMAIN Append(q, e) : \/ i \in DOMAIN q /\ Append(q, e)[i] = q[i]
                                        \/ i = Len(q) + 1 /\ Append(q, e)[i] = e
  BY AppendAt

\* Tail moves every element down by one.
LEMMA TailAt ==
  ASSUME NEW T, NEW q \in Seq(T), q # <<>>
  PROVE  /\ Tail(q) \in Seq(T) /\ Len(q) \in Nat \ {0}
         /\ DOMAIN q = 1 .. Len(q) /\ DOMAIN Tail(q) = 1 .. Len(q) - 1
         /\ Head(q) \in T /\ Head(q) = q[1] /\ 1 \in DOMAIN q
         /\ \A i \in DOMAIN Tail(q) : i + 1 \in DOMAIN q /\ Tail(q)[i] = q[i + 1]
         /\ \A i \in DOMAIN q : i # 1 => i - 1 \in DOMAIN Tail(q) /\ Tail(q)[i - 1] = q[i]
  <1>1. Len(q) \in Nat \ {0} /\ DOMAIN q = 1 .. Len(q) /\ Head(q) = q[1]
    OBVIOUS
  <1>2. /\ Head(q) \in T /\ Tail(q) \in Seq(T) /\ Len(Tail(q)) = Len(q) - 1
        /\ \A i \in 1 .. Len(Tail(q)) : Tail(q)[i] = q[i + 1]
    BY HeadTailProperties
  <1>3. DOMAIN Tail(q) = 1 .. Len(Tail(q))
    BY <1>2
  <1> QED
    BY <1>1, <1>2, <1>3

\* The elements of a sequence are in its set.
LEMMA ElementAt ==
  ASSUME NEW T, NEW q \in Seq(T), NEW i \in DOMAIN q
  PROVE  q[i] \in T
  BY ElementOfSeq

LEMMA EmptyAt ==
  ASSUME NEW T
  PROVE  <<>> \in Seq(T) /\ DOMAIN <<>> = {} /\ Len(<<>>) = 0
  OBVIOUS

\* A concatenation, element by element.
LEMMA ConcatAt ==
  ASSUME NEW T, NEW p \in Seq(T), NEW q \in Seq(T)
  PROVE  /\ p \o q \in Seq(T)
         /\ q # <<>> => p \o q # p
         /\ \A i \in DOMAIN (p \o q) : \/ i \in DOMAIN p /\ (p \o q)[i] = p[i]
                                       \/ \E j \in DOMAIN q : (p \o q)[i] = q[j]
  <1>1. Len(p) \in Nat /\ Len(q) \in Nat /\ DOMAIN p = 1 .. Len(p) /\ DOMAIN q = 1 .. Len(q)
    OBVIOUS
  <1>2. /\ p \o q \in Seq(T) /\ Len(p \o q) = Len(p) + Len(q)
        /\ \A i \in 1 .. Len(p) + Len(q) : (p \o q)[i] = IF i <= Len(p) THEN p[i] ELSE q[i - Len(p)]
    BY ConcatProperties
  <1>3. DOMAIN (p \o q) = 1 .. Len(p) + Len(q)
    BY <1>2
  <1>5. q # <<>> => p \o q # p
    BY ConcatEqualIffEmpty
  <1>6. ASSUME NEW i \in DOMAIN (p \o q)
        PROVE  \/ i \in DOMAIN p /\ (p \o q)[i] = p[i]
               \/ \E j \in DOMAIN q : (p \o q)[i] = q[j]
    <2>1. CASE i <= Len(p)
      BY <1>1, <1>2, <1>3, <1>6, <2>1
    <2>2. CASE ~(i <= Len(p))
      <3>1. i - Len(p) \in DOMAIN q /\ (p \o q)[i] = q[i - Len(p)]
        BY <1>1, <1>2, <1>3, <1>6, <2>2
      <3> QED
        BY <3>1
    <2> QED
      BY <2>1, <2>2
  <1> QED
    BY <1>2, <1>5, <1>6

\* The end of a sequence from a place on.
LEMMA RestAt ==
  ASSUME NEW T, NEW q \in Seq(T), NEW a \in Nat
  PROVE  /\ SubSeq(q, a + 1, Len(q)) \in Seq(T)
         /\ \A i \in DOMAIN SubSeq(q, a + 1, Len(q)) : \E j \in DOMAIN q : SubSeq(q, a + 1, Len(q))[i] = q[j]
         /\ SubSeq(q, a + 1, Len(q)) # <<>> => a < Len(q)
  <1>1. Len(q) \in Nat /\ DOMAIN q = 1 .. Len(q) /\ a + 1 \in Int /\ Len(q) \in Int
    OBVIOUS
  <1>2. \A i \in a + 1 .. Len(q) : q[i] \in T
    BY <1>1, ElementAt
  <1>3. /\ SubSeq(q, a + 1, Len(q)) \in Seq(T)
        /\ Len(SubSeq(q, a + 1, Len(q))) = IF a + 1 <= Len(q) THEN Len(q) - (a + 1) + 1 ELSE 0
        /\ \A i \in 1 .. Len(q) - (a + 1) + 1 : SubSeq(q, a + 1, Len(q))[i] = q[(a + 1) + i - 1]
    BY <1>1, <1>2, SubSeqProperties
  <1>4. DOMAIN SubSeq(q, a + 1, Len(q)) = 1 .. Len(SubSeq(q, a + 1, Len(q)))
    BY <1>3
  <1>5. ASSUME NEW i \in DOMAIN SubSeq(q, a + 1, Len(q))
        PROVE  \E j \in DOMAIN q : SubSeq(q, a + 1, Len(q))[i] = q[j]
    <2>1. i \in 1 .. Len(q) - (a + 1) + 1 /\ (a + 1) + i - 1 \in DOMAIN q
      BY <1>1, <1>3, <1>4, <1>5
    <2> QED
      BY <1>3, <2>1
  <1>6. ASSUME ~(a < Len(q)) PROVE SubSeq(q, a + 1, Len(q)) = <<>>
    BY <1>1, <1>3, <1>6, EmptySeq
  <1> QED
    BY <1>3, <1>5, <1>6

-----------------------------------------------------------------------------
(* The type invariant, by the parts that a step touches.                   *)

ReqRecs   == [kind : {"message", "attach", "answer"}, sid : Sessions, turn : Turns \cup {None},
              then : BOOLEAN, list : Seq(Entries)]
ServRecs  == [kind : {"none", "attach", "answer"}, sid : Sessions \cup {None},
              turn : Turns \cup {None}, then : BOOLEAN, list : Seq(Entries)]
FrameRecs == [kind : {"text", "tool", "system", "ask", "done", "error", "attached", "answered"},
              sid : Sessions, part : Parts \cup {NoAsk}, list : Seq(Entries), then : BOOLEAN]
SyncRecs  == [pc : {"none", "asked", "answered"}, sid : Sessions \cup {None}, after : Nat, list : Seq(Entries)]
TurnRecs  == [pc : {"new", "sent", "run", "ask", "over"}, src : Socks \cup {0},
              sid : Sessions \cup {None}, events : Nat]

ViewOK == /\ cur \in Sessions \cup {None} /\ messages \in Seq(Entries) /\ gen \in BOOLEAN
          /\ bubble \in [turn : Turns, text : Seq(Parts)] \cup {NoBubble} /\ ask \in Parts \cup {NoAsk}
SockOK == sock \in {"open", "closing", "closed"} /\ nr \in Socks /\ recall \in Sessions \cup {None}
WireOK == /\ reqs \in Seq(ReqRecs) /\ serving \in ServRecs /\ frames \in Seq(FrameRecs)
          /\ sock # "open" => reqs = <<>> /\ serving = NoRequest /\ frames = <<>>
SyncOK == sync \in [Socks -> SyncRecs]
TurnOK == turn \in [Turns -> TurnRecs]
StoreOK == answer \in [Turns -> Seq(Parts)] /\ history \in [Sessions -> Seq(Entries)]
RestOK == trouble \in SUBSET Causes

LEMMA TypeParts == TypeOK => ViewOK /\ SockOK /\ WireOK /\ SyncOK /\ TurnOK /\ StoreOK /\ RestOK
  <1> SUFFICES ASSUME TypeOK PROVE ViewOK /\ SockOK /\ WireOK /\ SyncOK /\ TurnOK /\ StoreOK /\ RestOK
    OBVIOUS
  <1>1. ViewOK /\ SockOK /\ SyncOK /\ TurnOK /\ StoreOK /\ RestOK
    BY DEF TypeOK, ViewOK, SockOK, SyncOK, TurnOK, StoreOK, RestOK, SyncRecs, TurnRecs
  <1>2. reqs \in Seq(ReqRecs) /\ serving \in ServRecs /\ frames \in Seq(FrameRecs)
    BY DEF TypeOK, ReqRecs, ServRecs, FrameRecs
  <1>3. ASSUME sock # "open" PROVE reqs = <<>> /\ serving = NoRequest /\ frames = <<>>
    <2>1. Pending = {NoRequest} /\ Coming = {}
      BY <1>3 DEF TypeOK
    <2>2. serving = NoRequest
      BY <2>1 DEF Pending
    <2>3. reqs = <<>>
      <3> SUFFICES ASSUME reqs # <<>> PROVE FALSE
        OBVIOUS
      <3>1. 1 \in DOMAIN reqs
        BY <1>2, TailAt
      <3>2. reqs[1] = NoRequest
        BY <2>1, <3>1 DEF Pending
      <3>3. reqs[1].kind \in {"message", "attach", "answer"}
        <4>1. reqs[1] \in ReqRecs
          BY <1>2, <3>1, ElementAt
        <4> QED
          BY <4>1 DEF ReqRecs
      <3> QED
        BY <3>2, <3>3 DEF NoRequest, Request
    <2>4. frames = <<>>
      <3> SUFFICES ASSUME frames # <<>> PROVE FALSE
        OBVIOUS
      <3>1. 1 \in DOMAIN frames
        BY <1>2, TailAt
      <3> QED
        BY <2>1, <3>1 DEF Coming
    <2> QED
      BY <2>2, <2>3, <2>4
  <1> QED
    BY <1>1, <1>2, <1>3 DEF WireOK

\* The converse, of a later state.
LEMMA PartsType ==
  ASSUME ViewOK', SockOK', WireOK', SyncOK', TurnOK', StoreOK', RestOK'
  PROVE  TypeOK'
  <1>1. sock' # "open" => Pending' = {NoRequest}
    <2> SUFFICES ASSUME sock' # "open" PROVE Pending' = {NoRequest}
      OBVIOUS
    <2>1. reqs' = <<>> /\ serving' = NoRequest
      BY DEF WireOK
    <2>2. DOMAIN <<>> = {}
      OBVIOUS
    <2> QED
      BY <2>1, <2>2 DEF Pending
  <1>2. sock' # "open" => Coming' = {}
    <2> SUFFICES ASSUME sock' # "open" PROVE Coming' = {}
      OBVIOUS
    <2>1. frames' = <<>>
      BY DEF WireOK
    <2>2. DOMAIN <<>> = {}
      OBVIOUS
    <2> QED
      BY <2>1, <2>2 DEF Coming
  <1> QED
    BY <1>1, <1>2 DEF TypeOK, ViewOK, SockOK, WireOK, SyncOK, TurnOK, StoreOK, RestOK,
                      ReqRecs, ServRecs, FrameRecs, SyncRecs, TurnRecs

\* What is on its way, by its indices.
LEMMA AttachingAt ==
  /\ Attaching <=> \/ \E i \in DOMAIN reqs : reqs[i].kind = "attach"
                   \/ serving.kind = "attach"
                   \/ \E i \in DOMAIN frames : frames[i].kind = "attached"
  /\ Attaching' <=> \/ \E i \in DOMAIN reqs' : reqs'[i].kind = "attach"
                    \/ serving'.kind = "attach"
                    \/ \E i \in DOMAIN frames' : frames'[i].kind = "attached"
  BY DEF Attaching, Pending, Coming

-----------------------------------------------------------------------------
(* What the actions do, and that they keep the types.                      *)

\* Sequence p is q with e added at its end, or without its head; function u is
\* t with one turn's pc moved on.
Added(q, p, e) ==
  /\ Len(q) \in Nat /\ DOMAIN q = 1 .. Len(q) /\ DOMAIN p = 1 .. Len(q) + 1
  /\ \A i \in DOMAIN q : i \in DOMAIN p /\ p[i] = q[i]
  /\ Len(q) + 1 \in DOMAIN p /\ p[Len(q) + 1] = e
  /\ \A i \in DOMAIN p : (i \in DOMAIN q /\ p[i] = q[i]) \/ (i = Len(q) + 1 /\ p[i] = e)
Taken(q, p) ==
  /\ Len(q) \in Nat \ {0} /\ DOMAIN q = 1 .. Len(q) /\ DOMAIN p = 1 .. Len(q) - 1
  /\ Head(q) = q[1] /\ 1 \in DOMAIN q
  /\ \A i \in DOMAIN p : i + 1 \in DOMAIN q /\ p[i] = q[i + 1]
  /\ \A i \in DOMAIN q : i # 1 => i - 1 \in DOMAIN p /\ p[i - 1] = q[i]
Moved(t, u, m, c) ==
  /\ \A h \in Turns \ {m} : u[h] = t[h]
  /\ u[m].pc = c /\ u[m].src = t[m].src /\ u[m].sid = t[m].sid /\ u[m].events = t[m].events

LEMMA AppendAdds ==
  ASSUME NEW T, NEW q \in Seq(T), NEW e \in T
  PROVE  Append(q, e) \in Seq(T) /\ Added(q, Append(q, e), e)
  <1>1. /\ Append(q, e) \in Seq(T) /\ Len(q) \in Nat /\ DOMAIN q = 1 .. Len(q)
        /\ DOMAIN Append(q, e) = 1 .. Len(q) + 1
        /\ \A i \in DOMAIN q : Append(q, e)[i] = q[i]
        /\ Append(q, e)[Len(q) + 1] = e
    BY AppendAt
  <1>2. PICK p : p = Append(q, e)
    OBVIOUS
  <1>3. Added(q, p, e)
    BY <1>1, <1>2 DEF Added
  <1> QED
    BY <1>1, <1>2, <1>3

LEMMA TailTakes ==
  ASSUME NEW T, NEW q \in Seq(T), q # <<>>
  PROVE  Tail(q) \in Seq(T) /\ Taken(q, Tail(q)) /\ q[1] \in T
  BY TailAt DEF Taken

LEMMA PcMoves ==
  ASSUME NEW t \in [Turns -> TurnRecs], NEW m \in Turns, NEW c \in {"new", "sent", "run", "ask", "over"}
  PROVE  [t EXCEPT ![m].pc = c] \in [Turns -> TurnRecs] /\ Moved(t, [t EXCEPT ![m].pc = c], m, c)
  BY DEF TurnRecs, Moved

\* The records that the actions make are of their types.
LEMMA Made ==
  /\ \A k \in {"message", "attach", "answer"}, s \in Sessions, m \in Turns \cup {None}, then \in BOOLEAN :
       Request(k, s, m, then) \in ReqRecs
  /\ NoRequest \in ServRecs
  /\ \A k \in {"text", "tool", "system", "ask", "done", "error", "attached", "answered"}, s \in Sessions,
        p \in Parts \cup {NoAsk}, l \in Seq(Entries), then \in BOOLEAN : Frame(k, s, p, l, then) \in FrameRecs
  /\ \A m \in Turns, n \in Nat : Part(m, n) \in Parts
  /\ \A by \in {"client", "server"}, role \in {"user", "assistant", "system"}, m \in Turns, l \in Seq(Parts) :
       Entry(by, role, m, l) \in Entries
  /\ NoSync \in SyncRecs
  <1>1. <<>> \in Seq(Entries) /\ FALSE \in BOOLEAN
    OBVIOUS
  <1>2. \A k \in {"message", "attach", "answer"}, s \in Sessions, m \in Turns \cup {None}, then \in BOOLEAN :
          Request(k, s, m, then) \in ReqRecs
    BY <1>1 DEF Request, ReqRecs
  <1>3. NoRequest \in ServRecs
    BY <1>1 DEF NoRequest, Request, ServRecs
  <1>4. \A k \in {"text", "tool", "system", "ask", "done", "error", "attached", "answered"}, s \in Sessions,
           p \in Parts \cup {NoAsk}, l \in Seq(Entries), then \in BOOLEAN : Frame(k, s, p, l, then) \in FrameRecs
    BY DEF Frame, FrameRecs
  <1>5. \A m \in Turns, n \in Nat : Part(m, n) \in Parts
    BY DEF Part, Parts
  <1>6. \A by \in {"client", "server"}, role \in {"user", "assistant", "system"}, m \in Turns, l \in Seq(Parts) :
          Entry(by, role, m, l) \in Entries
    BY DEF Entry, Entries
  <1>7. NoSync \in SyncRecs
    BY <1>1 DEF NoSync, SyncRecs
  <1> QED
    BY <1>2, <1>3, <1>4, <1>5, <1>6, <1>7

LEMMA Noted ==
  ASSUME RestOK, NEW c \in Causes, NEW b, Note(c, b)
  PROVE  RestOK' /\ trouble \subseteq trouble' /\ (b => c \in trouble')
  BY DEF RestOK, Note

\* Entry e is the last one of a session in g, which else is h.
Logged(h, g, s, e) == (\A z \in Sessions \ {s} : g[z] = h[z]) /\ Added(h[s], g[s], e)

LEMMA AppendLogs ==
  ASSUME NEW h \in [Sessions -> Seq(Entries)], NEW s \in Sessions, NEW e \in Entries
  PROVE  /\ [h EXCEPT ![s] = Append(@, e)] \in [Sessions -> Seq(Entries)]
         /\ Logged(h, [h EXCEPT ![s] = Append(@, e)], s, e)
  <1>1. PICK q \in Seq(Entries) : q = h[s]
    OBVIOUS
  <1>2. PICK p : p = Append(q, e)
    OBVIOUS
  <1>3. p \in Seq(Entries) /\ Added(q, p, e)
    BY <1>1, <1>2, AppendAdds
  <1>4. [h EXCEPT ![s] = Append(@, e)] = [h EXCEPT ![s] = p]
    BY <1>1, <1>2
  <1> QED
    BY <1>1, <1>3, <1>4 DEF Logged

LEMMA SendEffect ==
  ASSUME IInv, NEW m \in Turns, Send(m)
  PROVE  /\ TypeOK' /\ cur \in Sessions
         /\ Added(messages, messages', Entry("client", "user", m, <<>>))
         /\ \A h \in Turns \ {m} : turn'[h] = turn[h]
         /\ turn'[m].pc = "sent" /\ turn'[m].sid = cur /\ turn'[m].src = IF sock = "open" THEN nr ELSE 0
         /\ sock = "open" => Added(reqs, reqs', Request("message", cur, m, FALSE))
         /\ sock # "open" => reqs' = reqs
         /\ trouble \subseteq trouble'
         /\ Attaching => "left" \in trouble'
         /\ sock # "open" => "untold" \in trouble'
         /\ trouble' \ trouble \subseteq {"left", "untold"}
         /\ gen' = TRUE /\ ~gen /\ turn[m].pc = "new"
         /\ UNCHANGED <<cur, bubble, ask, sock, nr, serving, frames, sync, answer, history>>
  <1> USE DEF IInv
  <1>t. ViewOK /\ SockOK /\ WireOK /\ SyncOK /\ TurnOK /\ StoreOK /\ RestOK
    BY TypeParts
  <1>1. cur \in Sessions /\ cur' = cur /\ bubble' = bubble /\ ask' = ask /\ gen' = TRUE
    BY <1>t DEF Send, ViewOK
  <1>2. UNCHANGED <<sock, nr, recall, serving, frames, sync, answer, history>>
    BY DEF Send, sockVars
  <1>3. messages' = Append(messages, Entry("client", "user", m, <<>>))
    BY DEF Send
  <1>4. <<>> \in Seq(Parts) /\ FALSE \in BOOLEAN
    OBVIOUS
  <1>5. messages' \in Seq(Entries) /\ Added(messages, messages', Entry("client", "user", m, <<>>))
    <2>1. Entry("client", "user", m, <<>>) \in Entries
      BY <1>4, Made
    <2> QED
      BY <1>3, <1>t, <2>1, AppendAdds DEF ViewOK
  <1>6. turn' = [turn EXCEPT ![m] = [@ EXCEPT !.pc = "sent", !.sid = cur, !.src = IF sock = "open" THEN nr ELSE 0]]
    BY DEF Send
  <1>7. /\ TurnOK' /\ \A h \in Turns \ {m} : turn'[h] = turn[h]
        /\ turn'[m].pc = "sent" /\ turn'[m].sid = cur /\ turn'[m].src = IF sock = "open" THEN nr ELSE 0
    <2>1. (IF sock = "open" THEN nr ELSE 0) \in Socks \cup {0}
      BY <1>t DEF SockOK
    <2>2. PICK k \in Socks \cup {0} : k = IF sock = "open" THEN nr ELSE 0
      BY <2>1
    <2>3. turn' = [turn EXCEPT ![m] = [@ EXCEPT !.pc = "sent", !.sid = cur, !.src = k]]
      BY <1>6, <2>2
    <2> QED
      BY <1>t, <1>1, <2>2, <2>3 DEF TurnOK, TurnRecs
  <1>8. /\ sock = "open" => reqs' \in Seq(ReqRecs) /\ Added(reqs, reqs', Request("message", cur, m, FALSE))
        /\ sock # "open" => reqs' = reqs
    <2>1. Request("message", cur, m, FALSE) \in ReqRecs
      BY <1>1, <1>4, Made
    <2>2. sock = "open" => reqs' = Append(reqs, Request("message", cur, m, FALSE))
      BY DEF Send
    <2>3. sock # "open" => reqs' = reqs
      BY DEF Send
    <2> QED
      BY <1>t, <2>1, <2>2, <2>3, AppendAdds DEF WireOK
  <1>9. WireOK'
    BY <1>2, <1>8, <1>t DEF WireOK
  <1>10. trouble' = trouble \cup {c \in {"left"} : Attaching} \cup {c \in {"untold"} : sock # "open"}
    BY DEF Send
  <1>11. RestOK'
    BY <1>10, <1>t DEF RestOK, Causes
  <1>12. ViewOK' /\ SockOK' /\ SyncOK' /\ StoreOK'
    BY <1>t, <1>1, <1>2, <1>5 DEF ViewOK, SockOK, SyncOK, StoreOK
  <1>13. TypeOK'
    BY <1>7, <1>9, <1>11, <1>12, PartsType
  <1>14. ~gen /\ turn[m].pc = "new"
    BY DEF Send
  <1> QED
    BY <1>1, <1>2, <1>5, <1>7, <1>8, <1>10, <1>13, <1>14

LEMMA SelectEffect ==
  ASSUME IInv, NEW s \in Sessions, Select(s)
  PROVE  /\ TypeOK' /\ sock = "open" /\ ~Attaching
         /\ Added(reqs, reqs', Request("attach", s, None, FALSE))
         /\ trouble \subseteq trouble' /\ (gen => "left" \in trouble')
         /\ UNCHANGED <<cur, messages, gen, bubble, ask, sock, nr, recall, serving, frames, sync, turn, answer, history>>
  <1> USE DEF IInv
  <1>t. ViewOK /\ SockOK /\ WireOK /\ SyncOK /\ TurnOK /\ StoreOK /\ RestOK
    BY TypeParts
  <1>1. UNCHANGED <<cur, messages, gen, bubble, ask, sock, nr, recall, serving, frames, sync, turn, answer, history>>
    BY DEF Select, viewVars, sockVars, serverVars
  <1>2. sock = "open" /\ ~Attaching /\ reqs' = Append(reqs, Request("attach", s, None, FALSE)) /\ Note("left", gen)
    BY DEF Select
  <1>3. reqs' \in Seq(ReqRecs) /\ Added(reqs, reqs', Request("attach", s, None, FALSE))
    <2>1. Request("attach", s, None, FALSE) \in ReqRecs
      BY Made
    <2> QED
      BY <1>t, <1>2, <2>1, AppendAdds DEF WireOK
  <1>4. RestOK' /\ trouble \subseteq trouble' /\ (gen => "left" \in trouble')
    BY <1>t, <1>2, Noted DEF Causes
  <1>5. ViewOK' /\ SockOK' /\ WireOK' /\ SyncOK' /\ TurnOK' /\ StoreOK'
    BY <1>t, <1>1, <1>2, <1>3 DEF ViewOK, SockOK, WireOK, SyncOK, TurnOK, StoreOK
  <1>6. TypeOK'
    BY <1>4, <1>5, PartsType
  <1> QED
    BY <1>1, <1>2, <1>3, <1>4, <1>6

LEMMA RespondEffect ==
  ASSUME IInv, Respond
  PROVE  /\ TypeOK' /\ sock = "open" /\ ask.of \in Turns
         /\ Added(reqs, reqs', Request("answer", cur, ask.of, FALSE))
         /\ UNCHANGED <<cur, messages, gen, bubble, ask, sock, nr, recall, serving, frames, sync, turn, answer, history, trouble>>
  <1> USE DEF IInv
  <1>t. ViewOK /\ SockOK /\ WireOK /\ SyncOK /\ TurnOK /\ StoreOK /\ RestOK
    BY TypeParts
  <1>1. UNCHANGED <<cur, messages, gen, bubble, ask, sock, nr, recall, serving, frames, sync, turn, answer, history, trouble>>
    BY DEF Respond, viewVars, sockVars, serverVars
  <1>2. sock = "open" /\ cur \in Sessions /\ ask.of \in Turns /\ reqs' = Append(reqs, Request("answer", cur, ask.of, FALSE))
    BY <1>t DEF Respond, ViewOK, Parts
  <1>3. reqs' \in Seq(ReqRecs) /\ Added(reqs, reqs', Request("answer", cur, ask.of, FALSE))
    <2>1. Request("answer", cur, ask.of, FALSE) \in ReqRecs
      BY <1>2, Made
    <2> QED
      BY <1>t, <1>2, <2>1, AppendAdds DEF WireOK
  <1>5. ViewOK' /\ SockOK' /\ WireOK' /\ SyncOK' /\ TurnOK' /\ StoreOK' /\ RestOK'
    BY <1>t, <1>1, <1>2, <1>3 DEF ViewOK, SockOK, WireOK, SyncOK, TurnOK, StoreOK, RestOK
  <1>6. TypeOK'
    BY <1>5, PartsType
  <1> QED
    BY <1>1, <1>2, <1>3, <1>6

LEMMA LogoutEffect ==
  ASSUME IInv, Logout
  PROVE  /\ TypeOK' /\ sock' = "closed" /\ cur' = None /\ messages' = <<>>
         /\ reqs' = <<>> /\ serving' = NoRequest /\ frames' = <<>>
         /\ trouble \subseteq trouble' /\ (gen => "untold" \in trouble')
         /\ UNCHANGED <<gen, bubble, ask, nr, sync, turn, answer, history>>
  <1> USE DEF IInv
  <1>t. ViewOK /\ SockOK /\ WireOK /\ SyncOK /\ TurnOK /\ StoreOK /\ RestOK
    BY TypeParts
  <1>1. UNCHANGED <<gen, bubble, ask, nr, sync, turn, answer, history>>
    BY DEF Logout, serverVars
  <1>2. /\ sock' = "closed" /\ recall' = None /\ cur' = None /\ messages' = <<>>
        /\ reqs' = <<>> /\ serving' = NoRequest /\ frames' = <<>> /\ Note("untold", gen \/ bubble # NoBubble)
    BY DEF Logout
  <1>3. <<>> \in Seq(Entries) /\ <<>> \in Seq(ReqRecs) /\ <<>> \in Seq(FrameRecs)
    OBVIOUS
  <1>4. RestOK' /\ trouble \subseteq trouble' /\ (gen => "untold" \in trouble')
    BY <1>t, <1>2, Noted DEF Causes
  <1>5. ViewOK' /\ SockOK' /\ WireOK' /\ SyncOK' /\ TurnOK' /\ StoreOK'
    BY <1>t, <1>1, <1>2, <1>3, Made DEF ViewOK, SockOK, WireOK, SyncOK, TurnOK, StoreOK
  <1>6. TypeOK'
    BY <1>4, <1>5, PartsType
  <1> QED
    BY <1>1, <1>2, <1>4, <1>6

LEMMA ClosingEffect ==
  ASSUME IInv, Closing
  PROVE  /\ TypeOK' /\ sock' = "closing"
         /\ reqs' = <<>> /\ serving' = NoRequest /\ frames' = <<>>
         /\ trouble \subseteq trouble' /\ (gen => "untold" \in trouble')
         /\ UNCHANGED <<cur, messages, gen, bubble, ask, nr, recall, sync, turn, answer, history>>
  <1> USE DEF IInv
  <1>t. ViewOK /\ SockOK /\ WireOK /\ SyncOK /\ TurnOK /\ StoreOK /\ RestOK
    BY TypeParts
  <1>1. UNCHANGED <<cur, messages, gen, bubble, ask, nr, recall, sync, turn, answer, history>>
    BY DEF Closing, viewVars, serverVars
  <1>2. sock' = "closing" /\ reqs' = <<>> /\ serving' = NoRequest /\ frames' = <<>> /\ Note("untold", gen)
    BY DEF Closing
  <1>3. <<>> \in Seq(ReqRecs) /\ <<>> \in Seq(FrameRecs)
    OBVIOUS
  <1>4. RestOK' /\ trouble \subseteq trouble' /\ (gen => "untold" \in trouble')
    BY <1>t, <1>2, Noted DEF Causes
  <1>5. ViewOK' /\ SockOK' /\ WireOK' /\ SyncOK' /\ TurnOK' /\ StoreOK'
    BY <1>t, <1>1, <1>2, <1>3, Made DEF ViewOK, SockOK, WireOK, SyncOK, TurnOK, StoreOK
  <1>6. TypeOK'
    BY <1>4, <1>5, PartsType
  <1> QED
    BY <1>1, <1>2, <1>4, <1>6

LEMMA OnCloseEffect ==
  ASSUME IInv, OnClose
  PROVE  /\ TypeOK' /\ sock = "closing" /\ sock' = "closed"
         /\ UNCHANGED <<cur, messages, gen, bubble, ask, nr, reqs, serving, frames, sync, turn, answer, history, trouble>>
  <1> USE DEF IInv
  <1>t. ViewOK /\ SockOK /\ WireOK /\ SyncOK /\ TurnOK /\ StoreOK /\ RestOK
    BY TypeParts
  <1>1. UNCHANGED <<cur, messages, gen, bubble, ask, nr, reqs, serving, frames, sync, turn, answer, history, trouble>>
    BY DEF OnClose, viewVars, wireVars, serverVars
  <1>2. sock = "closing" /\ sock' = "closed" /\ recall' = cur
    BY DEF OnClose
  <1>5. ViewOK' /\ SockOK' /\ WireOK' /\ SyncOK' /\ TurnOK' /\ StoreOK' /\ RestOK'
    BY <1>t, <1>1, <1>2 DEF ViewOK, SockOK, WireOK, SyncOK, TurnOK, StoreOK, RestOK
  <1>6. TypeOK'
    BY <1>5, PartsType
  <1> QED
    BY <1>1, <1>2, <1>6

LEMMA ReopenEffect ==
  ASSUME IInv, Reopen
  PROVE  /\ TypeOK' /\ sock = "closed" /\ sock' = "open" /\ nr' = nr + 1
         /\ reqs = <<>> /\ frames = <<>>
         /\ \A i \in DOMAIN reqs' : reqs'[i].kind = "attach"
         /\ UNCHANGED <<cur, messages, gen, bubble, ask, serving, frames, sync, turn, answer, history, trouble>>
  <1> USE DEF IInv
  <1>t. ViewOK /\ SockOK /\ WireOK /\ SyncOK /\ TurnOK /\ StoreOK /\ RestOK
    BY TypeParts
  <1>1. UNCHANGED <<cur, messages, gen, bubble, ask, serving, frames, sync, turn, answer, history, trouble>>
    BY DEF Reopen, viewVars, serverVars
  <1>2. /\ sock = "closed" /\ sock' = "open" /\ nr' = nr + 1 /\ nr < MaxSocks /\ recall' = None
        /\ \/ reqs' = reqs
           \/ recall # None /\ reqs' = Append(reqs, Request("attach", recall, None, TRUE))
    BY DEF Reopen
  <1>3. reqs = <<>> /\ frames = <<>>
    BY <1>t, <1>2 DEF WireOK
  <1>4. reqs' \in Seq(ReqRecs) /\ \A i \in DOMAIN reqs' : reqs'[i].kind = "attach"
    <2>1. DOMAIN <<>> = {}
      OBVIOUS
    <2>2. CASE reqs' = reqs
      BY <1>t, <1>3, <2>1, <2>2 DEF WireOK
    <2>3. CASE recall # None /\ reqs' = Append(reqs, Request("attach", recall, None, TRUE))
      <3>1. Request("attach", recall, None, TRUE) \in ReqRecs
        BY <1>t, <2>3, Made DEF SockOK
      <3>2. reqs' = Append(reqs, Request("attach", recall, None, TRUE))
        BY <2>3
      <3>3. reqs' \in Seq(ReqRecs) /\ Added(reqs, reqs', Request("attach", recall, None, TRUE))
        BY <1>t, <3>1, <3>2, AppendAdds DEF WireOK
      <3> QED
        BY <1>3, <2>1, <3>3 DEF Added, Request
    <2> QED
      BY <1>2, <2>2, <2>3
  <1>5. SockOK'
    BY <1>t, <1>1, <1>2, BoundsNat DEF SockOK, Socks
  <1>6. ViewOK' /\ WireOK' /\ SyncOK' /\ TurnOK' /\ StoreOK' /\ RestOK'
    BY <1>t, <1>1, <1>2, <1>4 DEF ViewOK, WireOK, SyncOK, TurnOK, StoreOK, RestOK
  <1>7. TypeOK'
    BY <1>5, <1>6, PartsType
  <1> QED
    BY <1>1, <1>2, <1>3, <1>4, <1>7

LEMMA ServeEffect ==
  ASSUME IInv, Serve
  PROVE  /\ TypeOK' /\ Taken(reqs, reqs') /\ serving = NoRequest /\ reqs[1] \in ReqRecs
         /\ \/ /\ reqs[1].kind = "attach"
               /\ serving'.kind = "attach" /\ serving'.sid = reqs[1].sid /\ serving'.list = history[reqs[1].sid]
               /\ turn' = turn /\ history' = history
            \/ /\ reqs[1].kind = "answer" /\ reqs[1].turn \in Turns
               /\ serving' = reqs[1] /\ history' = history
               /\ turn' = turn \/ (turn[reqs[1].turn].pc = "ask" /\ Moved(turn, turn', reqs[1].turn, "run"))
            \/ /\ reqs[1].kind = "message" /\ reqs[1].turn \in Turns /\ turn[reqs[1].turn].pc = "sent"
               /\ serving' = NoRequest /\ Moved(turn, turn', reqs[1].turn, "run")
               /\ Logged(history, history', reqs[1].sid, Entry("server", "user", reqs[1].turn, <<>>))
         /\ UNCHANGED <<cur, messages, gen, bubble, ask, sock, nr, frames, sync, answer, trouble>>
  <1> USE DEF IInv
  <1>t. ViewOK /\ SockOK /\ WireOK /\ SyncOK /\ TurnOK /\ StoreOK /\ RestOK
    BY TypeParts
  <1>1. UNCHANGED <<cur, messages, gen, bubble, ask, sock, nr, recall, frames, sync, answer, trouble>>
    BY DEF Serve, viewVars, sockVars
  <1>2. serving = NoRequest /\ reqs # <<>> /\ reqs' = Tail(reqs)
    BY DEF Serve
  <1>3. reqs' \in Seq(ReqRecs) /\ Taken(reqs, reqs') /\ reqs[1] \in ReqRecs
    BY <1>t, <1>2, TailTakes DEF WireOK
  <1>4. PICK r \in ReqRecs : r = reqs[1]
    BY <1>3
  <1>5. Head(reqs) = r /\ 1 \in DOMAIN reqs
    BY <1>3, <1>4 DEF Taken
  <1>6. /\ serving' = CASE r.kind = "attach" -> [r EXCEPT !.list = history[r.sid]]
                        [] r.kind = "answer" -> r
                        [] r.kind = "message" -> NoRequest
        /\ turn' = CASE r.kind = "message" -> [turn EXCEPT ![r.turn].pc = "run"]
                     [] r.kind = "answer" /\ turn[r.turn].pc = "ask" -> [turn EXCEPT ![r.turn].pc = "run"]
                     [] OTHER -> turn
        /\ history' = IF r.kind = "message"
                        THEN [history EXCEPT ![r.sid] = Append(@, Entry("server", "user", r.turn, <<>>))]
                        ELSE history
    BY <1>5 DEF Serve
  <1>7. r.kind \in {"message", "attach", "answer"} /\ r.sid \in Sessions /\ r.list \in Seq(Entries)
    BY DEF ReqRecs
  <1>8. (r.kind # "attach" => r.turn \in Turns) /\ (r.kind = "message" => turn[r.turn].pc = "sent")
    BY <1>4, <1>5 DEF Wire, WireReqs
  <1>9. sock' = "open"
    <2>1. sock = "open"
      BY <1>t, <1>2 DEF WireOK
    <2> QED
      BY <1>1, <2>1
  <1>10. CASE r.kind = "attach"
    <2>1. serving' = [r EXCEPT !.list = history[r.sid]] /\ turn' = turn /\ history' = history
      BY <1>6, <1>10
    <2>2. history[r.sid] \in Seq(Entries)
      BY <1>t, <1>7 DEF StoreOK
    <2>3. serving' \in ServRecs /\ serving'.kind = "attach" /\ serving'.sid = r.sid /\ serving'.list = history[r.sid]
      BY <1>10, <2>1, <2>2 DEF ReqRecs, ServRecs
    <2>4. ViewOK' /\ SockOK' /\ WireOK' /\ SyncOK' /\ TurnOK' /\ StoreOK' /\ RestOK'
      BY <1>t, <1>1, <1>3, <1>9, <2>1, <2>3 DEF ViewOK, SockOK, WireOK, SyncOK, TurnOK, StoreOK, RestOK
    <2>5. TypeOK'
      BY <2>4, PartsType
    <2> QED
      BY <1>1, <1>2, <1>3, <1>4, <1>10, <2>1, <2>3, <2>5
  <1>11. CASE r.kind = "answer"
    <2>1. serving' = r /\ history' = history
      BY <1>6, <1>11
    <2>2. turn' = turn \/ (turn[r.turn].pc = "ask" /\ turn' = [turn EXCEPT ![r.turn].pc = "run"])
      BY <1>6, <1>11
    <2>3. TurnOK' /\ (turn' = turn \/ (turn[r.turn].pc = "ask" /\ Moved(turn, turn', r.turn, "run")))
      <3>1. CASE turn' = turn
        BY <1>t, <3>1 DEF TurnOK
      <3>2. CASE turn[r.turn].pc = "ask" /\ turn' = [turn EXCEPT ![r.turn].pc = "run"]
        <4>1. r.turn \in Turns
          BY <1>8, <1>11
        <4> QED
          BY <1>t, <3>2, <4>1, PcMoves DEF TurnOK
      <3> QED
        BY <2>2, <3>1, <3>2
    <2>4. serving' \in ServRecs
      BY <1>11, <2>1 DEF ReqRecs, ServRecs
    <2>5. ViewOK' /\ SockOK' /\ WireOK' /\ SyncOK' /\ StoreOK' /\ RestOK'
      BY <1>t, <1>1, <1>3, <1>9, <2>1, <2>4 DEF ViewOK, SockOK, WireOK, SyncOK, StoreOK, RestOK
    <2>6. TypeOK'
      BY <2>3, <2>5, PartsType
    <2> QED
      BY <1>1, <1>2, <1>3, <1>4, <1>8, <1>11, <2>1, <2>3, <2>6
  <1>12. CASE r.kind = "message"
    <2>1. /\ serving' = NoRequest /\ turn' = [turn EXCEPT ![r.turn].pc = "run"]
          /\ history' = [history EXCEPT ![r.sid] = Append(@, Entry("server", "user", r.turn, <<>>))]
      BY <1>6, <1>12
    <2>2. TurnOK' /\ Moved(turn, turn', r.turn, "run")
      BY <1>t, <1>8, <1>12, <2>1, PcMoves DEF TurnOK
    <2>3. Entry("server", "user", r.turn, <<>>) \in Entries
      <3>1. <<>> \in Seq(Parts)
        OBVIOUS
      <3> QED
        BY <1>8, <1>12, <3>1, Made
    <2>4. StoreOK' /\ Logged(history, history', r.sid, Entry("server", "user", r.turn, <<>>))
      BY <1>t, <1>1, <1>7, <2>1, <2>3, AppendLogs DEF StoreOK
    <2>5. ViewOK' /\ SockOK' /\ WireOK' /\ SyncOK' /\ RestOK'
      BY <1>t, <1>1, <1>3, <1>9, <2>1, Made DEF ViewOK, SockOK, WireOK, SyncOK, RestOK
    <2>6. TypeOK'
      BY <2>2, <2>4, <2>5, PartsType
    <2> QED
      BY <1>1, <1>2, <1>3, <1>4, <1>8, <1>12, <2>1, <2>2, <2>4, <2>6
  <1> QED
    BY <1>7, <1>10, <1>11, <1>12

LEMMA ServeReplyEffect ==
  ASSUME IInv, ServeReply
  PROVE  /\ TypeOK' /\ serving # NoRequest /\ serving' = NoRequest
         /\ \E f \in FrameRecs :
              /\ Added(frames, frames', f)
              /\ \/ serving.kind = "attach" /\ f.kind = "attached" /\ f.sid = serving.sid /\ f.list = serving.list
                 \/ serving.kind = "answer" /\ f.kind = "answered"
         /\ UNCHANGED <<cur, messages, gen, bubble, ask, sock, nr, reqs, sync, turn, answer, history, trouble>>
  <1> USE DEF IInv
  <1>t. ViewOK /\ SockOK /\ WireOK /\ SyncOK /\ TurnOK /\ StoreOK /\ RestOK
    BY TypeParts
  <1>1. UNCHANGED <<cur, messages, gen, bubble, ask, sock, nr, recall, reqs, sync, turn, answer, history, trouble>>
    BY DEF ServeReply, viewVars, sockVars, serverVars
  <1>2. serving # NoRequest /\ serving' = NoRequest
    BY DEF ServeReply
  <1>3. /\ serving.kind \in {"attach", "answer"} /\ serving.sid \in Sessions
        /\ serving.list \in Seq(Entries) /\ serving.then \in BOOLEAN
    BY <1>t, <1>2 DEF Wire, WireServing, WireOK, ServRecs
  <1>4. PICK f \in FrameRecs :
          /\ frames' = Append(frames, f)
          /\ \/ serving.kind = "attach" /\ f.kind = "attached" /\ f.sid = serving.sid /\ f.list = serving.list
             \/ serving.kind = "answer" /\ f.kind = "answered"
    <2>1. CASE serving.kind = "attach"
      <3>1. frames' = Append(frames, Frame("attached", serving.sid, NoAsk, serving.list, serving.then))
        BY <2>1 DEF ServeReply
      <3>2. Frame("attached", serving.sid, NoAsk, serving.list, serving.then) \in FrameRecs
        BY <1>3, Made
      <3> QED
        BY <2>1, <3>1, <3>2 DEF Frame
    <2>2. CASE serving.kind = "answer"
      <3>1. frames' = Append(frames, Frame("answered", serving.sid, NoAsk, <<>>, FALSE))
        BY <2>2 DEF ServeReply
      <3>2. <<>> \in Seq(Entries) /\ FALSE \in BOOLEAN
        OBVIOUS
      <3>3. Frame("answered", serving.sid, NoAsk, <<>>, FALSE) \in FrameRecs
        BY <1>3, <3>2, Made
      <3> QED
        BY <2>2, <3>1, <3>3 DEF Frame
    <2> QED
      BY <1>3, <2>1, <2>2
  <1>5. frames' \in Seq(FrameRecs) /\ Added(frames, frames', f)
    BY <1>t, <1>4, AppendAdds DEF WireOK
  <1>6. sock' = "open"
    BY <1>t, <1>1, <1>2 DEF WireOK
  <1>7. ViewOK' /\ SockOK' /\ WireOK' /\ SyncOK' /\ TurnOK' /\ StoreOK' /\ RestOK'
    BY <1>t, <1>1, <1>2, <1>5, <1>6, Made DEF ViewOK, SockOK, WireOK, SyncOK, TurnOK, StoreOK, RestOK
  <1>8. TypeOK'
    BY <1>7, PartsType
  <1> QED
    BY <1>1, <1>2, <1>4, <1>5, <1>8

LEMMA PostServedEffect ==
  ASSUME IInv, NEW m \in Turns, PostServed(m)
  PROVE  /\ TypeOK' /\ turn[m].pc = "sent" /\ turn[m].src = 0 /\ turn[m].sid \in Sessions
         /\ Moved(turn, turn', m, "run")
         /\ Logged(history, history', turn[m].sid, Entry("server", "user", m, <<>>))
         /\ gen' = gen \/ gen' = FALSE
         /\ UNCHANGED <<cur, messages, bubble, ask, sock, nr, reqs, serving, frames, sync, answer, trouble>>
  <1> USE DEF IInv
  <1>t. ViewOK /\ SockOK /\ WireOK /\ SyncOK /\ TurnOK /\ StoreOK /\ RestOK
    BY TypeParts
  <1>1. /\ UNCHANGED <<cur, messages, bubble, ask, sock, nr, recall, reqs, serving, frames, sync, answer, trouble>>
        /\ gen' = gen \/ gen' = FALSE
    BY DEF PostServed, sockVars, wireVars
  <1>2. /\ turn[m].pc = "sent" /\ turn[m].src = 0 /\ turn' = [turn EXCEPT ![m].pc = "run"]
        /\ history' = [history EXCEPT ![turn[m].sid] = Append(@, Entry("server", "user", m, <<>>))]
    BY DEF PostServed
  <1>3. turn[m].sid \in Sessions
    BY <1>2 DEF Wire, WireTurns, Begun
  <1>4. TurnOK' /\ Moved(turn, turn', m, "run")
    BY <1>t, <1>2, PcMoves DEF TurnOK
  <1>5. Entry("server", "user", m, <<>>) \in Entries
    <2>1. <<>> \in Seq(Parts)
      OBVIOUS
    <2> QED
      BY <2>1, Made
  <1>6. StoreOK' /\ Logged(history, history', turn[m].sid, Entry("server", "user", m, <<>>))
    BY <1>t, <1>1, <1>2, <1>3, <1>5, AppendLogs DEF StoreOK
  <1>7. ViewOK' /\ SockOK' /\ WireOK' /\ SyncOK' /\ RestOK'
    BY <1>t, <1>1 DEF ViewOK, SockOK, WireOK, SyncOK, RestOK
  <1>8. TypeOK'
    BY <1>4, <1>6, <1>7, PartsType
  <1> QED
    BY <1>1, <1>2, <1>3, <1>4, <1>6, <1>8

LEMMA PostFailsEffect ==
  ASSUME IInv, NEW m \in Turns, PostFails(m)
  PROVE  /\ TypeOK' /\ turn[m].pc = "sent" /\ turn[m].src = 0
         /\ Moved(turn, turn', m, "over") /\ gen' = FALSE
         /\ UNCHANGED <<cur, messages, bubble, ask, sock, nr, reqs, serving, frames, sync, answer, history, trouble>>
  <1> USE DEF IInv
  <1>t. ViewOK /\ SockOK /\ WireOK /\ SyncOK /\ TurnOK /\ StoreOK /\ RestOK
    BY TypeParts
  <1>1. UNCHANGED <<cur, messages, bubble, ask, sock, nr, recall, reqs, serving, frames, sync, answer, history, trouble>>
    BY DEF PostFails, sockVars, wireVars
  <1>2. turn[m].pc = "sent" /\ turn[m].src = 0 /\ turn' = [turn EXCEPT ![m].pc = "over"] /\ gen' = FALSE
    BY DEF PostFails
  <1>4. TurnOK' /\ Moved(turn, turn', m, "over")
    BY <1>t, <1>2, PcMoves DEF TurnOK
  <1>7. ViewOK' /\ SockOK' /\ WireOK' /\ SyncOK' /\ StoreOK' /\ RestOK'
    BY <1>t, <1>1, <1>2 DEF ViewOK, SockOK, WireOK, SyncOK, StoreOK, RestOK
  <1>8. TypeOK'
    BY <1>4, <1>7, PartsType
  <1> QED
    BY <1>1, <1>2, <1>4, <1>8

\* A notice is for the socket its turn came from, if it is still there.
LEMMA Told ==
  ASSUME IInv, NEW m \in Turns, turn[m].pc # "new", NEW n \in Nat,
         NEW k \in {"text", "tool", "system", "ask", "done", "error"}, Tell(m, Notice(k, m, n))
  PROVE  /\ frames' \in Seq(FrameRecs) /\ turn[m].sid \in Sessions
         /\ Sees(m) => Added(frames, frames', Frame(k, turn[m].sid, Part(m, n), <<>>, FALSE))
         /\ ~Sees(m) => frames' = frames
         /\ sock # "open" => frames' = <<>>
  <1> USE DEF IInv
  <1>t. ViewOK /\ SockOK /\ WireOK /\ SyncOK /\ TurnOK /\ StoreOK /\ RestOK
    BY TypeParts
  <1>1. turn[m].sid \in Sessions
    BY DEF Wire, WireTurns, Begun
  <1>2. PICK f \in FrameRecs : f = Frame(k, turn[m].sid, Part(m, n), <<>>, FALSE)
    <2>1. <<>> \in Seq(Entries) /\ FALSE \in BOOLEAN
      OBVIOUS
    <2>2. Part(m, n) \in Parts \cup {NoAsk}
      BY Made
    <2> QED
      BY <1>1, <2>1, <2>2, Made
  <1>3. frames' = IF Sees(m) THEN Append(frames, f) ELSE frames
    BY <1>2 DEF Tell, Notice
  <1>4. Append(frames, f) \in Seq(FrameRecs) /\ Added(frames, Append(frames, f), f)
    BY <1>t, AppendAdds DEF WireOK
  <1>5. sock # "open" => ~Sees(m) /\ frames = <<>>
    BY <1>t DEF Sees, WireOK
  <1>6. CASE Sees(m)
    <2>1. frames' = Append(frames, f)
      BY <1>3, <1>6
    <2> QED
      BY <1>1, <1>2, <1>4, <1>5, <1>6, <2>1
  <1>7. CASE ~Sees(m)
    <2>1. frames' = frames
      BY <1>3, <1>7
    <2> QED
      BY <1>t, <1>1, <1>5, <1>7, <2>1 DEF WireOK
  <1> QED
    BY <1>6, <1>7

LEMMA ProduceEffect ==
  ASSUME IInv, NEW m \in Turns, NEW kind \in {"text", "tool", "ask"}, Produce(m, kind)
  PROVE  /\ TypeOK' /\ turn[m].pc = "run"
         /\ \A h \in Turns \ {m} : turn'[h] = turn[h] /\ answer'[h] = answer[h]
         /\ turn'[m].pc = IF kind = "ask" THEN "ask" ELSE "run"
         /\ turn'[m].src = turn[m].src /\ turn'[m].sid = turn[m].sid /\ turn'[m].events = turn[m].events + 1
         /\ kind = "ask" => answer'[m] = answer[m]
         /\ kind # "ask" => Added(answer[m], answer'[m], Part(m, turn[m].events + 1))
         /\ Sees(m) => Added(frames, frames', Frame(kind, turn[m].sid, Part(m, turn[m].events + 1), <<>>, FALSE))
         /\ ~Sees(m) => frames' = frames
         /\ UNCHANGED <<cur, messages, gen, bubble, ask, sock, nr, reqs, serving, sync, history, trouble>>
  <1> USE DEF IInv
  <1>t. ViewOK /\ SockOK /\ WireOK /\ SyncOK /\ TurnOK /\ StoreOK /\ RestOK
    BY TypeParts
  <1>1. UNCHANGED <<cur, messages, gen, bubble, ask, sock, nr, recall, reqs, serving, sync, history, trouble>>
    BY DEF Produce, viewVars, sockVars
  <1>2. PICK k \in Nat : k = turn[m].events + 1
    BY <1>t DEF TurnOK, TurnRecs
  <1>3. PICK c \in {"run", "ask"} : c = IF kind = "ask" THEN "ask" ELSE "run"
    OBVIOUS
  <1>4. /\ turn[m].pc = "run" /\ turn' = [turn EXCEPT ![m].pc = c, ![m].events = k]
        /\ answer' = IF kind = "ask" THEN answer ELSE [answer EXCEPT ![m] = Append(@, Part(m, k))]
        /\ Tell(m, Notice(kind, m, k))
    BY <1>2, <1>3 DEF Produce
  <1>5. /\ frames' \in Seq(FrameRecs)
        /\ Sees(m) => Added(frames, frames', Frame(kind, turn[m].sid, Part(m, k), <<>>, FALSE))
        /\ ~Sees(m) => frames' = frames
        /\ sock # "open" => frames' = <<>>
    BY <1>4, Told
  <1>6. /\ TurnOK' /\ \A h \in Turns \ {m} : turn'[h] = turn[h]
        /\ turn'[m].pc = c /\ turn'[m].src = turn[m].src /\ turn'[m].sid = turn[m].sid /\ turn'[m].events = k
    BY <1>t, <1>4 DEF TurnOK, TurnRecs
  <1>7. /\ StoreOK' /\ \A h \in Turns \ {m} : answer'[h] = answer[h]
        /\ kind = "ask" => answer'[m] = answer[m]
        /\ kind # "ask" => Added(answer[m], answer'[m], Part(m, k))
    <2>1. CASE kind = "ask"
      BY <1>t, <1>1, <1>4, <2>1 DEF StoreOK
    <2>2. CASE kind # "ask"
      <3>1. Part(m, k) \in Parts /\ answer[m] \in Seq(Parts)
        BY <1>t, Made DEF StoreOK
      <3>2. PICK q : q = Append(answer[m], Part(m, k))
        OBVIOUS
      <3>3. q \in Seq(Parts) /\ Added(answer[m], q, Part(m, k))
        BY <3>1, <3>2, AppendAdds
      <3>4. answer' = [answer EXCEPT ![m] = q]
        BY <1>4, <2>2, <3>2
      <3>5. answer'[m] = q /\ \A h \in Turns \ {m} : answer'[h] = answer[h]
        BY <1>t, <3>4 DEF StoreOK
      <3>6. StoreOK'
        BY <1>t, <1>1, <3>3, <3>4 DEF StoreOK
      <3> QED
        BY <2>2, <3>3, <3>5, <3>6
    <2> QED
      BY <2>1, <2>2
  <1>8. ViewOK' /\ SockOK' /\ WireOK' /\ SyncOK' /\ RestOK'
    BY <1>t, <1>1, <1>5 DEF ViewOK, SockOK, WireOK, SyncOK, RestOK
  <1>9. TypeOK'
    BY <1>6, <1>7, <1>8, PartsType
  <1> QED
    BY <1>1, <1>2, <1>3, <1>4, <1>5, <1>6, <1>7, <1>9

LEMMA SystemEffect ==
  ASSUME IInv, NEW m \in Turns, System(m)
  PROVE  /\ TypeOK' /\ turn[m].pc = "run" /\ turn[m].sid \in Sessions
         /\ \A h \in Turns \ {m} : turn'[h] = turn[h]
         /\ turn'[m].pc = "run" /\ turn'[m].src = turn[m].src /\ turn'[m].sid = turn[m].sid
         /\ turn'[m].events = turn[m].events + 1 /\ Part(m, turn[m].events + 1) \in Parts
         /\ Logged(history, history', turn[m].sid, Entry("server", "system", m, <<Part(m, turn[m].events + 1)>>))
         /\ Sees(m) => Added(frames, frames', Frame("system", turn[m].sid, Part(m, turn[m].events + 1), <<>>, FALSE))
         /\ ~Sees(m) => frames' = frames
         /\ UNCHANGED <<cur, messages, gen, bubble, ask, sock, nr, reqs, serving, sync, answer, trouble>>
  <1> USE DEF IInv
  <1>t. ViewOK /\ SockOK /\ WireOK /\ SyncOK /\ TurnOK /\ StoreOK /\ RestOK
    BY TypeParts
  <1>1. UNCHANGED <<cur, messages, gen, bubble, ask, sock, nr, recall, reqs, serving, sync, answer, trouble>>
    BY DEF System, viewVars, sockVars
  <1>2. PICK k \in Nat : k = turn[m].events + 1
    BY <1>t DEF TurnOK, TurnRecs
  <1>3. PICK e : e = Entry("server", "system", m, <<Part(m, k)>>)
    OBVIOUS
  <1>4. /\ turn[m].pc = "run" /\ turn' = [turn EXCEPT ![m].events = k]
        /\ history' = [history EXCEPT ![turn[m].sid] = Append(@, e)]
        /\ Tell(m, Notice("system", m, k))
    BY <1>2, <1>3 DEF System
  <1>5. /\ frames' \in Seq(FrameRecs) /\ turn[m].sid \in Sessions
        /\ Sees(m) => Added(frames, frames', Frame("system", turn[m].sid, Part(m, k), <<>>, FALSE))
        /\ ~Sees(m) => frames' = frames
        /\ sock # "open" => frames' = <<>>
    BY <1>4, Told
  <1>6. /\ TurnOK' /\ \A h \in Turns \ {m} : turn'[h] = turn[h]
        /\ turn'[m].pc = "run" /\ turn'[m].src = turn[m].src /\ turn'[m].sid = turn[m].sid /\ turn'[m].events = k
    BY <1>t, <1>4 DEF TurnOK, TurnRecs
  <1>p. Part(m, k) \in Parts
    BY Made
  <1>7. e \in Entries
    <2>1. <<Part(m, k)>> \in Seq(Parts)
      BY <1>p
    <2> QED
      BY <1>3, <2>1, Made
  <1>8. StoreOK' /\ Logged(history, history', turn[m].sid, e)
    BY <1>t, <1>1, <1>4, <1>5, <1>7, AppendLogs DEF StoreOK
  <1>9. ViewOK' /\ SockOK' /\ WireOK' /\ SyncOK' /\ RestOK'
    BY <1>t, <1>1, <1>5 DEF ViewOK, SockOK, WireOK, SyncOK, RestOK
  <1>10. TypeOK'
    BY <1>6, <1>8, <1>9, PartsType
  <1> QED
    BY <1>1, <1>2, <1>3, <1>4, <1>5, <1>6, <1>p, <1>8, <1>10

LEMMA DoneEffect ==
  ASSUME IInv, NEW m \in Turns, Done(m)
  PROVE  /\ TypeOK' /\ turn[m].pc = "run" /\ turn[m].sid \in Sessions
         /\ Moved(turn, turn', m, "over")
         /\ Logged(history, history', turn[m].sid, Entry("server", "assistant", m, answer[m]))
         /\ answer'[m] = <<>> /\ \A h \in Turns \ {m} : answer'[h] = answer[h]
         /\ Sees(m) => Added(frames, frames', Frame("done", turn[m].sid, Part(m, 0), <<>>, FALSE))
         /\ ~Sees(m) => frames' = frames
         /\ UNCHANGED <<cur, messages, gen, bubble, ask, sock, nr, reqs, serving, sync, trouble>>
  <1> USE DEF IInv
  <1>t. ViewOK /\ SockOK /\ WireOK /\ SyncOK /\ TurnOK /\ StoreOK /\ RestOK
    BY TypeParts
  <1>1. UNCHANGED <<cur, messages, gen, bubble, ask, sock, nr, recall, reqs, serving, sync, trouble>>
    BY DEF Done, viewVars, sockVars
  <1>2. /\ turn[m].pc = "run" /\ turn' = [turn EXCEPT ![m].pc = "over"]
        /\ history' = [history EXCEPT ![turn[m].sid] = Append(@, Entry("server", "assistant", m, answer[m]))]
        /\ answer' = [answer EXCEPT ![m] = <<>>]
        /\ Tell(m, Notice("done", m, 0))
    BY DEF Done
  <1>3. /\ frames' \in Seq(FrameRecs) /\ turn[m].sid \in Sessions
        /\ Sees(m) => Added(frames, frames', Frame("done", turn[m].sid, Part(m, 0), <<>>, FALSE))
        /\ ~Sees(m) => frames' = frames
        /\ sock # "open" => frames' = <<>>
    BY <1>2, Told
  <1>4. TurnOK' /\ Moved(turn, turn', m, "over")
    BY <1>t, <1>2, PcMoves DEF TurnOK
  <1>5. answer' \in [Turns -> Seq(Parts)] /\ answer'[m] = <<>> /\ \A h \in Turns \ {m} : answer'[h] = answer[h]
    <2>1. <<>> \in Seq(Parts)
      OBVIOUS
    <2> QED
      BY <1>t, <1>2, <2>1 DEF StoreOK
  <1>6. /\ history' \in [Sessions -> Seq(Entries)]
        /\ Logged(history, history', turn[m].sid, Entry("server", "assistant", m, answer[m]))
    <2>1. Entry("server", "assistant", m, answer[m]) \in Entries
      BY <1>t, Made DEF StoreOK
    <2> QED
      BY <1>t, <1>2, <1>3, <2>1, AppendLogs DEF StoreOK
  <1>7. ViewOK' /\ SockOK' /\ WireOK' /\ SyncOK' /\ StoreOK' /\ RestOK'
    BY <1>t, <1>1, <1>3, <1>5, <1>6 DEF ViewOK, SockOK, WireOK, SyncOK, StoreOK, RestOK
  <1>8. TypeOK'
    BY <1>4, <1>7, PartsType
  <1> QED
    BY <1>1, <1>2, <1>3, <1>4, <1>5, <1>6, <1>8

LEMMA ErrorEffect ==
  ASSUME IInv, NEW m \in Turns, Error(m)
  PROVE  /\ TypeOK' /\ turn[m].pc = "run"
         /\ Moved(turn, turn', m, "over")
         /\ answer'[m] = <<>> /\ \A h \in Turns \ {m} : answer'[h] = answer[h]
         /\ Sees(m) => Added(frames, frames', Frame("error", turn[m].sid, Part(m, 0), <<>>, FALSE))
         /\ ~Sees(m) => frames' = frames
         /\ UNCHANGED <<cur, messages, gen, bubble, ask, sock, nr, reqs, serving, sync, history, trouble>>
  <1> USE DEF IInv
  <1>t. ViewOK /\ SockOK /\ WireOK /\ SyncOK /\ TurnOK /\ StoreOK /\ RestOK
    BY TypeParts
  <1>1. UNCHANGED <<cur, messages, gen, bubble, ask, sock, nr, recall, reqs, serving, sync, history, trouble>>
    BY DEF Error, viewVars, sockVars
  <1>2. /\ turn[m].pc = "run" /\ turn' = [turn EXCEPT ![m].pc = "over"]
        /\ answer' = [answer EXCEPT ![m] = <<>>]
        /\ Tell(m, Notice("error", m, 0))
    BY DEF Error
  <1>3. /\ frames' \in Seq(FrameRecs)
        /\ Sees(m) => Added(frames, frames', Frame("error", turn[m].sid, Part(m, 0), <<>>, FALSE))
        /\ ~Sees(m) => frames' = frames
        /\ sock # "open" => frames' = <<>>
    BY <1>2, Told
  <1>4. TurnOK' /\ Moved(turn, turn', m, "over")
    BY <1>t, <1>2, PcMoves DEF TurnOK
  <1>5. answer' \in [Turns -> Seq(Parts)] /\ answer'[m] = <<>> /\ \A h \in Turns \ {m} : answer'[h] = answer[h]
    <2>1. <<>> \in Seq(Parts)
      OBVIOUS
    <2> QED
      BY <1>t, <1>2, <2>1 DEF StoreOK
  <1>7. ViewOK' /\ SockOK' /\ WireOK' /\ SyncOK' /\ StoreOK' /\ RestOK'
    BY <1>t, <1>1, <1>3, <1>5 DEF ViewOK, SockOK, WireOK, SyncOK, StoreOK, RestOK
  <1>8. TypeOK'
    BY <1>4, <1>7, PartsType
  <1> QED
    BY <1>1, <1>2, <1>3, <1>4, <1>5, <1>8

LEMMA SilentEffect ==
  ASSUME IInv, NEW m \in Turns, Silent(m)
  PROVE  /\ TypeOK' /\ turn[m].pc \in {"run", "ask"}
         /\ Moved(turn, turn', m, "over")
         /\ answer'[m] = <<>> /\ \A h \in Turns \ {m} : answer'[h] = answer[h]
         /\ trouble \subseteq trouble' /\ "untold" \in trouble'
         /\ UNCHANGED <<cur, messages, gen, bubble, ask, sock, nr, reqs, serving, frames, sync, history>>
  <1> USE DEF IInv
  <1>t. ViewOK /\ SockOK /\ WireOK /\ SyncOK /\ TurnOK /\ StoreOK /\ RestOK
    BY TypeParts
  <1>1. UNCHANGED <<cur, messages, gen, bubble, ask, sock, nr, recall, reqs, serving, frames, sync, history>>
    BY DEF Silent, viewVars, sockVars, wireVars
  <1>2. /\ turn[m].pc \in {"run", "ask"} /\ turn' = [turn EXCEPT ![m].pc = "over"]
        /\ answer' = [answer EXCEPT ![m] = <<>>] /\ Note("untold", TRUE)
    BY DEF Silent
  <1>4. TurnOK' /\ Moved(turn, turn', m, "over")
    BY <1>t, <1>2, PcMoves DEF TurnOK
  <1>5. answer' \in [Turns -> Seq(Parts)] /\ answer'[m] = <<>> /\ \A h \in Turns \ {m} : answer'[h] = answer[h]
    <2>1. <<>> \in Seq(Parts)
      OBVIOUS
    <2> QED
      BY <1>t, <1>2, <2>1 DEF StoreOK
  <1>6. RestOK' /\ trouble \subseteq trouble' /\ "untold" \in trouble'
    BY <1>t, <1>2, Noted DEF Causes
  <1>7. ViewOK' /\ SockOK' /\ WireOK' /\ SyncOK' /\ StoreOK'
    BY <1>t, <1>1, <1>5 DEF ViewOK, SockOK, WireOK, SyncOK, StoreOK
  <1>8. TypeOK'
    BY <1>4, <1>6, <1>7, PartsType
  <1> QED
    BY <1>1, <1>2, <1>4, <1>5, <1>6, <1>8

LEMMA Received ==
  ASSUME IInv, NEW K, Receive(K)
  PROVE  /\ frames' \in Seq(FrameRecs) /\ Taken(frames, frames')
         /\ sock = "open" /\ frames[1] \in FrameRecs /\ frames[1].kind \in K /\ Head(frames) = frames[1]
         /\ IsNotice(frames[1]) => frames[1].part \in Parts
  <1> USE DEF IInv
  <1>t. WireOK
    BY TypeParts
  <1>1. frames # <<>> /\ Head(frames).kind \in K /\ frames' = Tail(frames)
    BY DEF Receive
  <1>2. frames' \in Seq(FrameRecs) /\ Taken(frames, frames') /\ frames[1] \in FrameRecs
    BY <1>t, <1>1, TailTakes DEF WireOK
  <1>3. Head(frames) = frames[1] /\ 1 \in DOMAIN frames
    BY <1>2 DEF Taken
  <1>4. sock = "open"
    BY <1>t, <1>1 DEF WireOK
  <1>5. IsNotice(frames[1]) => frames[1].part \in Parts
    BY <1>3 DEF Wire, WireFrames
  <1> QED
    BY <1>1, <1>2, <1>3, <1>4, <1>5

\* The messages after the answer under construction has got longer.
Reshown(q, p, b) ==
  /\ DOMAIN p = DOMAIN q
  /\ \A i \in DOMAIN q : /\ p[i].by = q[i].by /\ p[i].role = q[i].role /\ p[i].turn = q[i].turn
                         /\ p[i].text = IF Grows(q[i], b) THEN b.text ELSE q[i].text

LEMMA ShownAt ==
  ASSUME messages \in Seq(Entries), NEW b \in [turn : Turns, text : Seq(Parts)]
  PROVE  Shown(b) \in Seq(Entries) /\ Reshown(messages, Shown(b), b)
  <1>1. Len(messages) \in Nat /\ DOMAIN messages = 1 .. Len(messages)
    OBVIOUS
  <1>2. \A i \in DOMAIN messages : messages[i] \in Entries
    BY ElementAt
  <1>3. PICK p : p = Shown(b)
    OBVIOUS
  <1>4. p = [i \in DOMAIN messages |->
               IF Grows(messages[i], b) THEN [messages[i] EXCEPT !.text = b.text] ELSE messages[i]]
    BY <1>3 DEF Shown, Grows
  <1>5. DOMAIN p = DOMAIN messages
    BY <1>4
  <1>6. ASSUME NEW i \in DOMAIN messages
        PROVE  /\ p[i] \in Entries
               /\ p[i].by = messages[i].by /\ p[i].role = messages[i].role /\ p[i].turn = messages[i].turn
               /\ p[i].text = IF Grows(messages[i], b) THEN b.text ELSE messages[i].text
    <2>1. messages[i] \in Entries
      BY <1>2
    <2>2. CASE Grows(messages[i], b)
      <3>1. p[i] = [messages[i] EXCEPT !.text = b.text]
        BY <1>4, <2>2
      <3> QED
        BY <2>1, <2>2, <3>1 DEF Entries
    <2>3. CASE ~Grows(messages[i], b)
      <3>1. p[i] = messages[i]
        BY <1>4, <2>3
      <3> QED
        BY <2>1, <2>3, <3>1
    <2> QED
      BY <2>2, <2>3
  <1>7. p \in [1 .. Len(messages) -> Entries]
    BY <1>1, <1>4, <1>6
  <1>8. p \in Seq(Entries)
    BY <1>1, <1>7
  <1> QED
    BY <1>3, <1>5, <1>6, <1>8 DEF Reshown

\* What a part that comes may do to the view.
Longer(p) ==
  /\ bubble \in [turn : Turns, text : Seq(Parts)] /\ bubble'.turn = bubble.turn
  /\ Added(bubble.text, bubble'.text, p) /\ Reshown(messages, messages', bubble')
Started(p) ==
  bubble = NoBubble /\ \E l \in Seq(Parts) : /\ DOMAIN l = {1} /\ l[1] = p
                        /\ bubble' = [turn |-> p.of, text |-> l]
                        /\ Added(messages, messages', Entry("client", "assistant", p.of, l))

LEMMA Lengthens ==
  ASSUME IInv, bubble # NoBubble, NEW p \in Parts,
         NEW b, b = [bubble EXCEPT !.text = Append(@, p)], bubble' = b, messages' = Shown(b)
  PROVE  Longer(p) /\ messages' \in Seq(Entries) /\ bubble' \in [turn : Turns, text : Seq(Parts)]
  <1> USE DEF IInv
  <1>1. messages \in Seq(Entries) /\ bubble \in [turn : Turns, text : Seq(Parts)]
    BY TypeParts DEF ViewOK
  <1>2. bubble.text \in Seq(Parts)
    BY <1>1
  <1>3. PICK l : l = Append(bubble.text, p)
    OBVIOUS
  <1>4. l \in Seq(Parts) /\ Added(bubble.text, l, p)
    BY <1>2, <1>3, AppendAdds
  <1>5. b = [bubble EXCEPT !.text = l]
    BY <1>3
  <1>6. b \in [turn : Turns, text : Seq(Parts)] /\ b.turn = bubble.turn /\ b.text = l
    BY <1>1, <1>4, <1>5
  <1>7. messages' \in Seq(Entries) /\ Reshown(messages, messages', b)
    BY <1>1, <1>6, ShownAt
  <1> QED
    BY <1>1, <1>4, <1>6, <1>7 DEF Longer

LEMMA OnTextEffect ==
  ASSUME IInv, OnText
  PROVE  /\ TypeOK' /\ Taken(frames, frames') /\ frames[1].kind = "text" /\ frames[1].part \in Parts
         /\ \/ UNCHANGED <<messages, bubble>>
            \/ Hears(frames[1]) /\ (Started(frames[1].part) \/ Longer(frames[1].part))
         /\ Hears(frames[1]) => Started(frames[1].part) \/ Longer(frames[1].part)
         /\ UNCHANGED <<cur, gen, ask, sock, nr, reqs, serving, sync, turn, answer, history, trouble>>
  <1> USE DEF IInv
  <1>t. ViewOK /\ SockOK /\ WireOK /\ SyncOK /\ TurnOK /\ StoreOK /\ RestOK
    BY TypeParts
  <1>1. UNCHANGED <<cur, gen, ask, sock, nr, recall, reqs, serving, sync, turn, answer, history, trouble>>
    BY DEF OnText, sockVars, serverVars
  <1>2. Receive({"text"})
    BY DEF OnText
  <1>3. /\ frames' \in Seq(FrameRecs) /\ Taken(frames, frames')
        /\ sock = "open" /\ Head(frames) = frames[1] /\ frames[1].kind = "text" /\ frames[1].part \in Parts
    BY <1>2, Received DEF IsNotice
  <1>4. PICK p \in Parts : p = frames[1].part
    BY <1>3
  <1>8. /\ messages' \in Seq(Entries) /\ bubble' \in [turn : Turns, text : Seq(Parts)] \cup {NoBubble}
        /\ \/ UNCHANGED <<messages, bubble>>
           \/ Hears(frames[1]) /\ (Started(frames[1].part) \/ Longer(frames[1].part))
        /\ Hears(frames[1]) => Started(frames[1].part) \/ Longer(frames[1].part)
    <2>1. CASE ~Hears(frames[1])
      <3>1. UNCHANGED <<messages, bubble>>
        BY <1>3, <2>1 DEF OnText
      <3> QED
        BY <1>t, <2>1, <3>1 DEF ViewOK
    <2>2. CASE Hears(frames[1]) /\ bubble = NoBubble
      <3>1. PICK l : l = <<p>>
        OBVIOUS
      <3>2. l \in Seq(Parts) /\ DOMAIN l = {1} /\ l[1] = p
        BY <3>1
      <3>3. bubble' = [turn |-> p.of, text |-> l] /\ messages' = Append(messages, Entry("client", "assistant", p.of, l))
        BY <1>3, <1>4, <2>2, <3>1 DEF OnText
      <3>4. p.of \in Turns
        BY DEF Parts
      <3>5. Entry("client", "assistant", p.of, l) \in Entries
        BY <3>2, <3>4, Made
      <3>6. messages' \in Seq(Entries) /\ Added(messages, messages', Entry("client", "assistant", p.of, l))
        BY <1>t, <3>3, <3>5, AppendAdds DEF ViewOK
      <3>7. Started(p)
        BY <2>2, <3>2, <3>3, <3>6 DEF Started
      <3>8. bubble' \in [turn : Turns, text : Seq(Parts)]
        BY <3>2, <3>3, <3>4
      <3> QED
        BY <1>4, <2>2, <3>6, <3>7, <3>8
    <2>3. CASE Hears(frames[1]) /\ bubble # NoBubble
      <3>1. PICK b : b = [bubble EXCEPT !.text = Append(@, p)]
        OBVIOUS
      <3>2. bubble' = b /\ messages' = Shown(b)
        BY <1>3, <1>4, <2>3, <3>1 DEF OnText
      <3>3. Longer(p) /\ messages' \in Seq(Entries) /\ bubble' \in [turn : Turns, text : Seq(Parts)]
        BY <2>3, <3>1, <3>2, Lengthens
      <3> QED
        BY <1>4, <2>3, <3>3
    <2> QED
      BY <2>1, <2>2, <2>3
  <1>9. ViewOK' /\ SockOK' /\ WireOK' /\ SyncOK' /\ TurnOK' /\ StoreOK' /\ RestOK'
    BY <1>t, <1>1, <1>3, <1>8 DEF ViewOK, SockOK, WireOK, SyncOK, TurnOK, StoreOK, RestOK
  <1>10. TypeOK'
    BY <1>9, PartsType
  <1> QED
    BY <1>1, <1>3, <1>8, <1>10

LEMMA OnToolEffect ==
  ASSUME IInv, OnTool
  PROVE  /\ TypeOK' /\ Taken(frames, frames') /\ frames[1].kind = "tool" /\ frames[1].part \in Parts
         /\ UNCHANGED <<messages, bubble>> \/ (Hears(frames[1]) /\ Longer(frames[1].part))
         /\ Hears(frames[1]) => Longer(frames[1].part) \/ "partial" \in trouble'
         /\ trouble \subseteq trouble'
         /\ UNCHANGED <<cur, gen, ask, sock, nr, reqs, serving, sync, turn, answer, history>>
  <1> USE DEF IInv
  <1>t. ViewOK /\ SockOK /\ WireOK /\ SyncOK /\ TurnOK /\ StoreOK /\ RestOK
    BY TypeParts
  <1>1. UNCHANGED <<cur, gen, ask, sock, nr, recall, reqs, serving, sync, turn, answer, history>>
    BY DEF OnTool, sockVars, serverVars
  <1>2. Receive({"tool"})
    BY DEF OnTool
  <1>3. /\ frames' \in Seq(FrameRecs) /\ Taken(frames, frames')
        /\ sock = "open" /\ Head(frames) = frames[1] /\ frames[1].kind = "tool" /\ frames[1].part \in Parts
    BY <1>2, Received DEF IsNotice
  <1>4. PICK p \in Parts : p = frames[1].part
    BY <1>3
  <1>5. /\ messages' \in Seq(Entries) /\ bubble' \in [turn : Turns, text : Seq(Parts)] \cup {NoBubble}
        /\ UNCHANGED <<messages, bubble>> \/ (Hears(frames[1]) /\ Longer(frames[1].part))
        /\ Hears(frames[1]) /\ bubble # NoBubble => Longer(frames[1].part)
    <2>1. CASE ~(Hears(frames[1]) /\ bubble # NoBubble)
      <3>1. UNCHANGED <<messages, bubble>>
        BY <1>3, <2>1 DEF OnTool
      <3> QED
        BY <1>t, <2>1, <3>1 DEF ViewOK
    <2>2. CASE Hears(frames[1]) /\ bubble # NoBubble
      <3>1. PICK b : b = [bubble EXCEPT !.text = Append(@, p)]
        OBVIOUS
      <3>2. bubble' = b /\ messages' = Shown(b)
        BY <1>3, <1>4, <2>2, <3>1 DEF OnTool
      <3>3. Longer(p) /\ messages' \in Seq(Entries) /\ bubble' \in [turn : Turns, text : Seq(Parts)]
        BY <2>2, <3>1, <3>2, Lengthens
      <3> QED
        BY <1>4, <2>2, <3>3
    <2> QED
      BY <2>1, <2>2
  <1>6. /\ RestOK' /\ trouble \subseteq trouble'
        /\ Hears(frames[1]) /\ bubble = NoBubble => "partial" \in trouble'
    <2>1. PICK b \in BOOLEAN : b = (Hears(frames[1]) /\ bubble = NoBubble)
      OBVIOUS
    <2>2. Note("partial", b)
      BY <1>3, <2>1 DEF OnTool
    <2> QED
      BY <1>t, <2>1, <2>2, Noted DEF Causes
  <1>7. ViewOK' /\ SockOK' /\ WireOK' /\ SyncOK' /\ TurnOK' /\ StoreOK'
    BY <1>t, <1>1, <1>3, <1>5 DEF ViewOK, SockOK, WireOK, SyncOK, TurnOK, StoreOK
  <1>8. TypeOK'
    BY <1>6, <1>7, PartsType
  <1> QED
    BY <1>1, <1>3, <1>5, <1>6, <1>8

LEMMA OnSystemEffect ==
  ASSUME IInv, OnSystem
  PROVE  /\ TypeOK' /\ Taken(frames, frames') /\ frames[1].kind = "system" /\ frames[1].part \in Parts
         /\ Hears(frames[1]) =>
              Added(messages, messages', Entry("client", "system", frames[1].part.of, <<frames[1].part>>))
         /\ ~Hears(frames[1]) => messages' = messages
         /\ Hears(frames[1]) => bubble = NoBubble \/ "aside" \in trouble'
         /\ trouble \subseteq trouble'
         /\ UNCHANGED <<cur, gen, bubble, ask, sock, nr, reqs, serving, sync, turn, answer, history>>
  <1> USE DEF IInv
  <1>t. ViewOK /\ SockOK /\ WireOK /\ SyncOK /\ TurnOK /\ StoreOK /\ RestOK
    BY TypeParts
  <1>1. UNCHANGED <<cur, gen, bubble, ask, sock, nr, recall, reqs, serving, sync, turn, answer, history>>
    BY DEF OnSystem, sockVars, serverVars
  <1>2. Receive({"system"})
    BY DEF OnSystem
  <1>3. /\ frames' \in Seq(FrameRecs) /\ Taken(frames, frames')
        /\ sock = "open" /\ Head(frames) = frames[1] /\ frames[1].kind = "system" /\ frames[1].part \in Parts
    BY <1>2, Received DEF IsNotice
  <1>4. PICK p \in Parts : p = frames[1].part
    BY <1>3
  <1>5. PICK e : e = Entry("client", "system", p.of, <<p>>)
    OBVIOUS
  <1>6. e \in Entries
    <2>1. <<p>> \in Seq(Parts) /\ p.of \in Turns
      BY DEF Parts
    <2> QED
      BY <1>5, <2>1, Made
  <1>7. messages' = IF Hears(frames[1]) THEN Append(messages, e) ELSE messages
    BY <1>3, <1>4, <1>5 DEF OnSystem
  <1>8. /\ messages' \in Seq(Entries)
        /\ Hears(frames[1]) => Added(messages, messages', e)
        /\ ~Hears(frames[1]) => messages' = messages
    <2>1. Append(messages, e) \in Seq(Entries) /\ Added(messages, Append(messages, e), e)
      BY <1>t, <1>6, AppendAdds DEF ViewOK
    <2>2. CASE Hears(frames[1])
      <3>1. messages' = Append(messages, e)
        BY <1>7, <2>2
      <3> QED
        BY <2>1, <2>2, <3>1
    <2>3. CASE ~Hears(frames[1])
      <3>1. messages' = messages
        BY <1>7, <2>3
      <3> QED
        BY <1>t, <2>3, <3>1 DEF ViewOK
    <2> QED
      BY <2>2, <2>3
  <1>9. /\ RestOK' /\ trouble \subseteq trouble'
        /\ Hears(frames[1]) /\ bubble # NoBubble => "aside" \in trouble'
    <2>1. PICK b \in BOOLEAN : b = (Hears(frames[1]) /\ bubble # NoBubble)
      OBVIOUS
    <2>2. Note("aside", b)
      BY <1>3, <2>1 DEF OnSystem
    <2> QED
      BY <1>t, <2>1, <2>2, Noted DEF Causes
  <1>10. ViewOK' /\ SockOK' /\ WireOK' /\ SyncOK' /\ TurnOK' /\ StoreOK'
    BY <1>t, <1>1, <1>3, <1>8 DEF ViewOK, SockOK, WireOK, SyncOK, TurnOK, StoreOK
  <1>11. TypeOK'
    BY <1>9, <1>10, PartsType
  <1> QED
    BY <1>1, <1>3, <1>4, <1>5, <1>8, <1>9, <1>11

LEMMA OnAskEffect ==
  ASSUME IInv, OnAsk
  PROVE  /\ TypeOK' /\ Taken(frames, frames') /\ frames[1].kind = "ask"
         /\ ask' = IF Hears(frames[1]) THEN frames[1].part ELSE ask
         /\ UNCHANGED <<cur, messages, gen, bubble, sock, nr, reqs, serving, sync, turn, answer, history, trouble>>
  <1> USE DEF IInv
  <1>t. ViewOK /\ SockOK /\ WireOK /\ SyncOK /\ TurnOK /\ StoreOK /\ RestOK
    BY TypeParts
  <1>1. UNCHANGED <<cur, messages, gen, bubble, sock, nr, recall, reqs, serving, sync, turn, answer, history, trouble>>
    BY DEF OnAsk, sockVars, serverVars
  <1>2. Receive({"ask"})
    BY DEF OnAsk
  <1>3. /\ frames' \in Seq(FrameRecs) /\ Taken(frames, frames')
        /\ sock = "open" /\ Head(frames) = frames[1] /\ frames[1].kind = "ask" /\ frames[1].part \in Parts
    BY <1>2, Received DEF IsNotice
  <1>4. ask' = IF Hears(frames[1]) THEN frames[1].part ELSE ask
    BY <1>3 DEF OnAsk
  <1>5. ask' \in Parts \cup {NoAsk}
    BY <1>t, <1>3, <1>4 DEF ViewOK
  <1>6. ViewOK' /\ SockOK' /\ WireOK' /\ SyncOK' /\ TurnOK' /\ StoreOK' /\ RestOK'
    BY <1>t, <1>1, <1>3, <1>5 DEF ViewOK, SockOK, WireOK, SyncOK, TurnOK, StoreOK, RestOK
  <1>7. TypeOK'
    BY <1>6, PartsType
  <1> QED
    BY <1>1, <1>3, <1>4, <1>7

LEMMA OnEndEffect ==
  ASSUME IInv, OnEnd
  PROVE  /\ TypeOK' /\ Taken(frames, frames') /\ IsEnd(frames[1])
         /\ gen' = (IF Hears(frames[1]) THEN FALSE ELSE gen)
         /\ bubble' = (IF Hears(frames[1]) /\ frames[1].kind = "done" THEN NoBubble ELSE bubble)
         /\ trouble \subseteq trouble'
         /\ Hears(frames[1]) /\ frames[1].kind = "error" /\ bubble # NoBubble => "partial" \in trouble'
         /\ UNCHANGED <<cur, messages, ask, sock, nr, reqs, serving, sync, turn, answer, history>>
  <1> USE DEF IInv
  <1>t. ViewOK /\ SockOK /\ WireOK /\ SyncOK /\ TurnOK /\ StoreOK /\ RestOK
    BY TypeParts
  <1>1. UNCHANGED <<cur, messages, ask, sock, nr, recall, reqs, serving, sync, turn, answer, history>>
    BY DEF OnEnd, sockVars, serverVars
  <1>2. Receive({"done", "error"})
    BY DEF OnEnd
  <1>3. /\ frames' \in Seq(FrameRecs) /\ Taken(frames, frames')
        /\ sock = "open" /\ Head(frames) = frames[1] /\ IsEnd(frames[1])
    BY <1>2, Received DEF IsEnd
  <1>4. /\ gen' = (IF Hears(frames[1]) THEN FALSE ELSE gen)
        /\ bubble' = (IF Hears(frames[1]) /\ frames[1].kind = "done" THEN NoBubble ELSE bubble)
    BY <1>3 DEF OnEnd
  <1>5. gen' \in BOOLEAN
    BY <1>t, <1>4 DEF ViewOK
  <1>6. /\ RestOK' /\ trouble \subseteq trouble'
        /\ Hears(frames[1]) /\ frames[1].kind = "error" /\ bubble # NoBubble => "partial" \in trouble'
    <2>1. PICK b \in BOOLEAN : b = (Hears(frames[1]) /\ frames[1].kind = "error" /\ bubble # NoBubble)
      OBVIOUS
    <2>2. Note("partial", b)
      BY <1>3, <2>1 DEF OnEnd
    <2> QED
      BY <1>t, <2>1, <2>2, Noted DEF Causes
  <1>7. ViewOK' /\ SockOK' /\ WireOK' /\ SyncOK' /\ TurnOK' /\ StoreOK'
    BY <1>t, <1>1, <1>3, <1>4, <1>5 DEF ViewOK, SockOK, WireOK, SyncOK, TurnOK, StoreOK
  <1>8. TypeOK'
    BY <1>6, <1>7, PartsType
  <1> QED
    BY <1>1, <1>3, <1>4, <1>6, <1>8

LEMMA OnAttachedEffect ==
  ASSUME IInv, OnAttached
  PROVE  /\ TypeOK' /\ Taken(frames, frames') /\ frames[1].kind = "attached"
         /\ cur' = frames[1].sid /\ messages' = frames[1].list /\ ask' = NoAsk
         /\ frames[1].sid \in Sessions
         /\ \A k \in Socks :
              \/ sync'[k] = sync[k]
              \/ /\ sync'[k].sid = frames[1].sid /\ sync'[k].list = <<>>
                 /\ sync'[k].after = Len(frames[1].list)
         /\ UNCHANGED <<gen, bubble, sock, nr, reqs, serving, turn, answer, history, trouble>>
  <1> USE DEF IInv
  <1>t. ViewOK /\ SockOK /\ WireOK /\ SyncOK /\ TurnOK /\ StoreOK /\ RestOK
    BY TypeParts
  <1>1. UNCHANGED <<gen, bubble, sock, nr, recall, reqs, serving, turn, answer, history, trouble>>
    BY DEF OnAttached, sockVars, serverVars
  <1>2. Receive({"attached"})
    BY DEF OnAttached
  <1>3. /\ frames' \in Seq(FrameRecs) /\ Taken(frames, frames')
        /\ sock = "open" /\ Head(frames) = frames[1] /\ frames[1].kind = "attached" /\ frames[1] \in FrameRecs
    BY <1>2, Received
  <1>4. PICK f \in FrameRecs : f = frames[1]
    BY <1>3
  <1>5. cur' = f.sid /\ messages' = f.list /\ ask' = NoAsk
    BY <1>3, <1>4 DEF OnAttached
  <1>6. f.sid \in Sessions /\ f.list \in Seq(Entries)
    BY DEF FrameRecs
  <1>7. /\ SyncOK'
        /\ \A k \in Socks :
             \/ sync'[k] = sync[k]
             \/ sync'[k].sid = f.sid /\ sync'[k].list = <<>> /\ sync'[k].after = Len(f.list)
    <2>1. \/ sync' = sync
          \/ sync' = [sync EXCEPT ![nr] = [pc |-> "asked", sid |-> f.sid, after |-> Len(f.list), list |-> <<>>]]
      BY <1>3, <1>4 DEF OnAttached
    <2>2. <<>> \in Seq(Entries) /\ Len(f.list) \in Nat
      BY <1>6
    <2>3. PICK y : y = [pc |-> "asked", sid |-> f.sid, after |-> Len(f.list), list |-> <<>>]
      OBVIOUS
    <2>4. y \in SyncRecs /\ y.sid = f.sid /\ y.list = <<>> /\ y.after = Len(f.list)
      BY <1>6, <2>2, <2>3 DEF SyncRecs
    <2>5. sync' = sync \/ sync' = [sync EXCEPT ![nr] = y]
      BY <2>1, <2>3
    <2> QED
      BY <1>t, <2>4, <2>5 DEF SyncOK, SockOK
  <1>8. ViewOK' /\ SockOK' /\ WireOK' /\ TurnOK' /\ StoreOK' /\ RestOK'
    BY <1>t, <1>1, <1>3, <1>5, <1>6 DEF ViewOK, SockOK, WireOK, TurnOK, StoreOK, RestOK
  <1>9. TypeOK'
    BY <1>7, <1>8, PartsType
  <1> QED
    BY <1>1, <1>3, <1>4, <1>5, <1>6, <1>7, <1>9

LEMMA OnAnsweredEffect ==
  ASSUME IInv, OnAnswered
  PROVE  /\ TypeOK' /\ Taken(frames, frames') /\ frames[1].kind = "answered" /\ ask' = NoAsk
         /\ trouble \subseteq trouble'
         /\ ask # NoAsk /\ turn[ask.of].pc = "ask" /\ turn[ask.of].events = ask.nr => "erased" \in trouble'
         /\ UNCHANGED <<cur, messages, gen, bubble, sock, nr, reqs, serving, sync, turn, answer, history>>
  <1> USE DEF IInv
  <1>t. ViewOK /\ SockOK /\ WireOK /\ SyncOK /\ TurnOK /\ StoreOK /\ RestOK
    BY TypeParts
  <1>1. UNCHANGED <<cur, messages, gen, bubble, sock, nr, recall, reqs, serving, sync, turn, answer, history>>
    BY DEF OnAnswered, sockVars, serverVars
  <1>2. /\ Receive({"answered"}) /\ ask' = NoAsk
        /\ Note("erased", ask # NoAsk /\ turn[ask.of].pc = "ask" /\ turn[ask.of].events = ask.nr)
    BY DEF OnAnswered
  <1>3. /\ frames' \in Seq(FrameRecs) /\ Taken(frames, frames')
        /\ sock = "open" /\ frames[1].kind = "answered"
    BY <1>2, Received
  <1>4. PICK b \in BOOLEAN : b = (ask # NoAsk /\ turn[ask.of].pc = "ask" /\ turn[ask.of].events = ask.nr)
    OBVIOUS
  <1>5. RestOK' /\ trouble \subseteq trouble' /\ (b => "erased" \in trouble')
    BY <1>t, <1>2, <1>4, Noted DEF Causes
  <1>6. ViewOK' /\ SockOK' /\ WireOK' /\ SyncOK' /\ TurnOK' /\ StoreOK'
    BY <1>t, <1>1, <1>2, <1>3 DEF ViewOK, SockOK, WireOK, SyncOK, TurnOK, StoreOK
  <1>7. TypeOK'
    BY <1>5, <1>6, PartsType
  <1> QED
    BY <1>1, <1>2, <1>3, <1>4, <1>5, <1>7

LEMMA SyncServedEffect ==
  ASSUME IInv, NEW k \in Socks, SyncServed(k)
  PROVE  /\ TypeOK' /\ sync[k].sid \in Sessions
         /\ \A z \in Socks \ {k} : sync'[z] = sync[z]
         /\ sync'[k].sid = sync[k].sid /\ sync'[k].after = sync[k].after /\ sync[k].pc # "none"
         /\ sync'[k].list # <<>> => sync[k].after < Len(history[sync[k].sid])
         /\ \A i \in DOMAIN sync'[k].list : \E j \in DOMAIN history[sync[k].sid] :
              sync'[k].list[i] = history[sync[k].sid][j]
         /\ UNCHANGED <<cur, messages, gen, bubble, ask, sock, nr, reqs, serving, frames, turn, answer, history, trouble>>
  <1> USE DEF IInv
  <1>t. ViewOK /\ SockOK /\ WireOK /\ SyncOK /\ TurnOK /\ StoreOK /\ RestOK
    BY TypeParts
  <1>1. UNCHANGED <<cur, messages, gen, bubble, ask, sock, nr, recall, reqs, serving, frames, turn, answer, history, trouble>>
    BY DEF SyncServed, viewVars, sockVars, wireVars, serverVars
  <1>2. sync[k].pc = "asked"
    BY DEF SyncServed
  <1>3. sync[k].sid \in Sessions
    BY <1>2 DEF Wire, WireSync
  <1>4. PICK h \in Seq(Entries) : h = history[sync[k].sid]
    BY <1>t, <1>3 DEF StoreOK
  <1>5. PICK a \in Nat : a = sync[k].after
    BY <1>t DEF SyncOK, SyncRecs
  <1>6. PICK l : l = SubSeq(h, a + 1, Len(h))
    OBVIOUS
  <1>7. /\ l \in Seq(Entries) /\ \A i \in DOMAIN l : \E j \in DOMAIN h : l[i] = h[j]
        /\ l # <<>> => a < Len(h)
    BY <1>6, RestAt
  <1>8. sync' = [sync EXCEPT ![k].pc = "answered", ![k].list = l]
    BY <1>4, <1>5, <1>6 DEF SyncServed
  <1>9. /\ SyncOK' /\ \A z \in Socks \ {k} : sync'[z] = sync[z]
        /\ sync'[k].sid = sync[k].sid /\ sync'[k].after = sync[k].after /\ sync'[k].list = l
    BY <1>t, <1>7, <1>8 DEF SyncOK, SyncRecs
  <1>10. ViewOK' /\ SockOK' /\ WireOK' /\ TurnOK' /\ StoreOK' /\ RestOK'
    BY <1>t, <1>1 DEF ViewOK, SockOK, WireOK, TurnOK, StoreOK, RestOK
  <1>11. TypeOK'
    BY <1>9, <1>10, PartsType
  <1> QED
    BY <1>1, <1>2, <1>3, <1>4, <1>5, <1>7, <1>9, <1>11

LEMMA OnSyncedEffect ==
  ASSUME IInv, NEW k \in Socks, OnSynced(k)
  PROVE  /\ TypeOK'
         /\ \A z \in Socks \ {k} : sync'[z] = sync[z]
         /\ sync'[k] = NoSync
         /\ trouble \subseteq trouble'
         /\ \/ messages' = messages
            \/ /\ \A i \in DOMAIN messages' :
                    \/ i \in DOMAIN messages /\ messages'[i] = messages[i]
                    \/ \E j \in DOMAIN sync[k].list : messages'[i] = sync[k].list[j]
               /\ cur # sync[k].sid => "overtaken" \in trouble'
               /\ Len(messages) # sync[k].after => "overtaken" \in trouble'
               /\ sync[k].pc # "none" /\ sync[k].list # <<>>
         /\ UNCHANGED <<cur, gen, bubble, ask, sock, nr, reqs, serving, frames, turn, answer, history>>
  <1> USE DEF IInv
  <1>t. ViewOK /\ SockOK /\ WireOK /\ SyncOK /\ TurnOK /\ StoreOK /\ RestOK
    BY TypeParts
  <1>1. UNCHANGED <<cur, gen, bubble, ask, sock, nr, recall, reqs, serving, frames, turn, answer, history>>
    BY DEF OnSynced, sockVars, wireVars, serverVars
  <1>2. /\ sync' = [sync EXCEPT ![k] = NoSync] /\ sync[k].pc # "none"
        /\ messages' \in {messages} \cup {messages \o l : l \in {sync[k].list} \ {<<>>}}
        /\ Note("overtaken", messages' # messages /\ (cur # sync[k].sid \/ Len(messages) # sync[k].after))
    BY DEF OnSynced
  <1>3. PICK q \in Seq(Entries) : q = sync[k].list
    BY <1>t DEF SyncOK, SyncRecs
  <1>4. messages' = messages \/ (q # <<>> /\ messages' = messages \o q)
    BY <1>2, <1>3
  <1>5. /\ messages \o q \in Seq(Entries) /\ (q # <<>> => messages \o q # messages)
        /\ \A i \in DOMAIN (messages \o q) : \/ i \in DOMAIN messages /\ (messages \o q)[i] = messages[i]
                                             \/ \E j \in DOMAIN q : (messages \o q)[i] = q[j]
    BY <1>t, ConcatAt DEF ViewOK
  <1>6. SyncOK' /\ (\A z \in Socks \ {k} : sync'[z] = sync[z]) /\ sync'[k] = NoSync
    BY <1>t, <1>2, Made DEF SyncOK
  <1>7. PICK b \in BOOLEAN : b = (messages' # messages /\ (cur # sync[k].sid \/ Len(messages) # sync[k].after))
    OBVIOUS
  <1>8. RestOK' /\ trouble \subseteq trouble' /\ (b => "overtaken" \in trouble')
    BY <1>t, <1>2, <1>7, Noted DEF Causes
  <1>9. \/ messages' = messages
        \/ /\ \A i \in DOMAIN messages' : \/ i \in DOMAIN messages /\ messages'[i] = messages[i]
                                          \/ \E j \in DOMAIN sync[k].list : messages'[i] = sync[k].list[j]
           /\ cur # sync[k].sid => "overtaken" \in trouble'
           /\ Len(messages) # sync[k].after => "overtaken" \in trouble'
           /\ sync[k].pc # "none" /\ sync[k].list # <<>>
    <2>1. CASE q # <<>> /\ messages' = messages \o q
      <3>1. cur # sync[k].sid \/ Len(messages) # sync[k].after => b
        BY <1>5, <1>7, <2>1
      <3> QED
        BY <1>2, <1>3, <1>5, <1>8, <2>1, <3>1
    <2> QED
      BY <1>4, <2>1
  <1>10. messages' \in Seq(Entries)
    BY <1>t, <1>4, <1>5 DEF ViewOK
  <1>11. ViewOK' /\ SockOK' /\ WireOK' /\ TurnOK' /\ StoreOK'
    BY <1>t, <1>1, <1>10 DEF ViewOK, SockOK, WireOK, TurnOK, StoreOK
  <1>12. TypeOK'
    BY <1>6, <1>8, <1>11, PartsType
  <1> QED
    BY <1>1, <1>6, <1>8, <1>9, <1>12

-----------------------------------------------------------------------------
(* What every step has in common.                                          *)

LEMMA TypeStep ==
  ASSUME IInv, [Next]_vars
  PROVE  TypeOK'
  <1>1. CASE UNCHANGED vars
    <2>1. ViewOK /\ SockOK /\ WireOK /\ SyncOK /\ TurnOK /\ StoreOK /\ RestOK
      BY TypeParts DEF IInv
    <2>2. UNCHANGED <<cur, messages, gen, bubble, ask, sock, nr, recall, reqs, serving, frames, sync,
                      turn, answer, history, trouble>>
      BY <1>1 DEF vars, viewVars, sockVars, wireVars, serverVars
    <2>3. ViewOK' /\ SockOK' /\ WireOK' /\ SyncOK' /\ TurnOK' /\ StoreOK' /\ RestOK'
      BY <2>1, <2>2 DEF ViewOK, SockOK, WireOK, SyncOK, TurnOK, StoreOK, RestOK
    <2> QED
      BY <2>3, PartsType
  <1>2. CASE User
    BY <1>2, SendEffect, SelectEffect, RespondEffect, LogoutEffect DEF User
  <1>3. CASE Socket
    BY <1>3, ClosingEffect, OnCloseEffect, ReopenEffect DEF Socket
  <1>4. CASE Server
    BY <1>4, ServeEffect, ServeReplyEffect, SyncServedEffect, PostServedEffect, DoneEffect, ErrorEffect,
       SilentEffect, ProduceEffect, SystemEffect DEF Server
  <1>5. CASE Client
    BY <1>5, OnTextEffect, OnToolEffect, OnSystemEffect, OnAskEffect, OnEndEffect, OnAttachedEffect, OnAnsweredEffect,
       OnSyncedEffect, PostFailsEffect DEF Client
  <1> QED
    BY <1>1, <1>2, <1>3, <1>4, <1>5 DEF Next

\* Only Send begins a turn; else a turn's session and socket stay.
Mild(t, u) == \A m \in Turns : u[m].src = t[m].src /\ u[m].sid = t[m].sid /\ (u[m].pc # "new" <=> t[m].pc # "new")

LEMMA MovedMild ==
  ASSUME NEW t, NEW u, NEW m \in Turns, NEW c, c # "new", t[m].pc # "new", Moved(t, u, m, c)
  PROVE  Mild(t, u)
  BY DEF Moved, Mild

LEMMA MildStep ==
  ASSUME IInv, [Next]_vars
  PROVE  (\E m \in Turns : Send(m)) \/ Mild(turn, turn')
  <1>0. turn' = turn => Mild(turn, turn')
    BY DEF Mild
  <1>1. CASE UNCHANGED vars
    BY <1>0, <1>1 DEF vars, serverVars
  <1>2. CASE User
    BY <1>0, <1>2, SelectEffect, RespondEffect, LogoutEffect DEF User
  <1>3. CASE Socket
    BY <1>0, <1>3, ClosingEffect, OnCloseEffect, ReopenEffect DEF Socket
  <1>4. CASE Serve
    <2>1. \/ turn' = turn
          \/ /\ reqs[1].turn \in Turns /\ turn[reqs[1].turn].pc # "new"
             /\ Moved(turn, turn', reqs[1].turn, "run")
      BY <1>4, ServeEffect
    <2> QED
      BY <1>0, <2>1, MovedMild
  <1>5. CASE ServeReply \/ \E k \in Socks : SyncServed(k)
    BY <1>0, <1>5, ServeReplyEffect, SyncServedEffect
  <1>6. CASE \E m \in Turns : PostServed(m) \/ Done(m) \/ Error(m) \/ Silent(m) \/ PostFails(m)
    <2>1. PICK m \in Turns : PostServed(m) \/ Done(m) \/ Error(m) \/ Silent(m) \/ PostFails(m)
      BY <1>6
    <2>2. turn[m].pc # "new" /\ (Moved(turn, turn', m, "run") \/ Moved(turn, turn', m, "over"))
      BY <2>1, PostServedEffect, DoneEffect, ErrorEffect, SilentEffect, PostFailsEffect
    <2> QED
      BY <2>2, MovedMild
  <1>7. CASE \E m \in Turns : \E kind \in {"text", "tool", "ask"} : Produce(m, kind)
    <2>1. PICK m \in Turns, kind \in {"text", "tool", "ask"} : Produce(m, kind)
      BY <1>7
    <2> QED
      BY <2>1, ProduceEffect DEF Mild
  <1>9. CASE \E m \in Turns : System(m)
    BY <1>9, SystemEffect DEF Mild
  <1>8. CASE OnText \/ OnTool \/ OnSystem \/ OnAsk \/ OnEnd \/ OnAttached \/ OnAnswered \/ \E k \in Socks : OnSynced(k)
    BY <1>0, <1>8, OnTextEffect, OnToolEffect, OnSystemEffect, OnAskEffect, OnEndEffect, OnAttachedEffect, OnAnsweredEffect,
       OnSyncedEffect
  <1> QED
    BY <1>1, <1>2, <1>3, <1>4, <1>5, <1>6, <1>7, <1>8, <1>9 DEF Next, Server, Client

LEMMA SocketStep ==
  ASSUME IInv, [Next]_vars
  PROVE  Reopen \/ nr' = nr
  <1>1. CASE UNCHANGED vars
    BY <1>1 DEF vars, sockVars
  <1>2. CASE User
    BY <1>2, SendEffect, SelectEffect, RespondEffect, LogoutEffect DEF User
  <1>3. CASE Socket
    BY <1>3, ClosingEffect, OnCloseEffect DEF Socket
  <1>4. CASE Server
    BY <1>4, ServeEffect, ServeReplyEffect, SyncServedEffect, PostServedEffect, DoneEffect, ErrorEffect,
       SilentEffect, ProduceEffect, SystemEffect DEF Server
  <1>5. CASE Client
    BY <1>5, OnTextEffect, OnToolEffect, OnSystemEffect, OnAskEffect, OnEndEffect, OnAttachedEffect, OnAnsweredEffect,
       OnSyncedEffect, PostFailsEffect DEF Client
  <1> QED
    BY <1>1, <1>2, <1>3, <1>4, <1>5 DEF Next

\* A frame that is on the way is an old one, a notice of a turn to its socket,
\* or a response.
Fresh(f) ==
  \/ f.kind = "answered"
  \/ f.kind = "attached" /\ serving.kind = "attach" /\ f.sid = serving.sid /\ f.list = serving.list
  \/ \E m \in Turns : /\ turn[m].pc = "run" /\ Sees(m) /\ IsNotice(f)
                      /\ f.part \in Parts /\ f.part.of = m /\ f.sid = turn[m].sid
FramesCome == \A i \in DOMAIN frames' : (\E j \in DOMAIN frames : frames'[i] = frames[j]) \/ Fresh(frames'[i])

LEMMA FramesStep ==
  ASSUME IInv, [Next]_vars
  PROVE  FramesCome
  <1>0. frames' = frames \/ frames' = <<>> \/ Taken(frames, frames') => FramesCome
    <2>1. DOMAIN <<>> = {}
      OBVIOUS
    <2> QED
      BY <2>1 DEF FramesCome, Taken
  <1>1. CASE UNCHANGED vars
    BY <1>0, <1>1 DEF vars, wireVars
  <1>2. CASE User
    BY <1>0, <1>2, SendEffect, SelectEffect, RespondEffect, LogoutEffect DEF User
  <1>3. CASE Socket
    BY <1>0, <1>3, ClosingEffect, OnCloseEffect, ReopenEffect DEF Socket
  <1>4. CASE Serve \/ \E k \in Socks : SyncServed(k)
    BY <1>0, <1>4, ServeEffect, SyncServedEffect
  <1>5. CASE ServeReply
    <2>1. PICK f \in FrameRecs : Added(frames, frames', f) /\ Fresh(f)
      BY <1>5, ServeReplyEffect DEF Fresh
    <2> QED
      BY <2>1 DEF FramesCome, Added
  <1>6. CASE \E m \in Turns : PostServed(m) \/ Silent(m) \/ PostFails(m)
    BY <1>0, <1>6, PostServedEffect, SilentEffect, PostFailsEffect
  <1>7. CASE \E m \in Turns : System(m) \/ Done(m) \/ Error(m) \/ \E kind \in {"text", "tool", "ask"} : Produce(m, kind)
    <2>1. PICK m \in Turns : System(m) \/ Done(m) \/ Error(m) \/ \E kind \in {"text", "tool", "ask"} : Produce(m, kind)
      BY <1>7
    <2>2. turn[m].events \in Nat
      BY TypeParts DEF IInv, TurnOK, TurnRecs
    <2>3. /\ turn[m].pc = "run"
          /\ ~Sees(m) => frames' = frames
          /\ Sees(m) => \E k \in {"text", "tool", "system", "ask", "done", "error"}, n \in Nat :
                          Added(frames, frames', Frame(k, turn[m].sid, Part(m, n), <<>>, FALSE))
      <3>1. CASE Done(m)
        BY <3>1, DoneEffect
      <3>2. CASE Error(m)
        BY <3>2, ErrorEffect
      <3>3. CASE \E kind \in {"text", "tool", "ask"} : Produce(m, kind)
        <4>1. PICK kind \in {"text", "tool", "ask"} : Produce(m, kind)
          BY <3>3
        <4>2. PICK n \in Nat : n = turn[m].events + 1
          BY <2>2
        <4>3. /\ turn[m].pc = "run"
              /\ ~Sees(m) => frames' = frames
              /\ Sees(m) => Added(frames, frames', Frame(kind, turn[m].sid, Part(m, n), <<>>, FALSE))
          BY <4>1, <4>2, ProduceEffect
        <4> QED
          BY <4>3
      <3>4. CASE System(m)
        <4>1. PICK n \in Nat : n = turn[m].events + 1
          BY <2>2
        <4>2. /\ turn[m].pc = "run"
              /\ ~Sees(m) => frames' = frames
              /\ Sees(m) => Added(frames, frames', Frame("system", turn[m].sid, Part(m, n), <<>>, FALSE))
          BY <3>4, <4>1, SystemEffect
        <4> QED
          BY <4>2
      <3> QED
        BY <2>1, <3>1, <3>2, <3>3, <3>4
    <2>4. CASE Sees(m)
      <3>1. PICK k \in {"text", "tool", "system", "ask", "done", "error"}, n \in Nat :
              Added(frames, frames', Frame(k, turn[m].sid, Part(m, n), <<>>, FALSE))
        BY <2>3, <2>4
      <3>2. PICK f : f = Frame(k, turn[m].sid, Part(m, n), <<>>, FALSE)
        OBVIOUS
      <3>3. f.kind = k /\ f.sid = turn[m].sid /\ f.part \in Parts /\ f.part.of = m
        BY <3>2, Made DEF Frame, Part
      <3>4. Fresh(f)
        BY <2>3, <2>4, <3>3 DEF Fresh, IsNotice
      <3>5. Added(frames, frames', f)
        BY <3>1, <3>2
      <3> QED
        BY <3>4, <3>5 DEF FramesCome, Added
    <2> QED
      BY <1>0, <2>3, <2>4
  <1>8. CASE OnText \/ OnTool \/ OnSystem \/ OnAsk \/ OnEnd \/ OnAttached \/ OnAnswered \/ \E k \in Socks : OnSynced(k)
    BY <1>0, <1>8, OnTextEffect, OnToolEffect, OnSystemEffect, OnAskEffect, OnEndEffect, OnAttachedEffect, OnAnsweredEffect,
       OnSyncedEffect
  <1> QED
    BY <1>1, <1>2, <1>3, <1>4, <1>5, <1>6, <1>7, <1>8 DEF Next, Server, Client

\* What has begun stays where it is.
Keeps(t, u) == \A m \in Turns : t[m].pc # "new" => u[m].pc # "new" /\ u[m].sid = t[m].sid /\ u[m].src = t[m].src

LEMMA KeepsStep ==
  ASSUME IInv, [Next]_vars
  PROVE  Keeps(turn, turn')
  <1>1. CASE \E m \in Turns : Send(m)
    <2>1. PICK m \in Turns : Send(m)
      BY <1>1
    <2>2. turn[m].pc = "new" /\ \A h \in Turns \ {m} : turn'[h] = turn[h]
      BY <2>1, SendEffect
    <2> QED
      BY <2>2 DEF Keeps
  <1>2. CASE Mild(turn, turn')
    BY <1>2 DEF Mild, Keeps
  <1> QED
    BY <1>1, <1>2, MildStep

-----------------------------------------------------------------------------
(* Requests and frames are about their turns.                              *)

LEMMA SocketNumber ==
  ASSUME IInv
  PROVE  nr \in Nat /\ nr # 0 /\ \A m \in Turns : turn[m].src \in Nat /\ turn[m].events \in Nat
  <1>1. SockOK /\ TurnOK
    BY TypeParts DEF IInv
  <1> QED
    BY <1>1, BoundsNat DEF SockOK, TurnOK, TurnRecs, Socks

LEMMA WireTurnsStep ==
  ASSUME IInv, [Next]_vars
  PROVE  WireTurns'
  <1>1. nr \in Nat /\ (nr' = nr \/ nr' = nr + 1) /\ \A m \in Turns : turn[m].src \in Nat /\ turn[m].src <= nr
    BY SocketStep, ReopenEffect, SocketNumber DEF IInv, Wire, WireTurns
  <1>2. CASE \E m \in Turns : Send(m)
    <2>1. PICK m \in Turns : Send(m)
      BY <1>2
    <2>2. /\ \A h \in Turns \ {m} : turn'[h] = turn[h]
          /\ turn'[m].sid = cur /\ cur \in Sessions /\ turn'[m].src = IF sock = "open" THEN nr ELSE 0
          /\ nr' = nr
      BY <2>1, SendEffect
    <2>3. \A h \in Turns : turn[h].pc # "new" => turn[h].sid \in Sessions
      BY DEF IInv, Wire, WireTurns, Begun
    <2> QED
      BY <1>1, <2>2, <2>3 DEF WireTurns, Begun
  <1>3. CASE Mild(turn, turn')
    <2>1. \A h \in Turns : turn[h].pc # "new" => turn[h].sid \in Sessions
      BY DEF IInv, Wire, WireTurns, Begun
    <2> QED
      BY <1>1, <1>3, <2>1 DEF WireTurns, Begun, Mild
  <1> QED
    BY <1>2, <1>3, MildStep

\* The message that is on its way stays there.
SentStay == \A m \in Turns : turn[m].pc = "sent" /\ turn[m].src = nr =>
                               turn'[m].pc = "sent" /\ turn'[m].src = nr /\ turn'[m].sid = turn[m].sid

LEMMA ReqsKeep ==
  ASSUME IInv, nr' = nr, SentStay,
         \A i \in DOMAIN reqs' : \/ \E j \in DOMAIN reqs : reqs'[i] = reqs[j]
                                 \/ reqs'[i].kind = "attach"
                                 \/ reqs'[i].kind = "answer" /\ reqs'[i].turn \in Turns
  PROVE  WireReqs'
  <1>1. WireReqs
    BY DEF IInv, Wire
  <1>2. ASSUME NEW i \in DOMAIN reqs'
        PROVE  /\ reqs'[i].kind # "attach" => reqs'[i].turn \in Turns
               /\ reqs'[i].kind = "message" => /\ turn'[reqs'[i].turn].sid = reqs'[i].sid
                                               /\ turn'[reqs'[i].turn].src = nr'
                                               /\ turn'[reqs'[i].turn].pc = "sent"
    <2>1. CASE \E j \in DOMAIN reqs : reqs'[i] = reqs[j]
      <3>1. PICK j \in DOMAIN reqs : reqs'[i] = reqs[j]
        BY <2>1
      <3>2. PICK r : r = reqs[j]
        OBVIOUS
      <3>3. /\ r.kind # "attach" => r.turn \in Turns
            /\ r.kind = "message" => turn[r.turn].sid = r.sid /\ turn[r.turn].src = nr /\ turn[r.turn].pc = "sent"
        BY <1>1, <3>2 DEF WireReqs
      <3>4. r.kind = "message" => /\ turn'[r.turn].sid = r.sid /\ turn'[r.turn].src = nr
                                  /\ turn'[r.turn].pc = "sent"
        BY <3>3 DEF SentStay
      <3> QED
        BY <3>1, <3>2, <3>3, <3>4
    <2> QED
      BY <2>1
  <1> QED
    BY <1>2 DEF WireReqs

LEMMA MovedSent ==
  ASSUME IInv, NEW m \in Turns, NEW c, Moved(turn, turn', m, c), turn[m].pc # "sent" \/ turn[m].src = 0
  PROVE  SentStay
  BY SocketNumber DEF Moved, SentStay

LEMMA WireReqsStep ==
  ASSUME IInv, [Next]_vars
  PROVE  WireReqs'
  <1>0. turn' = turn => SentStay
    BY DEF SentStay
  <1>1. CASE UNCHANGED vars
    BY <1>0, <1>1, ReqsKeep DEF vars, serverVars, wireVars, sockVars
  <1>2. CASE \E m \in Turns : Send(m)
    <2>1. PICK m \in Turns : Send(m)
      BY <1>2
    <2>2. /\ turn[m].pc = "new" /\ \A h \in Turns \ {m} : turn'[h] = turn[h]
          /\ turn'[m].pc = "sent" /\ turn'[m].sid = cur /\ turn'[m].src = IF sock = "open" THEN nr ELSE 0
          /\ sock = "open" => Added(reqs, reqs', Request("message", cur, m, FALSE))
          /\ sock # "open" => reqs' = reqs
          /\ nr' = nr
      BY <2>1, SendEffect
    <2>3. SentStay
      BY <2>2 DEF SentStay
    <2>4. CASE sock # "open"
      BY <2>2, <2>3, <2>4, ReqsKeep
    <2>5. CASE sock = "open"
      <3>1. PICK r : r = Request("message", cur, m, FALSE)
        OBVIOUS
      <3>2. r.kind = "message" /\ r.turn = m /\ r.sid = cur
        BY <3>1 DEF Request
      <3>3. Added(reqs, reqs', r)
        BY <2>2, <2>5, <3>1
      <3>4. ASSUME NEW i \in DOMAIN reqs'
            PROVE  /\ reqs'[i].kind # "attach" => reqs'[i].turn \in Turns
                   /\ reqs'[i].kind = "message" => /\ turn'[reqs'[i].turn].sid = reqs'[i].sid
                                                   /\ turn'[reqs'[i].turn].src = nr'
                                                   /\ turn'[reqs'[i].turn].pc = "sent"
        <4>1. CASE reqs'[i] = r
          BY <2>2, <2>5, <3>2, <4>1
        <4>2. CASE i \in DOMAIN reqs /\ reqs'[i] = reqs[i]
          <5>1. PICK q : q = reqs[i]
            OBVIOUS
          <5>2. /\ q.kind # "attach" => q.turn \in Turns
                /\ q.kind = "message" => turn[q.turn].sid = q.sid /\ turn[q.turn].src = nr /\ turn[q.turn].pc = "sent"
            BY <4>2, <5>1 DEF IInv, Wire, WireReqs
          <5> QED
            BY <2>2, <2>3, <4>2, <5>1, <5>2 DEF SentStay
        <4> QED
          BY <3>3, <4>1, <4>2 DEF Added
      <3> QED
        BY <3>4 DEF WireReqs
    <2> QED
      BY <2>4, <2>5
  <1>3. CASE \E s \in Sessions : Select(s)
    <2>1. PICK s \in Sessions : Select(s)
      BY <1>3
    <2>2. Added(reqs, reqs', Request("attach", s, None, FALSE)) /\ turn' = turn /\ nr' = nr
      BY <2>1, SelectEffect
    <2>3. Request("attach", s, None, FALSE).kind = "attach"
      BY DEF Request
    <2> QED
      BY <1>0, <2>2, <2>3, ReqsKeep DEF Added
  <1>4. CASE Respond
    <2>1. Added(reqs, reqs', Request("answer", cur, ask.of, FALSE)) /\ turn' = turn /\ nr' = nr /\ ask.of \in Turns
      BY <1>4, RespondEffect
    <2>2. Request("answer", cur, ask.of, FALSE).kind = "answer" /\ Request("answer", cur, ask.of, FALSE).turn = ask.of
      BY DEF Request
    <2> QED
      BY <1>0, <2>1, <2>2, ReqsKeep DEF Added
  <1>5. CASE Logout \/ Closing
    <2>1. reqs' = <<>> /\ turn' = turn /\ nr' = nr
      BY <1>5, LogoutEffect, ClosingEffect
    <2>2. DOMAIN <<>> = {}
      OBVIOUS
    <2> QED
      BY <1>0, <2>1, <2>2, ReqsKeep
  <1>6. CASE Reopen
    <2>1. \A i \in DOMAIN reqs' : reqs'[i].kind = "attach"
      BY <1>6, ReopenEffect
    <2> QED
      BY <2>1 DEF WireReqs
  <1>7. CASE Serve
    <2>1. Taken(reqs, reqs') /\ nr' = nr
      BY <1>7, ServeEffect
    <2>2. CASE turn' = turn
      BY <1>0, <2>1, <2>2, ReqsKeep DEF Taken
    <2>3. CASE reqs[1].kind = "answer" /\ turn[reqs[1].turn].pc = "ask" /\ Moved(turn, turn', reqs[1].turn, "run")
      <3>1. PICK m \in Turns : m = reqs[1].turn
        BY <1>7, <2>3, ServeEffect
      <3>2. SentStay
        BY <2>3, <3>1, MovedSent
      <3> QED
        BY <2>1, <3>2, ReqsKeep DEF Taken
    <2>4. CASE reqs[1].kind = "message" /\ Moved(turn, turn', reqs[1].turn, "run")
      <3>1. ASSUME NEW i \in DOMAIN reqs'
            PROVE  reqs'[i].kind # "message" /\ (reqs'[i].kind # "attach" => reqs'[i].turn \in Turns)
        <4>1. i \in 1 .. Len(reqs) - 1 /\ i + 1 \in DOMAIN reqs /\ reqs'[i] = reqs[i + 1] /\ 1 \in DOMAIN reqs
          BY <2>1 DEF Taken
        <4>2. i + 1 # 1
          BY <4>1
        <4>3. reqs[i + 1].kind # "message"
          BY <2>4, <4>1, <4>2 DEF IInv, Single, OneAsked
        <4>4. reqs[i + 1].kind # "attach" => reqs[i + 1].turn \in Turns
          BY <4>1 DEF IInv, Wire, WireReqs
        <4> QED
          BY <4>1, <4>3, <4>4
      <3> QED
        BY <3>1 DEF WireReqs
    <2> QED
      BY <1>7, <2>2, <2>3, <2>4, ServeEffect
  <1>8. CASE \E m \in Turns : PostServed(m) \/ Done(m) \/ Error(m) \/ Silent(m) \/ PostFails(m)
    <2>1. PICK m \in Turns : PostServed(m) \/ Done(m) \/ Error(m) \/ Silent(m) \/ PostFails(m)
      BY <1>8
    <2>2. /\ turn[m].pc # "sent" \/ turn[m].src = 0
          /\ Moved(turn, turn', m, "run") \/ Moved(turn, turn', m, "over")
          /\ reqs' = reqs /\ nr' = nr
      BY <2>1, PostServedEffect, DoneEffect, ErrorEffect, SilentEffect, PostFailsEffect
    <2>3. SentStay
      BY <2>2, MovedSent
    <2> QED
      BY <2>2, <2>3, ReqsKeep
  <1>9. CASE \E m \in Turns : \E kind \in {"text", "tool", "ask"} : Produce(m, kind)
    <2>1. PICK m \in Turns, kind \in {"text", "tool", "ask"} : Produce(m, kind)
      BY <1>9
    <2>2. turn[m].pc = "run" /\ (\A h \in Turns \ {m} : turn'[h] = turn[h]) /\ reqs' = reqs /\ nr' = nr
      BY <2>1, ProduceEffect
    <2>3. SentStay
      BY <2>2 DEF SentStay
    <2> QED
      BY <2>2, <2>3, ReqsKeep
  <1>11. CASE \E m \in Turns : System(m)
    <2>1. PICK m \in Turns : System(m)
      BY <1>11
    <2>2. turn[m].pc = "run" /\ (\A h \in Turns \ {m} : turn'[h] = turn[h]) /\ reqs' = reqs /\ nr' = nr
      BY <2>1, SystemEffect
    <2>3. SentStay
      BY <2>2 DEF SentStay
    <2> QED
      BY <2>2, <2>3, ReqsKeep
  <1>10. CASE OnClose \/ ServeReply \/ (\E k \in Socks : SyncServed(k)) \/ OnText \/ OnTool \/ OnSystem \/ OnAsk \/ OnEnd
              \/ OnAttached \/ OnAnswered \/ (\E k \in Socks : OnSynced(k))
    <2>1. reqs' = reqs /\ turn' = turn /\ nr' = nr
      BY <1>10, OnCloseEffect, ServeReplyEffect, SyncServedEffect, OnTextEffect, OnToolEffect, OnSystemEffect, OnAskEffect,
         OnEndEffect, OnAttachedEffect, OnAnsweredEffect, OnSyncedEffect
    <2> QED
      BY <1>0, <2>1, ReqsKeep
  <1> QED
    BY <1>1, <1>2, <1>3, <1>4, <1>5, <1>6, <1>7, <1>8, <1>9, <1>10, <1>11 DEF Next, User, Socket, Server, Client

LEMMA WireServingStep ==
  ASSUME IInv, [Next]_vars
  PROVE  WireServing'
  <1>1. WireServing
    BY DEF IInv, Wire
  <1>2. CASE UNCHANGED vars
    BY <1>1, <1>2 DEF WireServing, vars, wireVars
  <1>3. CASE User
    BY <1>1, <1>3, SendEffect, SelectEffect, RespondEffect, LogoutEffect DEF WireServing, User
  <1>4. CASE Socket
    BY <1>1, <1>4, ClosingEffect, OnCloseEffect, ReopenEffect DEF WireServing, Socket
  <1>5. CASE Serve
    <2>1. reqs[1].sid \in Sessions
      BY <1>5, ServeEffect DEF ReqRecs
    <2> QED
      BY <1>5, <2>1, ServeEffect DEF WireServing
  <1>6. CASE ServeReply
    BY <1>6, ServeReplyEffect DEF WireServing
  <1>7. CASE (\E k \in Socks : SyncServed(k)) \/ \E m \in Turns : PostServed(m) \/ Done(m) \/ Error(m) \/ Silent(m)
    BY <1>1, <1>7, SyncServedEffect, PostServedEffect, DoneEffect, ErrorEffect, SilentEffect DEF WireServing
  <1>8. CASE (\E m \in Turns : System(m)) \/ \E m \in Turns : \E kind \in {"text", "tool", "ask"} : Produce(m, kind)
    BY <1>1, <1>8, SystemEffect, ProduceEffect DEF WireServing
  <1>9. CASE Client
    BY <1>1, <1>9, OnTextEffect, OnToolEffect, OnSystemEffect, OnAskEffect, OnEndEffect, OnAttachedEffect, OnAnsweredEffect,
       OnSyncedEffect, PostFailsEffect DEF Client, WireServing
  <1> QED
    BY <1>2, <1>3, <1>4, <1>5, <1>6, <1>7, <1>8, <1>9 DEF Next, Server

LEMMA WireFramesStep ==
  ASSUME IInv, [Next]_vars
  PROVE  WireFrames'
  <1>1. CASE Reopen
    <2>1. frames' = <<>>
      BY <1>1, ReopenEffect
    <2>2. DOMAIN <<>> = {}
      OBVIOUS
    <2> QED
      BY <2>1, <2>2 DEF WireFrames
  <1>2. CASE nr' = nr
    <2> SUFFICES ASSUME NEW i \in DOMAIN frames', IsNotice(frames'[i])
                 PROVE  /\ frames'[i].part \in Parts /\ turn'[frames'[i].part.of].pc # "new"
                        /\ turn'[frames'[i].part.of].sid = frames'[i].sid /\ turn'[frames'[i].part.of].src = nr'
      BY DEF WireFrames, Begun, IsNotice
    <2>1. PICK f : f = frames'[i]
      OBVIOUS
    <2>2. f.part \in Parts /\ turn[f.part.of].pc # "new" /\ turn[f.part.of].sid = f.sid /\ turn[f.part.of].src = nr
      <3>1. CASE \E j \in DOMAIN frames : f = frames[j]
        BY <2>1, <3>1 DEF IInv, Wire, WireFrames, Begun
      <3>2. CASE Fresh(f)
        <4>1. \E m \in Turns : /\ turn[m].pc = "run" /\ Sees(m)
                               /\ f.part \in Parts /\ f.part.of = m /\ f.sid = turn[m].sid
          BY <2>1, <3>2 DEF Fresh, IsNotice
        <4> QED
          BY <4>1 DEF Sees
      <3> QED
        BY <2>1, <3>1, <3>2, FramesStep DEF FramesCome
    <2>3. f.part.of \in Turns
      BY <2>2 DEF Parts
    <2> QED
      BY <1>2, <2>1, <2>2, <2>3, KeepsStep DEF Keeps
  <1> QED
    BY <1>1, <1>2, SocketStep

LEMMA WireSyncStep ==
  ASSUME IInv, [Next]_vars
  PROVE  WireSync'
  <1>1. WireSync
    BY DEF IInv, Wire
  <1>0. sync' = sync => WireSync'
    BY <1>1 DEF WireSync
  <1>2. CASE UNCHANGED vars
    BY <1>0, <1>2 DEF vars
  <1>3. CASE User
    BY <1>0, <1>3, SendEffect, SelectEffect, RespondEffect, LogoutEffect DEF User
  <1>4. CASE Socket
    BY <1>0, <1>4, ClosingEffect, OnCloseEffect, ReopenEffect DEF Socket
  <1>5. CASE Serve \/ ServeReply \/ \E m \in Turns : PostServed(m) \/ Done(m) \/ Error(m) \/ Silent(m) \/ PostFails(m)
    BY <1>0, <1>5, ServeEffect, ServeReplyEffect, PostServedEffect, DoneEffect, ErrorEffect, SilentEffect, PostFailsEffect
  <1>6. CASE (\E m \in Turns : System(m)) \/ \E m \in Turns : \E kind \in {"text", "tool", "ask"} : Produce(m, kind)
    BY <1>0, <1>6, SystemEffect, ProduceEffect
  <1>7. CASE OnText \/ OnTool \/ OnSystem \/ OnAsk \/ OnEnd \/ OnAnswered
    BY <1>0, <1>7, OnTextEffect, OnToolEffect, OnSystemEffect, OnAskEffect, OnEndEffect, OnAnsweredEffect
  <1>8. CASE OnAttached
    BY <1>1, <1>8, OnAttachedEffect DEF WireSync
  <1>9. CASE \E k \in Socks : SyncServed(k)
    <2>1. PICK k \in Socks : SyncServed(k)
      BY <1>9
    <2>2. sync[k].sid \in Sessions /\ sync'[k].sid = sync[k].sid /\ \A z \in Socks \ {k} : sync'[z] = sync[z]
      BY <2>1, SyncServedEffect
    <2> QED
      BY <1>1, <2>2 DEF WireSync
  <1>10. CASE \E k \in Socks : OnSynced(k)
    <2>1. PICK k \in Socks : OnSynced(k)
      BY <1>10
    <2>2. sync'[k] = NoSync /\ \A z \in Socks \ {k} : sync'[z] = sync[z]
      BY <2>1, OnSyncedEffect
    <2> QED
      BY <1>1, <2>2 DEF WireSync, NoSync
  <1> QED
    BY <1>2, <1>3, <1>4, <1>5, <1>6, <1>7, <1>8, <1>9, <1>10 DEF Next, Server, Client

LEMMA WireStep ==
  ASSUME IInv, [Next]_vars
  PROVE  Wire'
  BY WireTurnsStep, WireReqsStep, WireServingStep, WireFramesStep, WireSyncStep DEF Wire

-----------------------------------------------------------------------------
(* What is stored of a session, or read from it, belongs to it.            *)

LEMMA OfSessionKeeps ==
  ASSUME NEW t, NEW u, Keeps(t, u), NEW e \in Entries, NEW s, OfSession(t, e, s)
  PROVE  OfSession(u, e, s)
  <1>1. e.turn \in Turns /\ e.text \in Seq(Parts)
    BY DEF Entries
  <1>2. \A j \in DOMAIN e.text : e.text[j] \in Parts
    BY <1>1, ElementAt
  <1>3. \A j \in DOMAIN e.text : e.text[j].of \in Turns
    BY <1>2 DEF Parts
  <1> QED
    BY <1>1, <1>3 DEF OfSession, Keeps

LEMMA ReadKeeps ==
  ASSUME NEW t, NEW u, Keeps(t, u), NEW l \in Seq(Entries), NEW s, Read(t, l, s)
  PROVE  Read(u, l, s)
  <1>1. \A i \in DOMAIN l : l[i] \in Entries
    BY ElementAt
  <1> QED
    BY <1>1, OfSessionKeeps DEF Read

LEMMA ReadAdds ==
  ASSUME NEW u, NEW q, NEW p, NEW e, NEW s, Read(u, q, s), Added(q, p, e), e.by = "server", OfSession(u, e, s)
  PROVE  Read(u, p, s)
  <1>1. \A i \in DOMAIN p : (i \in DOMAIN q /\ p[i] = q[i]) \/ p[i] = e
    BY DEF Added
  <1> QED
    BY <1>1 DEF Read

LEMMA HistoryBelongs ==
  ASSUME IInv, [Next]_vars
  PROVE  \A s \in Sessions : Read(turn', history'[s], s)
  <1>0. \A s \in Sessions : Read(turn', history[s], s)
    <2>1. \A s \in Sessions : history[s] \in Seq(Entries) /\ Read(turn, history[s], s)
      BY TypeParts DEF IInv, StoreOK, Belongs
    <2> QED
      BY <2>1, KeepsStep, ReadKeeps
  <1>1. ASSUME NEW s \in Sessions, NEW e, Logged(history, history', s, e), e.by = "server", OfSession(turn', e, s)
        PROVE  \A z \in Sessions : Read(turn', history'[z], z)
    <2>1. Added(history[s], history'[s], e) /\ \A z \in Sessions \ {s} : history'[z] = history[z]
      BY <1>1 DEF Logged
    <2>2. Read(turn', history'[s], s)
      BY <1>0, <1>1, <2>1, ReadAdds
    <2> QED
      BY <1>0, <2>1, <2>2
  <1>2. ASSUME NEW m \in Turns, turn'[m].pc # "new", Logged(history, history', turn'[m].sid, Entry("server", "user", m, <<>>)),
               turn'[m].sid \in Sessions
        PROVE  \A z \in Sessions : Read(turn', history'[z], z)
    <2>1. PICK e : e = Entry("server", "user", m, <<>>)
      OBVIOUS
    <2>2. DOMAIN <<>> = {}
      OBVIOUS
    <2>3. e.by = "server" /\ e.turn = m /\ e.text = <<>>
      BY <2>1 DEF Entry
    <2>4. OfSession(turn', e, turn'[m].sid)
      BY <1>2, <2>2, <2>3 DEF OfSession
    <2> QED
      BY <1>1, <1>2, <2>1, <2>3, <2>4
  <1>3. CASE UNCHANGED vars
    BY <1>0, <1>3 DEF vars, serverVars
  <1>4. CASE User
    BY <1>0, <1>4, SendEffect, SelectEffect, RespondEffect, LogoutEffect DEF User
  <1>5. CASE Socket
    BY <1>0, <1>5, ClosingEffect, OnCloseEffect, ReopenEffect DEF Socket
  <1>6. CASE Serve
    <2>1. CASE history' = history
      BY <1>0, <2>1
    <2>2. CASE /\ reqs[1].kind = "message" /\ reqs[1].turn \in Turns
               /\ Moved(turn, turn', reqs[1].turn, "run")
               /\ Logged(history, history', reqs[1].sid, Entry("server", "user", reqs[1].turn, <<>>))
      <3>1. PICK m \in Turns : m = reqs[1].turn
        BY <2>2
      <3>2. 1 \in DOMAIN reqs /\ reqs[1].sid \in Sessions
        BY <1>6, ServeEffect DEF Taken, ReqRecs
      <3>3. turn[m].sid = reqs[1].sid
        BY <2>2, <3>1, <3>2 DEF IInv, Wire, WireReqs
      <3>4. turn'[m].sid = reqs[1].sid /\ turn'[m].pc = "run"
        BY <2>2, <3>1, <3>3 DEF Moved
      <3> QED
        BY <1>2, <2>2, <3>1, <3>2, <3>4
    <2> QED
      BY <1>6, <2>1, <2>2, ServeEffect
  <1>7. CASE ServeReply \/ (\E k \in Socks : SyncServed(k)) \/ \E m \in Turns : Error(m) \/ Silent(m) \/ PostFails(m)
    BY <1>0, <1>7, ServeReplyEffect, SyncServedEffect, ErrorEffect, SilentEffect, PostFailsEffect
  <1>8. CASE \E m \in Turns : \E kind \in {"text", "tool", "ask"} : Produce(m, kind)
    BY <1>0, <1>8, ProduceEffect
  <1>9. CASE \E m \in Turns : PostServed(m)
    <2>1. PICK m \in Turns : PostServed(m)
      BY <1>9
    <2>2. /\ turn[m].sid \in Sessions /\ Moved(turn, turn', m, "run")
          /\ Logged(history, history', turn[m].sid, Entry("server", "user", m, <<>>))
      BY <2>1, PostServedEffect
    <2>3. turn'[m].sid = turn[m].sid /\ turn'[m].pc = "run"
      BY <2>2 DEF Moved
    <2> QED
      BY <1>2, <2>2, <2>3
  <1>10. CASE \E m \in Turns : Done(m)
    <2>1. PICK m \in Turns : Done(m)
      BY <1>10
    <2>2. /\ turn[m].sid \in Sessions /\ Moved(turn, turn', m, "over")
          /\ Logged(history, history', turn[m].sid, Entry("server", "assistant", m, answer[m]))
      BY <2>1, DoneEffect
    <2>3. turn'[m].sid = turn[m].sid /\ turn'[m].pc = "over"
      BY <2>2 DEF Moved
    <2>4. PICK e : e = Entry("server", "assistant", m, answer[m])
      OBVIOUS
    <2>5. e.by = "server" /\ e.turn = m /\ e.text = answer[m]
      BY <2>4 DEF Entry
    <2>6. \A j \in DOMAIN answer[m] : answer[m][j].of = m
      BY DEF IInv, Belongs
    <2>7. OfSession(turn', e, turn[m].sid)
      BY <2>3, <2>5, <2>6 DEF OfSession
    <2> QED
      BY <1>1, <2>2, <2>4, <2>5, <2>7
  <1>12. CASE \E m \in Turns : System(m)
    <2>1. PICK m \in Turns : System(m)
      BY <1>12
    <2>2. PICK p \in Parts : p = Part(m, turn[m].events + 1)
      BY <2>1, SystemEffect
    <2>3. PICK e : e = Entry("server", "system", m, <<p>>)
      OBVIOUS
    <2>4. turn[m].sid \in Sessions /\ turn'[m].sid = turn[m].sid /\ turn'[m].pc = "run" /\ Logged(history, history', turn[m].sid, e)
      BY <2>1, <2>2, <2>3, SystemEffect
    <2>5. e.by = "server" /\ e.turn = m /\ e.text = <<p>> /\ p.of = m
      BY <2>2, <2>3 DEF Entry, Part
    <2>6. \A j \in DOMAIN <<p>> : <<p>>[j] = p
      OBVIOUS
    <2>7. OfSession(turn', e, turn[m].sid)
      BY <2>4, <2>5, <2>6 DEF OfSession
    <2> QED
      BY <1>1, <2>4, <2>5, <2>7
  <1>11. CASE OnText \/ OnTool \/ OnSystem \/ OnAsk \/ OnEnd \/ OnAttached \/ OnAnswered \/ \E k \in Socks : OnSynced(k)
    BY <1>0, <1>11, OnTextEffect, OnToolEffect, OnSystemEffect, OnAskEffect, OnEndEffect, OnAttachedEffect, OnAnsweredEffect,
       OnSyncedEffect
  <1> QED
    BY <1>3, <1>4, <1>5, <1>6, <1>7, <1>8, <1>9, <1>10, <1>11, <1>12 DEF Next, Server, Client

LEMMA ServingBelongs ==
  ASSUME IInv, [Next]_vars
  PROVE  serving'.kind = "attach" => Read(turn', serving'.list, serving'.sid)
  <1>0. serving' = serving \/ serving' = NoRequest => (serving'.kind = "attach" => Read(turn', serving'.list, serving'.sid))
    <2>1. serving.list \in Seq(Entries) /\ (serving.kind = "attach" => Read(turn, serving.list, serving.sid))
      BY TypeParts DEF IInv, WireOK, ServRecs, Belongs
    <2>2. serving.kind = "attach" => Read(turn', serving.list, serving.sid)
      BY <2>1, KeepsStep, ReadKeeps
    <2> QED
      BY <2>2 DEF NoRequest, Request
  <1>1. CASE UNCHANGED vars
    BY <1>0, <1>1 DEF vars, wireVars
  <1>2. CASE User
    BY <1>0, <1>2, SendEffect, SelectEffect, RespondEffect, LogoutEffect DEF User
  <1>3. CASE Socket
    BY <1>0, <1>3, ClosingEffect, OnCloseEffect, ReopenEffect DEF Socket
  <1>4. CASE Serve
    <2>1. CASE serving'.sid = reqs[1].sid /\ serving'.list = history[reqs[1].sid] /\ history' = history
      <3>1. reqs[1].sid \in Sessions
        BY <1>4, ServeEffect DEF ReqRecs
      <3> QED
        BY <2>1, <3>1, HistoryBelongs
    <2>2. CASE serving' = reqs[1] /\ reqs[1].kind = "answer"
      BY <2>2
    <2>3. CASE serving' = NoRequest
      BY <1>0, <2>3
    <2> QED
      BY <1>4, <2>1, <2>2, <2>3, ServeEffect
  <1>5. CASE ServeReply \/ (\E k \in Socks : SyncServed(k))
              \/ \E m \in Turns : PostServed(m) \/ Done(m) \/ Error(m) \/ Silent(m) \/ PostFails(m)
    BY <1>0, <1>5, ServeReplyEffect, SyncServedEffect, PostServedEffect, DoneEffect, ErrorEffect, SilentEffect,
       PostFailsEffect
  <1>6. CASE (\E m \in Turns : System(m)) \/ \E m \in Turns : \E kind \in {"text", "tool", "ask"} : Produce(m, kind)
    BY <1>0, <1>6, SystemEffect, ProduceEffect
  <1>7. CASE OnText \/ OnTool \/ OnSystem \/ OnAsk \/ OnEnd \/ OnAttached \/ OnAnswered \/ \E k \in Socks : OnSynced(k)
    BY <1>0, <1>7, OnTextEffect, OnToolEffect, OnSystemEffect, OnAskEffect, OnEndEffect, OnAttachedEffect, OnAnsweredEffect,
       OnSyncedEffect
  <1> QED
    BY <1>1, <1>2, <1>3, <1>4, <1>5, <1>6, <1>7 DEF Next, Server, Client

LEMMA FramesBelong ==
  ASSUME IInv, [Next]_vars
  PROVE  \A i \in DOMAIN frames' : frames'[i].kind = "attached" => Read(turn', frames'[i].list, frames'[i].sid)
  <1> SUFFICES ASSUME NEW i \in DOMAIN frames', frames'[i].kind = "attached"
               PROVE  Read(turn', frames'[i].list, frames'[i].sid)
    OBVIOUS
  <1>1. PICK f : f = frames'[i]
    OBVIOUS
  <1>2. f.list \in Seq(Entries) /\ Read(turn, f.list, f.sid)
    <2>1. WireOK
      BY TypeParts DEF IInv
    <2>2. CASE \E j \in DOMAIN frames : f = frames[j]
      <3>1. PICK j \in DOMAIN frames : f = frames[j]
        BY <2>2
      <3>2. f \in FrameRecs
        BY <2>1, <3>1, ElementAt DEF WireOK
      <3> QED
        BY <1>1, <3>1, <3>2 DEF IInv, Belongs, FrameRecs
    <2>3. CASE Fresh(f)
      <3>1. serving.kind = "attach" /\ f.sid = serving.sid /\ f.list = serving.list
        BY <1>1, <2>3 DEF Fresh, IsNotice
      <3> QED
        BY <2>1, <3>1 DEF IInv, Belongs, WireOK, ServRecs
    <2> QED
      BY <1>1, <2>2, <2>3, FramesStep DEF FramesCome
  <1> QED
    BY <1>1, <1>2, KeepsStep, ReadKeeps

LEMMA SyncBelongs ==
  ASSUME IInv, [Next]_vars
  PROVE  \A k \in Socks : Read(turn', sync'[k].list, sync'[k].sid)
  <1>0. \A k \in Socks : Read(turn', sync[k].list, sync[k].sid)
    <2>1. \A k \in Socks : sync[k].list \in Seq(Entries) /\ Read(turn, sync[k].list, sync[k].sid)
      BY TypeParts DEF IInv, SyncOK, SyncRecs, Belongs
    <2> QED
      BY <2>1, KeepsStep, ReadKeeps
  <1>e. \A s : Read(turn', <<>>, s)
    <2>1. DOMAIN <<>> = {}
      OBVIOUS
    <2> QED
      BY <2>1 DEF Read
  <1>1. CASE UNCHANGED vars
    BY <1>0, <1>1 DEF vars
  <1>2. CASE User
    BY <1>0, <1>2, SendEffect, SelectEffect, RespondEffect, LogoutEffect DEF User
  <1>3. CASE Socket
    BY <1>0, <1>3, ClosingEffect, OnCloseEffect, ReopenEffect DEF Socket
  <1>4. CASE Serve \/ ServeReply \/ \E m \in Turns : PostServed(m) \/ Done(m) \/ Error(m) \/ Silent(m) \/ PostFails(m)
    BY <1>0, <1>4, ServeEffect, ServeReplyEffect, PostServedEffect, DoneEffect, ErrorEffect, SilentEffect, PostFailsEffect
  <1>5. CASE (\E m \in Turns : System(m)) \/ \E m \in Turns : \E kind \in {"text", "tool", "ask"} : Produce(m, kind)
    BY <1>0, <1>5, SystemEffect, ProduceEffect
  <1>6. CASE OnText \/ OnTool \/ OnSystem \/ OnAsk \/ OnEnd \/ OnAnswered
    BY <1>0, <1>6, OnTextEffect, OnToolEffect, OnSystemEffect, OnAskEffect, OnEndEffect, OnAnsweredEffect
  <1>7. CASE OnAttached
    BY <1>0, <1>e, <1>7, OnAttachedEffect
  <1>8. CASE \E k \in Socks : SyncServed(k)
    <2>1. PICK k \in Socks : SyncServed(k)
      BY <1>8
    <2>2. /\ sync[k].sid \in Sessions /\ sync'[k].sid = sync[k].sid /\ \A z \in Socks \ {k} : sync'[z] = sync[z]
          /\ \A i \in DOMAIN sync'[k].list : \E j \in DOMAIN history[sync[k].sid] :
               sync'[k].list[i] = history[sync[k].sid][j]
          /\ history' = history
      BY <2>1, SyncServedEffect
    <2>3. Read(turn', history[sync[k].sid], sync[k].sid)
      BY <2>2, HistoryBelongs
    <2>4. Read(turn', sync'[k].list, sync[k].sid)
      BY <2>2, <2>3 DEF Read
    <2> QED
      BY <1>0, <2>2, <2>4
  <1>9. CASE \E k \in Socks : OnSynced(k)
    <2>1. PICK k \in Socks : OnSynced(k)
      BY <1>9
    <2>2. sync'[k] = NoSync /\ \A z \in Socks \ {k} : sync'[z] = sync[z]
      BY <2>1, OnSyncedEffect
    <2>3. NoSync.list = <<>>
      BY DEF NoSync
    <2> QED
      BY <1>0, <1>e, <2>2, <2>3
  <1> QED
    BY <1>1, <1>2, <1>3, <1>4, <1>5, <1>6, <1>7, <1>8, <1>9 DEF Next, Server, Client

LEMMA AnswerBelongs ==
  ASSUME IInv, [Next]_vars
  PROVE  \A m \in Turns : \A j \in DOMAIN answer'[m] : answer'[m][j].of = m
  <1>1. \A m \in Turns : \A j \in DOMAIN answer[m] : answer[m][j].of = m
    BY DEF IInv, Belongs
  <1>2. CASE answer' = answer
    BY <1>1, <1>2
  <1>3. ASSUME NEW m \in Turns, answer'[m] = <<>>, \A h \in Turns \ {m} : answer'[h] = answer[h]
        PROVE  \A h \in Turns : \A j \in DOMAIN answer'[h] : answer'[h][j].of = h
    <2>1. DOMAIN <<>> = {}
      OBVIOUS
    <2> QED
      BY <1>1, <1>3, <2>1
  <1>4. CASE \E m \in Turns : Done(m) \/ Error(m) \/ Silent(m)
    <2>1. PICK m \in Turns : Done(m) \/ Error(m) \/ Silent(m)
      BY <1>4
    <2>2. answer'[m] = <<>> /\ \A h \in Turns \ {m} : answer'[h] = answer[h]
      BY <2>1, DoneEffect, ErrorEffect, SilentEffect
    <2> QED
      BY <1>3, <2>2
  <1>5. CASE \E m \in Turns : \E kind \in {"text", "tool", "ask"} : Produce(m, kind)
    <2>1. PICK m \in Turns, kind \in {"text", "tool", "ask"} : Produce(m, kind)
      BY <1>5
    <2>2. \A h \in Turns \ {m} : answer'[h] = answer[h]
      BY <2>1, ProduceEffect
    <2>3. answer'[m] = answer[m] \/ Added(answer[m], answer'[m], Part(m, turn[m].events + 1))
      BY <2>1, ProduceEffect
    <2>4. Part(m, turn[m].events + 1).of = m
      BY DEF Part
    <2>5. \A j \in DOMAIN answer'[m] : answer'[m][j].of = m
      BY <1>1, <2>3, <2>4 DEF Added
    <2> QED
      BY <1>1, <2>2, <2>5
  <1>6. CASE UNCHANGED vars
    BY <1>2, <1>6 DEF vars, serverVars
  <1>7. CASE User
    BY <1>2, <1>7, SendEffect, SelectEffect, RespondEffect, LogoutEffect DEF User
  <1>8. CASE Socket
    BY <1>2, <1>8, ClosingEffect, OnCloseEffect, ReopenEffect DEF Socket
  <1>9. CASE Serve \/ ServeReply \/ (\E k \in Socks : SyncServed(k)) \/ \E m \in Turns : PostServed(m) \/ System(m)
    BY <1>2, <1>9, ServeEffect, ServeReplyEffect, SyncServedEffect, PostServedEffect, SystemEffect
  <1>10. CASE Client
    BY <1>2, <1>10, OnTextEffect, OnToolEffect, OnSystemEffect, OnAskEffect, OnEndEffect, OnAttachedEffect, OnAnsweredEffect,
       OnSyncedEffect, PostFailsEffect DEF Client
  <1> QED
    BY <1>4, <1>5, <1>6, <1>7, <1>8, <1>9, <1>10 DEF Next, Server

LEMMA BelongsStep ==
  ASSUME IInv, [Next]_vars
  PROVE  Belongs'
  BY HistoryBelongs, ServingBelongs, FramesBelong, SyncBelongs, AnswerBelongs DEF Belongs

-----------------------------------------------------------------------------
(* What is shown belongs to the session that is shown.                     *)

LEMMA BubbleBegun ==
  ASSUME IInv
  PROVE  \A j \in DOMAIN bubble.text : /\ bubble.text[j].of \in Turns /\ turn[bubble.text[j].of].pc # "new"
  <1>1. ViewOK /\ \A j \in DOMAIN bubble.text : turn[bubble.text[j].of].pc # "new"
    BY TypeParts DEF IInv, Mine, Begun
  <1>2. bubble.text \in Seq(Parts)
    <2>1. <<>> \in Seq(Parts)
      OBVIOUS
    <2>2. CASE bubble = NoBubble
      BY <2>1, <2>2 DEF NoBubble
    <2>3. CASE bubble # NoBubble
      <3>1. bubble \in [turn : Turns, text : Seq(Parts)]
        BY <1>1, <2>3 DEF ViewOK
      <3> QED
        BY <3>1
    <2> QED
      BY <2>2, <2>3
  <1>3. \A j \in DOMAIN bubble.text : bubble.text[j] \in Parts
    BY <1>2, ElementAt
  <1> QED
    BY <1>1, <1>3 DEF Parts

\* The messages get more that belong here and do not grow.
LEMMA MineKeep ==
  ASSUME IInv, [Next]_vars, cur' = cur, bubble' = bubble, trouble \subseteq trouble',
         \A i \in DOMAIN messages' :
           \/ i \in DOMAIN messages /\ messages'[i] = messages[i]
           \/ /\ ~Grows(messages'[i], bubble)
              /\ "overtaken" \notin trouble' => OfSession(turn', messages'[i], cur)
  PROVE  Mine'
  <1>1. Mine /\ messages \in Seq(Entries)
    BY TypeParts DEF IInv, ViewOK
  <1>2. Keeps(turn, turn')
    BY KeepsStep
  <1>3. \A j \in DOMAIN bubble.text : /\ turn'[bubble.text[j].of].pc # "new"
                                      /\ turn'[bubble.text[j].of].sid = turn[bubble.text[j].of].sid
    BY <1>2, BubbleBegun DEF Keeps
  <1>4. (\E i \in DOMAIN messages' : Grows(messages'[i], bubble)) =>
          \A j \in DOMAIN bubble.text : turn'[bubble.text[j].of].sid = cur
    <2> SUFFICES ASSUME NEW i \in DOMAIN messages', Grows(messages'[i], bubble)
                 PROVE  \A j \in DOMAIN bubble.text : turn'[bubble.text[j].of].sid = cur
      OBVIOUS
    <2>1. i \in DOMAIN messages /\ Grows(messages[i], bubble)
      OBVIOUS
    <2> QED
      BY <1>1, <1>3, <2>1 DEF Mine
  <1>5. "overtaken" \notin trouble' => \A i \in DOMAIN messages' : OfSession(turn', messages'[i], cur)
    <2> SUFFICES ASSUME "overtaken" \notin trouble', NEW i \in DOMAIN messages'
                 PROVE  OfSession(turn', messages'[i], cur)
      OBVIOUS
    <2>1. CASE i \in DOMAIN messages /\ messages'[i] = messages[i]
      <3>1. OfSession(turn, messages[i], cur)
        BY <1>1, <2>1 DEF Mine
      <3>2. messages[i] \in Entries
        BY <1>1, <2>1, ElementAt
      <3> QED
        BY <1>2, <2>1, <3>1, <3>2, OfSessionKeeps
    <2> QED
      BY <2>1
  <1> QED
    BY <1>3, <1>4, <1>5 DEF Mine, Begun

LEMMA LongerMine ==
  ASSUME IInv, [Next]_vars, cur' = cur, turn' = turn, trouble \subseteq trouble',
         NEW p \in Parts, Longer(p), turn[p.of].pc # "new", turn[p.of].sid = cur
  PROVE  Mine'
  <1>1. PICK b : b = bubble'
    OBVIOUS
  <1>2. PICK q : q = messages'
    OBVIOUS
  <1>3. b.turn = bubble.turn /\ Added(bubble.text, b.text, p) /\ Reshown(messages, q, b)
    BY <1>1, <1>2 DEF Longer
  <1>4. \A j \in DOMAIN b.text : (j \in DOMAIN bubble.text /\ b.text[j] = bubble.text[j]) \/ b.text[j] = p
    BY <1>3 DEF Added
  <1>5. \A j \in DOMAIN b.text : turn[b.text[j].of].pc # "new"
    BY <1>4, BubbleBegun
  <1>6. ASSUME NEW i \in DOMAIN messages, Grows(messages[i], bubble)
        PROVE  \A j \in DOMAIN b.text : turn[b.text[j].of].sid = cur
    BY <1>4, <1>6 DEF IInv, Mine
  <1>7. \A i \in DOMAIN messages : /\ Grows(q[i], b) <=> Grows(messages[i], bubble)
                                   /\ Grows(messages[i], b) <=> Grows(messages[i], bubble)
    BY <1>3 DEF Reshown, Grows
  <1>8. DOMAIN q = DOMAIN messages
    BY <1>3 DEF Reshown
  <1>9. ASSUME "overtaken" \notin trouble', NEW i \in DOMAIN q
        PROVE  OfSession(turn, q[i], cur)
    <2>1. OfSession(turn, messages[i], cur)
      BY <1>8, <1>9 DEF IInv, Mine
    <2>2. /\ q[i].turn = messages[i].turn
          /\ q[i].text = IF Grows(messages[i], b) THEN b.text ELSE messages[i].text
      BY <1>3, <1>8 DEF Reshown
    <2>3. CASE Grows(messages[i], b)
      <3>1. q[i].text = b.text /\ \A j \in DOMAIN b.text : turn[b.text[j].of].sid = cur
        BY <1>6, <1>7, <1>8, <2>2, <2>3
      <3> QED
        BY <1>5, <2>1, <2>2, <3>1 DEF OfSession
    <2>4. CASE ~Grows(messages[i], b)
      <3>1. q[i].text = messages[i].text
        BY <2>2, <2>4
      <3> QED
        BY <2>1, <2>2, <3>1 DEF OfSession
    <2> QED
      BY <2>3, <2>4
  <1>10. (\E i \in DOMAIN q : Grows(q[i], b)) => \A j \in DOMAIN b.text : turn[b.text[j].of].sid = cur
    BY <1>6, <1>7, <1>8
  <1> QED
    BY <1>1, <1>2, <1>5, <1>9, <1>10 DEF Mine, Begun

LEMMA StartedMine ==
  ASSUME IInv, [Next]_vars, cur' = cur, turn' = turn, trouble \subseteq trouble',
         NEW p \in Parts, Started(p), turn[p.of].pc # "new", turn[p.of].sid = cur
  PROVE  Mine'
  <1>1. PICK l \in Seq(Parts) : /\ DOMAIN l = {1} /\ l[1] = p
                                /\ bubble' = [turn |-> p.of, text |-> l]
                                /\ Added(messages, messages', Entry("client", "assistant", p.of, l))
    BY DEF Started
  <1>2. bubble'.text = l
    BY <1>1
  <1>3. \A j \in DOMAIN l : turn[l[j].of].pc # "new" /\ turn[l[j].of].sid = cur
    BY <1>1
  <1>4. PICK e : e = Entry("client", "assistant", p.of, l)
    OBVIOUS
  <1>5. OfSession(turn, e, cur)
    BY <1>3, <1>4 DEF OfSession, Entry
  <1>6. "overtaken" \notin trouble' => \A i \in DOMAIN messages' : OfSession(turn, messages'[i], cur)
    BY <1>1, <1>4, <1>5 DEF IInv, Mine, Added
  <1> QED
    BY <1>2, <1>3, <1>6 DEF Mine, Begun

\* A notice that is heard is of a turn of the session that is shown.
LEMMA HeardOfSession ==
  ASSUME IInv, Taken(frames, frames'), IsNotice(frames[1]), Hears(frames[1])
  PROVE  /\ frames[1].part \in Parts /\ turn[frames[1].part.of].pc # "new"
         /\ turn[frames[1].part.of].sid = cur /\ turn[frames[1].part.of].src = nr
  BY DEF IInv, Wire, WireFrames, Begun, Taken, Hears

LEMMA MineStep ==
  ASSUME IInv, [Next]_vars
  PROVE  Mine'
  <1>1. ASSUME cur' = cur, bubble' = bubble, trouble \subseteq trouble', messages' = messages
        PROVE  Mine'
    BY <1>1, MineKeep
  <1>2. CASE UNCHANGED vars
    BY <1>1, <1>2 DEF vars, viewVars
  <1>3. CASE \E m \in Turns : Send(m)
    <2>1. PICK m \in Turns : Send(m)
      BY <1>3
    <2>2. /\ Added(messages, messages', Entry("client", "user", m, <<>>))
          /\ turn'[m].pc = "sent" /\ turn'[m].sid = cur /\ trouble \subseteq trouble'
          /\ cur' = cur /\ bubble' = bubble
      BY <2>1, SendEffect
    <2>3. PICK e : e = Entry("client", "user", m, <<>>)
      OBVIOUS
    <2>4. ~Grows(e, bubble) /\ OfSession(turn', e, cur)
      <3>1. DOMAIN <<>> = {}
        OBVIOUS
      <3>2. e.role = "user" /\ e.turn = m /\ e.text = <<>>
        BY <2>3 DEF Entry
      <3> QED
        BY <2>2, <3>1, <3>2 DEF Grows, OfSession
    <2>5. \A i \in DOMAIN messages' : (i \in DOMAIN messages /\ messages'[i] = messages[i]) \/ messages'[i] = e
      BY <2>2, <2>3 DEF Added
    <2> QED
      BY <2>2, <2>4, <2>5, MineKeep
  <1>4. CASE (\E s \in Sessions : Select(s)) \/ Respond \/ Closing \/ OnClose \/ Reopen \/ Serve \/ ServeReply
             \/ \E k \in Socks : SyncServed(k)
    BY <1>1, <1>4, SelectEffect, RespondEffect, ClosingEffect, OnCloseEffect, ReopenEffect, ServeEffect,
       ServeReplyEffect, SyncServedEffect
  <1>5. CASE \E m \in Turns : PostServed(m) \/ Done(m) \/ Error(m) \/ Silent(m) \/ PostFails(m)
    BY <1>1, <1>5, PostServedEffect, DoneEffect, ErrorEffect, SilentEffect, PostFailsEffect
  <1>6. CASE (\E m \in Turns : System(m)) \/ \E m \in Turns : \E kind \in {"text", "tool", "ask"} : Produce(m, kind)
    BY <1>1, <1>6, SystemEffect, ProduceEffect
  <1>7. CASE OnAsk \/ OnAnswered
    BY <1>1, <1>7, OnAskEffect, OnAnsweredEffect
  <1>8. CASE Logout
    <2>1. cur' = None /\ messages' = <<>> /\ bubble' = bubble /\ turn' = turn
      BY <1>8, LogoutEffect
    <2>2. DOMAIN <<>> = {}
      OBVIOUS
    <2> QED
      BY <2>1, <2>2, BubbleBegun DEF Mine, Begun
  <1>9. CASE OnText
    <2>1. /\ Taken(frames, frames') /\ IsNotice(frames[1])
          /\ \/ UNCHANGED <<messages, bubble>>
             \/ Hears(frames[1]) /\ (Started(frames[1].part) \/ Longer(frames[1].part))
          /\ cur' = cur /\ turn' = turn /\ trouble' = trouble
      BY <1>9, OnTextEffect DEF IsNotice
    <2>2. CASE UNCHANGED <<messages, bubble>>
      BY <1>1, <2>1, <2>2
    <2>3. CASE Hears(frames[1]) /\ (Started(frames[1].part) \/ Longer(frames[1].part))
      BY <2>1, <2>3, HeardOfSession, StartedMine, LongerMine
    <2> QED
      BY <2>1, <2>2, <2>3
  <1>10. CASE OnTool
    <2>1. /\ Taken(frames, frames') /\ IsNotice(frames[1])
          /\ UNCHANGED <<messages, bubble>> \/ (Hears(frames[1]) /\ Longer(frames[1].part))
          /\ cur' = cur /\ turn' = turn /\ trouble \subseteq trouble'
      BY <1>10, OnToolEffect DEF IsNotice
    <2>2. CASE UNCHANGED <<messages, bubble>>
      BY <1>1, <2>1, <2>2
    <2>3. CASE Hears(frames[1]) /\ Longer(frames[1].part)
      BY <2>1, <2>3, HeardOfSession, LongerMine
    <2> QED
      BY <2>1, <2>2, <2>3
  <1>14. CASE OnSystem
    <2>1. /\ Taken(frames, frames') /\ IsNotice(frames[1]) /\ frames[1].part \in Parts
          /\ cur' = cur /\ bubble' = bubble /\ turn' = turn /\ trouble \subseteq trouble'
          /\ ~Hears(frames[1]) => messages' = messages
          /\ Hears(frames[1]) =>
               Added(messages, messages', Entry("client", "system", frames[1].part.of, <<frames[1].part>>))
      BY <1>14, OnSystemEffect DEF IsNotice
    <2>2. CASE Hears(frames[1])
      <3>1. PICK p \in Parts : p = frames[1].part
        BY <2>1
      <3>2. PICK e : e = Entry("client", "system", p.of, <<p>>)
        OBVIOUS
      <3>3. turn[p.of].pc # "new" /\ turn[p.of].sid = cur
        BY <2>1, <2>2, <3>1, HeardOfSession
      <3>4. \A j \in DOMAIN <<p>> : <<p>>[j] = p
        OBVIOUS
      <3>5. e.role = "system" /\ e.turn = p.of /\ e.text = <<p>>
        BY <3>2 DEF Entry
      <3>6. ~Grows(e, bubble) /\ OfSession(turn', e, cur)
        BY <2>1, <3>3, <3>4, <3>5 DEF Grows, OfSession
      <3>7. Added(messages, messages', e)
        BY <2>1, <2>2, <3>1, <3>2
      <3>8. \A i \in DOMAIN messages' : (i \in DOMAIN messages /\ messages'[i] = messages[i]) \/ messages'[i] = e
        BY <3>7 DEF Added
      <3> QED
        BY <2>1, <3>6, <3>8, MineKeep
    <2> QED
      BY <1>1, <2>1, <2>2
  <1>11. CASE OnEnd
    <2>1. /\ bubble' = bubble \/ bubble' = NoBubble
          /\ cur' = cur /\ messages' = messages /\ turn' = turn /\ trouble \subseteq trouble'
      BY <1>11, OnEndEffect
    <2>2. CASE bubble' = NoBubble
      <3>1. DOMAIN bubble'.text = {}
        <4>1. DOMAIN <<>> = {}
          OBVIOUS
        <4> QED
          BY <2>2, <4>1 DEF NoBubble
      <3> QED
        BY <2>1, <3>1 DEF IInv, Mine, Begun
    <2> QED
      BY <1>1, <2>1, <2>2
  <1>12. CASE OnAttached
    <2>1. /\ Taken(frames, frames') /\ frames[1].kind = "attached"
          /\ cur' = frames[1].sid /\ messages' = frames[1].list
          /\ bubble' = bubble /\ turn' = turn
      BY <1>12, OnAttachedEffect
    <2>2. Read(turn, messages', cur')
      BY <2>1 DEF IInv, Belongs, Taken
    <2>3. \A i \in DOMAIN messages' : messages'[i].by = "server" /\ OfSession(turn, messages'[i], cur')
      BY <2>2 DEF Read
    <2>4. \A i \in DOMAIN messages' : ~Grows(messages'[i], bubble)
      BY <2>3 DEF Grows
    <2> QED
      BY <2>1, <2>3, <2>4, BubbleBegun DEF Mine, Begun
  <1>13. CASE \E k \in Socks : OnSynced(k)
    <2>1. PICK k \in Socks : OnSynced(k)
      BY <1>13
    <2>2. /\ cur' = cur /\ bubble' = bubble /\ trouble \subseteq trouble' /\ turn' = turn
          /\ \/ messages' = messages
             \/ /\ \A i \in DOMAIN messages' :
                     \/ i \in DOMAIN messages /\ messages'[i] = messages[i]
                     \/ \E j \in DOMAIN sync[k].list : messages'[i] = sync[k].list[j]
                /\ cur # sync[k].sid => "overtaken" \in trouble'
      BY <2>1, OnSyncedEffect
    <2>3. \A j \in DOMAIN sync[k].list : /\ sync[k].list[j].by = "server"
                                         /\ OfSession(turn, sync[k].list[j], sync[k].sid)
      BY DEF IInv, Belongs, Read
    <2>4. \A j \in DOMAIN sync[k].list : /\ ~Grows(sync[k].list[j], bubble)
                                         /\ OfSession(turn, sync[k].list[j], sync[k].sid)
      BY <2>3 DEF Grows
    <2> QED
      BY <1>1, <2>2, <2>4, MineKeep
  <1> QED
    BY <1>2, <1>3, <1>4, <1>5, <1>6, <1>7, <1>8, <1>9, <1>10, <1>11, <1>12, <1>13, <1>14
       DEF Next, User, Socket, Server, Client

-----------------------------------------------------------------------------
(* One turn at a time.                                                     *)

\* No turn becomes active, and none that is over goes on.
Calmer ==
  \A m \in Turns :
    /\ turn'[m].src = nr' /\ turn'[m].pc \in {"sent", "run", "ask"} => Active(m)
    /\ turn'[m].src = 0 /\ turn'[m].pc = "sent" => Posted(m)
    /\ turn[m].pc = "over" => turn'[m].pc = "over"

\* The frames lose their first ones at most.
Later(d) == \A i \in DOMAIN frames' : i + d \in DOMAIN frames /\ frames'[i] = frames[i + d]

LEMMA NoticeOfTurn ==
  ASSUME IInv, NEW i \in DOMAIN frames, IsNotice(frames[i])
  PROVE  frames[i].part.of \in Turns /\ turn[frames[i].part.of].src = nr
  BY DEF IInv, Wire, WireFrames, Parts

LEMMA SingleKeep ==
  ASSUME IInv, TypeOK', NEW d \in Nat, Later(d), Calmer
  PROVE  /\ \A m \in Turns : Open(m)' => Open(m)
         /\ OneOpen' /\ ItsOwn' /\ EndLast' /\ (gen' = gen => NoneOpen')
  <1>1. Single
    BY DEF IInv
  <1>2. DOMAIN frames \subseteq Nat /\ DOMAIN frames' \subseteq Nat
    <2>1. frames \in Seq(FrameRecs)
      BY TypeParts DEF IInv, WireOK
    <2>2. frames' \in Seq([kind : {"text", "tool", "system", "ask", "done", "error", "attached", "answered"},
                           sid : Sessions, part : Parts \cup {NoAsk}, list : Seq(Entries), then : BOOLEAN])
      BY DEF TypeOK
    <2> QED
      BY <2>1, <2>2
  <1>3. ASSUME NEW m \in Turns, Open(m)' PROVE Open(m)
    <2>1. CASE Active(m)' \/ Posted(m)'
      BY <2>1 DEF Calmer, Open, Active, Posted
    <2>2. CASE Ending(m)'
      BY <2>2 DEF Later, Open, Ending, IsEnd
    <2> QED
      BY <1>3, <2>1, <2>2 DEF Open
  <1>4. OneOpen'
    <2> SUFFICES ASSUME NEW m \in Turns, NEW h \in Turns, Open(m)', Open(h)' PROVE m = h
      BY DEF OneOpen
    <2>1. Open(m) /\ Open(h)
      BY <1>3
    <2> QED
      BY <1>1, <2>1 DEF Single, OneOpen
  <1>5. ItsOwn'
    <2> SUFFICES ASSUME NEW i \in DOMAIN frames', IsNotice(frames[i])', NEW m \in Turns, Open(m)'
                 PROVE  m = frames'[i].part.of
      BY DEF ItsOwn
    <2>1. i + d \in DOMAIN frames /\ frames'[i] = frames[i + d] /\ IsNotice(frames[i + d])
      BY DEF Later, IsNotice
    <2>2. Open(m)
      BY <1>3
    <2> QED
      BY <1>1, <2>1, <2>2 DEF Single, ItsOwn
  <1>6. EndLast'
    <2> SUFFICES ASSUME NEW i \in DOMAIN frames', IsEnd(frames[i])'
                 PROVE  /\ turn'[frames'[i].part.of].pc = "over"
                        /\ \A j \in DOMAIN frames' : j > i => ~IsNotice(frames[j])'
      BY DEF EndLast
    <2>1. i + d \in DOMAIN frames /\ frames'[i] = frames[i + d] /\ IsEnd(frames[i + d]) /\ IsNotice(frames[i + d])
      BY DEF Later, IsEnd, IsNotice
    <2>2. frames[i + d].part.of \in Turns
      BY <2>1, NoticeOfTurn
    <2>3. turn[frames[i + d].part.of].pc = "over" /\ \A j \in DOMAIN frames : j > i + d => ~IsNotice(frames[j])
      BY <1>1, <2>1 DEF Single, EndLast
    <2>4. ASSUME NEW j \in DOMAIN frames', j > i PROVE ~IsNotice(frames[j])'
      <3>1. j + d \in DOMAIN frames /\ frames'[j] = frames[j + d]
        BY DEF Later
      <3>2. j + d > i + d
        BY <1>2, <2>4
      <3>3. ~IsNotice(frames[j + d])
        BY <2>3, <3>1, <3>2
      <3> QED
        BY <3>1, <3>3 DEF IsNotice
    <2> QED
      BY <2>1, <2>2, <2>3, <2>4 DEF Calmer
  <1>7. ASSUME gen' = gen PROVE NoneOpen'
    <2> SUFFICES ASSUME ~gen PROVE (\A m \in Turns : ~Open(m)') /\ \A i \in DOMAIN frames' : ~IsNotice(frames[i])'
      BY <1>7 DEF NoneOpen
    <2>1. (\A m \in Turns : ~Open(m)) /\ \A i \in DOMAIN frames : ~IsNotice(frames[i])
      BY <1>1 DEF Single, NoneOpen
    <2>2. ASSUME NEW i \in DOMAIN frames' PROVE ~IsNotice(frames[i])'
      <3>1. i + d \in DOMAIN frames /\ frames'[i] = frames[i + d]
        BY DEF Later
      <3> QED
        BY <2>1, <3>1 DEF IsNotice
    <2> QED
      BY <1>3, <2>1, <2>2
  <1> QED
    BY <1>3, <1>4, <1>5, <1>6, <1>7

\* A turn tells its socket: until its end it is the one, then nothing follows.
LEMMA SingleTells ==
  ASSUME IInv, TypeOK', NEW m \in Turns, turn[m].pc = "run", Sees(m), NEW f \in FrameRecs, Added(frames, frames', f),
         IsNotice(f), f.part.of = m, IsEnd(f) => turn'[m].pc = "over",
         \A h \in Turns \ {m} : turn'[h] = turn[h], nr' = nr, gen' = gen,
         turn'[m].src = turn[m].src
  PROVE  OneOpen' /\ ItsOwn' /\ EndLast' /\ NoneOpen'
  <1>1. Single
    BY DEF IInv
  <1>2. Open(m)
    BY DEF Open, Active, Sees
  <1>3. gen /\ \A h \in Turns : Open(h) => h = m
    BY <1>1, <1>2 DEF Single, NoneOpen, OneOpen
  <1>4. \A i \in DOMAIN frames : IsNotice(frames[i]) => frames[i].part.of = m
    BY <1>1, <1>2 DEF Single, ItsOwn
  <1>5. \A i \in DOMAIN frames : ~IsEnd(frames[i])
    BY <1>1, <1>4 DEF Single, EndLast, IsEnd, IsNotice
  <1>6. PICK q : q = frames'
    OBVIOUS
  <1>7. /\ Len(frames) \in Nat /\ DOMAIN frames = 1 .. Len(frames) /\ DOMAIN q = 1 .. Len(frames) + 1
        /\ \A i \in DOMAIN q : (i \in DOMAIN frames /\ q[i] = frames[i]) \/ (i = Len(frames) + 1 /\ q[i] = f)
    BY <1>6 DEF Added
  <1>8. \A i \in DOMAIN q : IsNotice(q[i]) => q[i].part.of = m
    BY <1>4, <1>7
  <1>9. \A i \in DOMAIN q : IsEnd(q[i]) => i = Len(frames) + 1 /\ q[i] = f
    BY <1>5, <1>7
  <1>10. ASSUME NEW h \in Turns, Open(h)' PROVE h = m
    <2>1. CASE Active(h)' \/ Posted(h)'
      <3> SUFFICES ASSUME h # m PROVE FALSE
        OBVIOUS
      <3>1. turn'[h] = turn[h]
        OBVIOUS
      <3>2. Open(h)
        BY <2>1, <3>1 DEF Open, Active, Posted
      <3> QED
        BY <1>3, <3>2
    <2>2. CASE Ending(h)'
      <3>1. PICK i \in DOMAIN q : IsEnd(q[i]) /\ q[i].part.of = h
        BY <1>6, <2>2 DEF Ending, IsEnd
      <3> QED
        BY <1>9, <3>1
    <2> QED
      BY <1>10, <2>1, <2>2 DEF Open
  <1>11. OneOpen'
    BY <1>10 DEF OneOpen
  <1>12. ItsOwn'
    <2> SUFFICES ASSUME NEW i \in DOMAIN q, IsNotice(q[i]), NEW h \in Turns, Open(h)'
                 PROVE  h = q[i].part.of
      BY <1>6 DEF ItsOwn, IsNotice
    <2> QED
      BY <1>8, <1>10
  <1>13. EndLast'
    <2> SUFFICES ASSUME NEW i \in DOMAIN q, IsEnd(q[i])
                 PROVE  /\ turn'[q[i].part.of].pc = "over"
                        /\ \A j \in DOMAIN q : j > i => ~IsNotice(q[j])
      BY <1>6 DEF EndLast, IsEnd, IsNotice
    <2>1. i = Len(frames) + 1 /\ q[i] = f
      BY <1>9
    <2> QED
      BY <1>7, <2>1
  <1> QED
    BY <1>3, <1>11, <1>12, <1>13 DEF NoneOpen

LEMMA CalmerSame ==
  ASSUME turn' = turn, nr' = nr
  PROVE  Calmer
  BY DEF Calmer, Active, Posted

LEMMA CalmerMoved ==
  ASSUME IInv, nr' = nr, NEW m \in Turns, NEW c \in {"run", "over"}, Moved(turn, turn', m, c),
         c = "over" \/ turn[m].pc \in {"ask", "sent"}
  PROVE  Calmer
  <1> SUFFICES ASSUME NEW h \in Turns
               PROVE  /\ turn'[h].src = nr' /\ turn'[h].pc \in {"sent", "run", "ask"} => Active(h)
                      /\ turn'[h].src = 0 /\ turn'[h].pc = "sent" => Posted(h)
                      /\ turn[h].pc = "over" => turn'[h].pc = "over"
    BY DEF Calmer
  <1>1. CASE h = m
    BY <1>1 DEF Moved, Active, Posted
  <1>2. CASE h # m
    <2>1. turn'[h] = turn[h]
      BY <1>2 DEF Moved
    <2> QED
      BY <2>1 DEF Active, Posted
  <1> QED
    BY <1>1, <1>2

LEMMA LaterSame ==
  ASSUME IInv, frames' = frames
  PROVE  Later(0)
  <1>1. \A i \in DOMAIN frames : i + 0 = i
    <2>1. frames \in Seq(FrameRecs)
      BY TypeParts DEF IInv, WireOK
    <2>2. DOMAIN frames = 1 .. Len(frames) /\ Len(frames) \in Nat
      BY <2>1
    <2> QED
      BY <2>2
  <1> QED
    BY <1>1 DEF Later

\* What a turn does once it has begun to run, but for its notices.
LEMMA SingleQuiet ==
  ASSUME IInv, [Next]_vars, frames' = frames, Calmer, gen' = gen
  PROVE  OneOpen' /\ ItsOwn' /\ EndLast' /\ NoneOpen'
  BY LaterSame, SingleKeep, TypeStep

LEMMA SingleTaken ==
  ASSUME IInv, [Next]_vars, Taken(frames, frames') \/ frames' = <<>>, turn' = turn, nr' = nr
  PROVE  /\ \A m \in Turns : Open(m)' => Open(m)
         /\ OneOpen' /\ ItsOwn' /\ EndLast' /\ (gen' = gen => NoneOpen')
  <1>1. Calmer
    BY CalmerSame
  <1>2. TypeOK'
    BY TypeStep
  <1>3. CASE Taken(frames, frames')
    <2>1. Later(1)
      BY <1>3 DEF Taken, Later
    <2> QED
      BY <1>1, <1>2, <2>1, SingleKeep
  <1>4. CASE frames' = <<>>
    <2>1. DOMAIN <<>> = {}
      OBVIOUS
    <2>2. Later(1)
      BY <1>4, <2>1 DEF Later
    <2> QED
      BY <1>1, <1>2, <2>2, SingleKeep
  <1> QED
    BY <1>3, <1>4

LEMMA SingleSend ==
  ASSUME IInv, NEW m \in Turns, Send(m)
  PROVE  OneOpen' /\ ItsOwn' /\ EndLast' /\ NoneOpen'
  <1>1. /\ ~gen /\ gen' = TRUE /\ frames' = frames /\ nr' = nr
        /\ \A h \in Turns \ {m} : turn'[h] = turn[h]
    BY SendEffect
  <1>2. (\A h \in Turns : ~Open(h)) /\ \A i \in DOMAIN frames : ~IsNotice(frames[i])
    BY <1>1 DEF IInv, Single, NoneOpen
  <1>3. \A i \in DOMAIN frames : ~IsEnd(frames[i])
    BY <1>2 DEF IsEnd, IsNotice
  <1>4. ASSUME NEW h \in Turns, Open(h)' PROVE h = m
    <2> SUFFICES ASSUME h # m PROVE FALSE
      OBVIOUS
    <2>1. turn'[h] = turn[h]
      BY <1>1
    <2>2. Open(h)
      BY <1>1, <1>4, <2>1 DEF Open, Active, Posted, Ending, IsEnd
    <2> QED
      BY <1>2, <2>2
  <1>5. OneOpen'
    BY <1>4 DEF OneOpen
  <1>6. ItsOwn' /\ EndLast'
    BY <1>1, <1>2, <1>3 DEF ItsOwn, EndLast, IsNotice, IsEnd
  <1> QED
    BY <1>1, <1>5, <1>6 DEF NoneOpen

LEMMA SingleReply ==
  ASSUME IInv, ServeReply
  PROVE  OneOpen' /\ ItsOwn' /\ EndLast' /\ NoneOpen'
  <1>1. PICK f \in FrameRecs : Added(frames, frames', f) /\ f.kind \in {"attached", "answered"}
    BY ServeReplyEffect
  <1>2. turn' = turn /\ nr' = nr /\ gen' = gen
    BY ServeReplyEffect
  <1>3. PICK q : q = frames'
    OBVIOUS
  <1>4. ~IsNotice(f) /\ ~IsEnd(f)
    BY <1>1 DEF IsNotice, IsEnd
  <1>5. \A i \in DOMAIN q : IsNotice(q[i]) \/ IsEnd(q[i]) => i \in DOMAIN frames /\ q[i] = frames[i]
    BY <1>1, <1>3, <1>4 DEF Added
  <1>6. Single
    BY DEF IInv
  <1>7. ASSUME NEW h \in Turns, Open(h)' PROVE Open(h)
    <2>1. CASE Active(h)' \/ Posted(h)'
      BY <1>2, <2>1 DEF Open, Active, Posted
    <2>2. CASE Ending(h)'
      <3>1. PICK i \in DOMAIN q : IsEnd(q[i]) /\ q[i].part.of = h
        BY <1>3, <2>2 DEF Ending, IsEnd
      <3> QED
        BY <1>5, <3>1 DEF Open, Ending
    <2> QED
      BY <1>7, <2>1, <2>2 DEF Open
  <1>8. OneOpen'
    <2> SUFFICES ASSUME NEW m \in Turns, NEW h \in Turns, Open(m)', Open(h)' PROVE m = h
      BY DEF OneOpen
    <2>1. Open(m) /\ Open(h)
      BY <1>7
    <2> QED
      BY <1>6, <2>1 DEF Single, OneOpen
  <1>9. ItsOwn'
    <2> SUFFICES ASSUME NEW i \in DOMAIN q, IsNotice(q[i]), NEW h \in Turns, Open(h)'
                 PROVE  h = q[i].part.of
      BY <1>3 DEF ItsOwn, IsNotice
    <2>1. i \in DOMAIN frames /\ q[i] = frames[i] /\ Open(h)
      BY <1>5, <1>7
    <2> QED
      BY <1>6, <2>1 DEF Single, ItsOwn
  <1>10. EndLast'
    <2> SUFFICES ASSUME NEW i \in DOMAIN q, IsEnd(q[i])
                 PROVE  /\ turn'[q[i].part.of].pc = "over"
                        /\ \A j \in DOMAIN q : j > i => ~IsNotice(q[j])
      BY <1>3 DEF EndLast, IsEnd, IsNotice
    <2>1. i \in DOMAIN frames /\ q[i] = frames[i]
      BY <1>5
    <2>2. turn[frames[i].part.of].pc = "over" /\ \A j \in DOMAIN frames : j > i => ~IsNotice(frames[j])
      BY <1>6, <2>1 DEF Single, EndLast
    <2> QED
      BY <1>2, <1>5, <2>1, <2>2
  <1>11. NoneOpen'
    <2> SUFFICES ASSUME ~gen PROVE (\A h \in Turns : ~Open(h)') /\ \A i \in DOMAIN q : ~IsNotice(q[i])
      BY <1>2, <1>3 DEF NoneOpen, IsNotice
    <2> QED
      BY <1>5, <1>6, <1>7 DEF Single, NoneOpen
  <1> QED
    BY <1>8, <1>9, <1>10, <1>11

LEMMA SinglePost ==
  ASSUME IInv, [Next]_vars, NEW m \in Turns, PostServed(m) \/ PostFails(m)
  PROVE  OneOpen' /\ ItsOwn' /\ EndLast' /\ NoneOpen'
  <1>1. PICK c \in {"run", "over"} :
          /\ turn[m].pc = "sent" /\ turn[m].src = 0 /\ Moved(turn, turn', m, c)
          /\ frames' = frames /\ nr' = nr
    BY PostServedEffect, PostFailsEffect
  <1>2. Calmer
    BY <1>1, CalmerMoved
  <1>3. (\A h \in Turns : Open(h)' => Open(h)) /\ OneOpen' /\ ItsOwn' /\ EndLast'
    BY <1>1, <1>2, LaterSame, SingleKeep, TypeStep
  <1>4. Open(m)
    BY <1>1 DEF Open, Posted
  <1>5. \A i \in DOMAIN frames : ~IsNotice(frames[i])
    <2> SUFFICES ASSUME NEW i \in DOMAIN frames, IsNotice(frames[i]) PROVE FALSE
      OBVIOUS
    <2>1. frames[i].part.of = m
      BY <1>4 DEF IInv, Single, ItsOwn
    <2> QED
      BY <1>1, <2>1, NoticeOfTurn, SocketNumber
  <1>6. ASSUME NEW h \in Turns, Open(h)' PROVE FALSE
    <2>1. h = m
      BY <1>3, <1>4, <1>6 DEF IInv, Single, OneOpen
    <2>2. turn'[m].pc # "sent" /\ turn'[m].src = 0 /\ nr' # 0
      BY <1>1, SocketNumber DEF Moved
    <2>3. Ending(m)'
      BY <1>6, <2>1, <2>2 DEF Open, Active, Posted
    <2> QED
      BY <1>1, <1>5, <2>3 DEF Ending, IsEnd, IsNotice
  <1> QED
    BY <1>1, <1>3, <1>5, <1>6 DEF NoneOpen, IsNotice

LEMMA SingleEnd ==
  ASSUME IInv, [Next]_vars, OnEnd
  PROVE  OneOpen' /\ ItsOwn' /\ EndLast' /\ NoneOpen'
  <1>1. /\ Taken(frames, frames') /\ IsEnd(frames[1]) /\ turn' = turn /\ nr' = nr
        /\ gen' = (IF Hears(frames[1]) THEN FALSE ELSE gen)
    BY OnEndEffect
  <1>2. (\A h \in Turns : Open(h)' => Open(h)) /\ OneOpen' /\ ItsOwn' /\ EndLast' /\ (gen' = gen => NoneOpen')
    BY <1>1, SingleTaken
  <1>3. CASE gen' # gen
    <2>1. 1 \in DOMAIN frames /\ IsNotice(frames[1])
      BY <1>1 DEF Taken, IsEnd, IsNotice
    <2>2. turn[frames[1].part.of].pc = "over" /\ \A j \in DOMAIN frames : j > 1 => ~IsNotice(frames[j])
      BY <1>1, <2>1 DEF IInv, Single, EndLast
    <2>3. \A i \in DOMAIN frames' : ~IsNotice(frames[i])' /\ ~IsEnd(frames[i])'
      <3>1. PICK q : q = frames'
        OBVIOUS
      <3>2. \A i \in DOMAIN q : i + 1 \in DOMAIN frames /\ i + 1 > 1 /\ q[i] = frames[i + 1]
        BY <1>1, <3>1 DEF Taken
      <3>3. \A i \in DOMAIN q : ~IsNotice(q[i])
        BY <2>2, <3>2
      <3> QED
        BY <3>1, <3>3 DEF IsNotice, IsEnd
    <2>4. ASSUME NEW h \in Turns, Open(h)' PROVE FALSE
      <3>1. h = frames[1].part.of
        BY <1>2, <2>1, <2>4 DEF IInv, Single, ItsOwn
      <3>2. turn'[h].pc = "over"
        BY <1>1, <2>2, <3>1
      <3>3. Ending(h)'
        BY <2>4, <3>2 DEF Open, Active, Posted
      <3> QED
        BY <2>3, <3>3 DEF Ending
    <2> QED
      BY <1>2, <2>3, <2>4 DEF NoneOpen
  <1> QED
    BY <1>2, <1>3

LEMMA ToldSingle ==
  ASSUME IInv, [Next]_vars, NEW m \in Turns,
         System(m) \/ Done(m) \/ Error(m) \/ \E kind \in {"text", "tool", "ask"} : Produce(m, kind)
  PROVE  OneOpen' /\ ItsOwn' /\ EndLast' /\ NoneOpen'
  <1>0. turn[m].events \in Nat /\ TypeOK'
    BY TypeStep, SocketNumber
  <1>1. /\ turn[m].pc = "run" /\ nr' = nr /\ gen' = gen
        /\ \A h \in Turns \ {m} : turn'[h] = turn[h]
        /\ turn'[m].src = turn[m].src /\ turn'[m].pc \in {"run", "ask", "over"}
        /\ ~Sees(m) => frames' = frames
        /\ Sees(m) => \E k \in {"text", "tool", "system", "ask", "done", "error"}, n \in Nat :
                        /\ Added(frames, frames', Frame(k, turn[m].sid, Part(m, n), <<>>, FALSE))
                        /\ k \in {"done", "error"} => turn'[m].pc = "over"
    <2>1. CASE Done(m)
      BY <2>1, DoneEffect DEF Moved
    <2>2. CASE Error(m)
      BY <2>2, ErrorEffect DEF Moved
    <2>3. CASE \E kind \in {"text", "tool", "ask"} : Produce(m, kind)
      <3>1. PICK kind \in {"text", "tool", "ask"} : Produce(m, kind)
        BY <2>3
      <3>2. PICK n \in Nat : n = turn[m].events + 1
        BY <1>0
      <3>3. /\ turn[m].pc = "run" /\ nr' = nr /\ gen' = gen
            /\ \A h \in Turns \ {m} : turn'[h] = turn[h]
            /\ turn'[m].src = turn[m].src /\ turn'[m].pc \in {"run", "ask"}
            /\ ~Sees(m) => frames' = frames
            /\ Sees(m) => Added(frames, frames', Frame(kind, turn[m].sid, Part(m, n), <<>>, FALSE))
        BY <3>1, <3>2, ProduceEffect
      <3> QED
        BY <3>3
    <2>4. CASE System(m)
      <3>1. PICK n \in Nat : n = turn[m].events + 1
        BY <1>0
      <3>2. /\ turn[m].pc = "run" /\ nr' = nr /\ gen' = gen
            /\ \A h \in Turns \ {m} : turn'[h] = turn[h]
            /\ turn'[m].src = turn[m].src /\ turn'[m].pc = "run"
            /\ ~Sees(m) => frames' = frames
            /\ Sees(m) => Added(frames, frames', Frame("system", turn[m].sid, Part(m, n), <<>>, FALSE))
        BY <2>4, <3>1, SystemEffect
      <3> QED
        BY <3>2
    <2> QED
      BY <2>1, <2>2, <2>3, <2>4
  <1>2. CASE ~Sees(m)
    <2>1. Calmer
      <3> SUFFICES ASSUME NEW h \in Turns
                   PROVE  /\ turn'[h].src = nr' /\ turn'[h].pc \in {"sent", "run", "ask"} => Active(h)
                          /\ turn'[h].src = 0 /\ turn'[h].pc = "sent" => Posted(h)
                          /\ turn[h].pc = "over" => turn'[h].pc = "over"
        BY DEF Calmer
      <3>1. CASE h = m
        BY <1>1, <3>1 DEF Active, Posted
      <3>2. CASE h # m
        BY <1>1, <3>2 DEF Active, Posted
      <3> QED
        BY <3>1, <3>2
    <2> QED
      BY <1>1, <1>2, <2>1, SingleQuiet
  <1>3. CASE Sees(m)
    <2>1. PICK k \in {"text", "tool", "system", "ask", "done", "error"}, n \in Nat :
            /\ Added(frames, frames', Frame(k, turn[m].sid, Part(m, n), <<>>, FALSE))
            /\ k \in {"done", "error"} => turn'[m].pc = "over"
      BY <1>1, <1>3
    <2>2. PICK f : f = Frame(k, turn[m].sid, Part(m, n), <<>>, FALSE)
      OBVIOUS
    <2>3. f.kind = k /\ f.part.of = m
      BY <2>2 DEF Frame, Part
    <2>4. f \in FrameRecs
      <3>1. turn[m].sid \in Sessions /\ <<>> \in Seq(Entries) /\ FALSE \in BOOLEAN
        BY <1>1 DEF IInv, Wire, WireTurns, Begun
      <3>2. Part(m, n) \in Parts \cup {NoAsk}
        BY Made
      <3> QED
        BY <2>2, <3>1, <3>2, Made
    <2>5. IsNotice(f) /\ (IsEnd(f) => turn'[m].pc = "over") /\ Added(frames, frames', f)
      BY <2>1, <2>2, <2>3 DEF IsNotice, IsEnd
    <2> QED
      BY <1>0, <1>1, <1>3, <2>3, <2>4, <2>5, SingleTells
  <1> QED
    BY <1>2, <1>3

LEMMA OpenStep ==
  ASSUME IInv, [Next]_vars
  PROVE  OneOpen' /\ ItsOwn' /\ EndLast' /\ NoneOpen'
  <1>0. ASSUME turn' = turn, nr' = nr, frames' = frames, gen' = gen
        PROVE  OneOpen' /\ ItsOwn' /\ EndLast' /\ NoneOpen'
    BY <1>0, CalmerSame, SingleQuiet
  <1>1. CASE UNCHANGED vars
    BY <1>0, <1>1 DEF vars, viewVars, sockVars, wireVars, serverVars
  <1>2. CASE \E m \in Turns : Send(m)
    BY <1>2, SingleSend
  <1>3. CASE (\E s \in Sessions : Select(s)) \/ Respond \/ OnClose \/ (\E k \in Socks : SyncServed(k) \/ OnSynced(k))
    BY <1>0, <1>3, SelectEffect, RespondEffect, OnCloseEffect, SyncServedEffect, OnSyncedEffect
  <1>4. CASE Logout \/ Closing
    BY <1>4, LogoutEffect, ClosingEffect, SingleTaken
  <1>5. CASE Reopen
    <2>1. nr' = nr + 1 /\ turn' = turn /\ frames' = frames /\ gen' = gen
      BY <1>5, ReopenEffect
    <2>2. \A m \in Turns : turn[m].src # nr + 1
      BY SocketNumber DEF IInv, Wire, WireTurns
    <2>3. Calmer
      BY <2>1, <2>2 DEF Calmer, Posted
    <2> QED
      BY <2>1, <2>3, SingleQuiet
  <1>6. CASE Serve
    <2>1. frames' = frames /\ nr' = nr /\ gen' = gen
      BY <1>6, ServeEffect
    <2>2. \/ turn' = turn
          \/ /\ reqs[1].turn \in Turns /\ turn[reqs[1].turn].pc \in {"ask", "sent"}
             /\ Moved(turn, turn', reqs[1].turn, "run")
      BY <1>6, ServeEffect
    <2>3. Calmer
      BY <2>1, <2>2, CalmerSame, CalmerMoved
    <2> QED
      BY <2>1, <2>3, SingleQuiet
  <1>7. CASE ServeReply
    BY <1>7, SingleReply
  <1>8. CASE \E m \in Turns : Silent(m)
    <2>1. PICK m \in Turns : Silent(m)
      BY <1>8
    <2>2. frames' = frames /\ nr' = nr /\ gen' = gen /\ Moved(turn, turn', m, "over")
      BY <2>1, SilentEffect
    <2>3. Calmer
      BY <2>2, CalmerMoved
    <2> QED
      BY <2>2, <2>3, SingleQuiet
  <1>9. CASE \E m \in Turns : PostServed(m) \/ PostFails(m)
    BY <1>9, SinglePost
  <1>10. CASE \E m \in Turns : System(m) \/ Done(m) \/ Error(m) \/ \E kind \in {"text", "tool", "ask"} : Produce(m, kind)
    BY <1>10, ToldSingle
  <1>11. CASE OnText \/ OnTool \/ OnSystem \/ OnAsk \/ OnAttached \/ OnAnswered
    BY <1>11, OnTextEffect, OnToolEffect, OnSystemEffect, OnAskEffect, OnAttachedEffect, OnAnsweredEffect, SingleTaken
  <1>12. CASE OnEnd
    BY <1>12, SingleEnd
  <1> QED
    BY <1>1, <1>2, <1>3, <1>4, <1>5, <1>6, <1>7, <1>8, <1>9, <1>10, <1>11, <1>12
       DEF Next, User, Socket, Server, Client

LEMMA OneAskedStep ==
  ASSUME IInv, [Next]_vars
  PROVE  OneAsked'
  <1>0. OneAsked
    BY DEF IInv, Single
  <1>1. CASE reqs' = reqs
    BY <1>0, <1>1 DEF OneAsked
  <1>2. CASE reqs' = <<>>
    <2>1. DOMAIN <<>> = {}
      OBVIOUS
    <2> QED
      BY <1>2, <2>1 DEF OneAsked
  <1>3. ASSUME NEW r, Added(reqs, reqs', r), r.kind # "message"
        PROVE  OneAsked'
    <2>1. PICK q : q = reqs'
      OBVIOUS
    <2>2. \A i \in DOMAIN q : q[i].kind = "message" => i \in DOMAIN reqs /\ q[i] = reqs[i]
      BY <1>3, <2>1 DEF Added
    <2>3. \A i, j \in DOMAIN q : q[i].kind = "message" /\ q[j].kind = "message" => i = j
      BY <1>0, <2>2 DEF OneAsked
    <2> QED
      BY <2>1, <2>3 DEF OneAsked
  <1>4. CASE UNCHANGED vars
    BY <1>1, <1>4 DEF vars, wireVars
  <1>5. CASE \E m \in Turns : Send(m)
    <2>1. PICK m \in Turns : Send(m)
      BY <1>5
    <2>2. sock = "open" => Added(reqs, reqs', Request("message", cur, m, FALSE))
      BY <2>1, SendEffect
    <2>3. ~gen /\ (sock # "open" => reqs' = reqs)
      BY <2>1, SendEffect
    <2>4. \A i \in DOMAIN reqs : reqs[i].kind # "message"
      <3> SUFFICES ASSUME NEW i \in DOMAIN reqs, reqs[i].kind = "message" PROVE FALSE
        OBVIOUS
      <3>1. reqs[i].turn \in Turns /\ turn[reqs[i].turn].src = nr /\ turn[reqs[i].turn].pc = "sent"
        BY DEF IInv, Wire, WireReqs
      <3>2. Open(reqs[i].turn)
        BY <3>1 DEF Open, Active
      <3> QED
        BY <2>3, <3>1, <3>2 DEF IInv, Single, NoneOpen
    <2>5. CASE sock = "open"
      <3>1. PICK q : q = reqs'
        OBVIOUS
      <3>2. \A i \in DOMAIN q : q[i].kind = "message" => i = Len(reqs) + 1
        BY <2>2, <2>4, <2>5, <3>1 DEF Added
      <3> QED
        BY <3>1, <3>2 DEF OneAsked
    <2> QED
      BY <1>1, <2>3, <2>5
  <1>6. CASE \E s \in Sessions : Select(s)
    <2>1. PICK s \in Sessions : Select(s)
      BY <1>6
    <2>2. Added(reqs, reqs', Request("attach", s, None, FALSE))
      BY <2>1, SelectEffect
    <2>3. Request("attach", s, None, FALSE).kind # "message"
      BY DEF Request
    <2> QED
      BY <1>3, <2>2, <2>3
  <1>7. CASE Respond
    <2>1. Added(reqs, reqs', Request("answer", cur, ask.of, FALSE))
      BY <1>7, RespondEffect
    <2>2. Request("answer", cur, ask.of, FALSE).kind # "message"
      BY DEF Request
    <2> QED
      BY <1>3, <2>1, <2>2
  <1>8. CASE Logout \/ Closing \/ OnClose
    BY <1>1, <1>2, <1>8, LogoutEffect, ClosingEffect, OnCloseEffect
  <1>9. CASE Reopen
    <2>1. \A i \in DOMAIN reqs' : reqs'[i].kind = "attach"
      BY <1>9, ReopenEffect
    <2> QED
      BY <2>1 DEF OneAsked
  <1>10. CASE Serve
    <2>1. PICK q : q = reqs'
      OBVIOUS
    <2>2. /\ Len(reqs) \in Nat \ {0} /\ DOMAIN q = 1 .. Len(reqs) - 1
          /\ \A i \in DOMAIN q : i + 1 \in DOMAIN reqs /\ q[i] = reqs[i + 1]
      BY <1>10, <2>1, ServeEffect DEF Taken
    <2>3. ASSUME NEW i \in DOMAIN q, NEW j \in DOMAIN q, q[i].kind = "message", q[j].kind = "message"
          PROVE  i = j
      <3>1. i + 1 = j + 1
        BY <1>0, <2>2, <2>3 DEF OneAsked
      <3> QED
        BY <2>2, <3>1
    <2> QED
      BY <2>1, <2>3 DEF OneAsked
  <1>11. CASE ServeReply \/ (\E k \in Socks : SyncServed(k))
              \/ \E m \in Turns : PostServed(m) \/ Done(m) \/ Error(m) \/ Silent(m)
    BY <1>1, <1>11, ServeReplyEffect, SyncServedEffect, PostServedEffect, DoneEffect, ErrorEffect, SilentEffect
  <1>12. CASE (\E m \in Turns : System(m)) \/ \E m \in Turns : \E kind \in {"text", "tool", "ask"} : Produce(m, kind)
    BY <1>1, <1>12, SystemEffect, ProduceEffect
  <1>13. CASE Client
    BY <1>1, <1>13, OnTextEffect, OnToolEffect, OnSystemEffect, OnAskEffect, OnEndEffect, OnAttachedEffect, OnAnsweredEffect,
       OnSyncedEffect, PostFailsEffect DEF Client
  <1> QED
    BY <1>4, <1>5, <1>6, <1>7, <1>8, <1>9, <1>10, <1>11, <1>12, <1>13 DEF Next, User, Socket, Server

LEMMA SingleStep ==
  ASSUME IInv, [Next]_vars
  PROVE  Single'
  BY OpenStep, OneAskedStep DEF Single

-----------------------------------------------------------------------------
(* Nobody has left.                                                        *)

LEMMA AttachKeep ==
  ASSUME IInv, [Next]_vars,
         \A i \in DOMAIN reqs' : (\E j \in DOMAIN reqs : reqs'[i] = reqs[j]) \/ reqs'[i].kind # "attach",
         serving'.kind = "attach" => Attaching
  PROVE  Attaching' => Attaching
  <1>1. ASSUME NEW i \in DOMAIN reqs', reqs'[i].kind = "attach" PROVE Attaching
    BY <1>1, AttachingAt
  <1>2. ASSUME NEW i \in DOMAIN frames', frames'[i].kind = "attached" PROVE Attaching
    <2>1. PICK f : f = frames'[i]
      OBVIOUS
    <2>2. CASE \E j \in DOMAIN frames : f = frames[j]
      BY <1>2, <2>1, <2>2, AttachingAt
    <2>3. CASE Fresh(f)
      <3>1. serving.kind = "attach"
        BY <1>2, <2>1, <2>3 DEF Fresh, IsNotice
      <3> QED
        BY <3>1, AttachingAt
    <2> QED
      BY <2>1, <2>2, <2>3, FramesStep DEF FramesCome
  <1> QED
    BY <1>1, <1>2, AttachingAt

LEMMA AttachStep ==
  ASSUME IInv, [Next]_vars
  PROVE  (\E s \in Sessions : Select(s)) \/ Reopen \/ (Attaching' => Attaching)
  <1>0. ASSUME reqs' = reqs \/ reqs' = <<>>, serving' = serving \/ serving' = NoRequest
        PROVE  Attaching' => Attaching
    <2>1. DOMAIN <<>> = {}
      OBVIOUS
    <2>2. serving'.kind = "attach" => Attaching
      BY <1>0, AttachingAt DEF NoRequest, Request
    <2> QED
      BY <1>0, <2>1, <2>2, AttachKeep
  <1>1. ASSUME NEW r, Added(reqs, reqs', r), r.kind # "attach", serving' = serving
        PROVE  Attaching' => Attaching
    <2>1. \A i \in DOMAIN reqs' : (\E j \in DOMAIN reqs : reqs'[i] = reqs[j]) \/ reqs'[i].kind # "attach"
      BY <1>1 DEF Added
    <2> QED
      BY <1>1, <2>1, AttachKeep, AttachingAt
  <1>2. CASE UNCHANGED vars
    BY <1>0, <1>2 DEF vars, wireVars
  <1>3. CASE \E m \in Turns : Send(m)
    <2>1. PICK m \in Turns : Send(m)
      BY <1>3
    <2>2. /\ sock = "open" => Added(reqs, reqs', Request("message", cur, m, FALSE))
          /\ sock # "open" => reqs' = reqs
          /\ serving' = serving
      BY <2>1, SendEffect
    <2>3. Request("message", cur, m, FALSE).kind # "attach"
      BY DEF Request
    <2> QED
      BY <1>0, <1>1, <2>2, <2>3
  <1>4. CASE Respond
    <2>1. Added(reqs, reqs', Request("answer", cur, ask.of, FALSE)) /\ serving' = serving
      BY <1>4, RespondEffect
    <2>2. Request("answer", cur, ask.of, FALSE).kind # "attach"
      BY DEF Request
    <2> QED
      BY <1>1, <2>1, <2>2
  <1>5. CASE Logout \/ Closing \/ OnClose
    BY <1>0, <1>5, LogoutEffect, ClosingEffect, OnCloseEffect
  <1>6. CASE Serve
    <2>1. \A i \in DOMAIN reqs' : \E j \in DOMAIN reqs : reqs'[i] = reqs[j]
      BY <1>6, ServeEffect DEF Taken
    <2>2. serving'.kind = "attach" => reqs[1].kind = "attach" /\ 1 \in DOMAIN reqs
      <3>1. /\ Taken(reqs, reqs')
            /\ reqs[1].kind = "attach" \/ (reqs[1].kind = "answer" /\ serving' = reqs[1]) \/ serving' = NoRequest
        BY <1>6, ServeEffect
      <3> QED
        BY <3>1 DEF Taken, NoRequest, Request
    <2>3. serving'.kind = "attach" => Attaching
      BY <2>2, AttachingAt
    <2> QED
      BY <2>1, <2>3, AttachKeep
  <1>7. CASE ServeReply \/ (\E k \in Socks : SyncServed(k))
             \/ \E m \in Turns : PostServed(m) \/ Done(m) \/ Error(m) \/ Silent(m)
    BY <1>0, <1>7, ServeReplyEffect, SyncServedEffect, PostServedEffect, DoneEffect, ErrorEffect, SilentEffect
  <1>8. CASE (\E m \in Turns : System(m)) \/ \E m \in Turns : \E kind \in {"text", "tool", "ask"} : Produce(m, kind)
    BY <1>0, <1>8, SystemEffect, ProduceEffect
  <1>9. CASE Client
    BY <1>0, <1>9, OnTextEffect, OnToolEffect, OnSystemEffect, OnAskEffect, OnEndEffect, OnAttachedEffect, OnAnsweredEffect,
       OnSyncedEffect, PostFailsEffect DEF Client
  <1> QED
    BY <1>2, <1>3, <1>4, <1>5, <1>6, <1>7, <1>8, <1>9 DEF Next, User, Socket, Server

LEMMA StaysKeep ==
  ASSUME IInv, [Next]_vars, ~(\E s \in Sessions : Select(s)), ~Reopen,
         cur' = cur, sock' = sock, gen' => gen, trouble \subseteq trouble',
         \A m \in Turns : turn'[m].src = nr /\ turn'[m].pc \in {"sent", "run", "ask"} => Active(m)
  PROVE  Stays'
  <1>1. (Attaching' => Attaching) /\ nr' = nr
    BY AttachStep, SocketStep
  <1>2. StaysMarked'
    BY <1>1 DEF IInv, Stays, StaysMarked, Untroubled
  <1>3. StaysActive'
    <2> SUFFICES ASSUME NEW m \in Turns, Active(m)', sock' = "open", "left" \notin trouble'
                 PROVE  turn'[m].sid = cur' /\ ~Attaching'
      BY DEF StaysActive
    <2>1. Active(m)
      BY <1>1 DEF Active
    <2>2. turn[m].sid = cur /\ ~Attaching
      BY <2>1 DEF IInv, Stays, StaysActive
    <2>3. turn'[m].sid = turn[m].sid
      BY <2>1, KeepsStep DEF Keeps, Active
    <2> QED
      BY <1>1, <2>2, <2>3
  <1> QED
    BY <1>2, <1>3 DEF Stays

LEMMA StaysStep ==
  ASSUME IInv, [Next]_vars
  PROVE  Stays'
  <1>s. Stays /\ StaysMarked /\ StaysActive
    BY DEF IInv, Stays
  <1>1. CASE \E s \in Sessions : Select(s)
    <2>1. PICK s \in Sessions : Select(s)
      BY <1>1
    <2>2. /\ trouble \subseteq trouble' /\ (gen => "left" \in trouble') /\ gen' = gen
          /\ turn' = turn /\ nr' = nr /\ frames' = frames
      BY <2>1, SelectEffect
    <2>3. StaysMarked'
      BY <2>2 DEF StaysMarked, Untroubled
    <2>4. gen \/ \A m \in Turns : ~Active(m)
      BY DEF IInv, Single, NoneOpen, Open
    <2>5. StaysActive'
      BY <2>2, <2>4 DEF StaysActive, Active
    <2> QED
      BY <2>3, <2>5 DEF Stays
  <1>2. CASE Reopen
    <2>1. /\ nr' = nr + 1 /\ turn' = turn /\ gen' = gen /\ trouble' = trouble /\ sock = "closed"
      BY <1>2, ReopenEffect
    <2>2. StaysMarked'
      BY <1>s, <2>1 DEF StaysMarked, Untroubled
    <2>3. \A m \in Turns : turn[m].src # nr + 1
      BY SocketNumber DEF IInv, Wire, WireTurns
    <2>4. StaysActive'
      BY <2>1, <2>3 DEF StaysActive, Active
    <2> QED
      BY <2>2, <2>4 DEF Stays
  <1>3. CASE Logout \/ Closing \/ OnClose
    <2>1. sock' # "open" /\ gen' = gen /\ trouble \subseteq trouble' /\ (gen => "untold" \in trouble' \/ sock # "open")
      <3>1. CASE Logout
        BY <3>1, LogoutEffect
      <3>2. CASE Closing
        BY <3>2, ClosingEffect
      <3>3. CASE OnClose
        BY <3>3, OnCloseEffect
      <3> QED
        BY <1>3, <3>1, <3>2, <3>3
    <2>2. StaysMarked'
      BY <1>s, <2>1 DEF StaysMarked, Untroubled
    <2>3. StaysActive'
      BY <2>1 DEF StaysActive
    <2> QED
      BY <2>2, <2>3 DEF Stays
  <1>n. CASE ~(\E s \in Sessions : Select(s)) /\ ~Reopen
    <2>0. ASSUME cur' = cur, sock' = sock, gen' = gen, trouble' = trouble, turn' = turn
          PROVE  Stays'
      <3>1. \A m \in Turns : turn'[m].src = nr /\ turn'[m].pc \in {"sent", "run", "ask"} => Active(m)
        BY <2>0 DEF Active
      <3> QED
        BY <1>n, <2>0, <3>1, StaysKeep
    <2>1. CASE UNCHANGED vars
      BY <2>0, <2>1 DEF vars, viewVars, sockVars, serverVars
    <2>2. CASE \E m \in Turns : Send(m)
      <3>1. PICK m \in Turns : Send(m)
        BY <2>2
      <3>2. /\ \A h \in Turns \ {m} : turn'[h] = turn[h]
            /\ turn'[m].sid = cur /\ cur' = cur /\ sock' = sock /\ nr' = nr
            /\ trouble \subseteq trouble'
            /\ Attaching => "left" \in trouble'
            /\ sock # "open" => "untold" \in trouble'
        BY <3>1, SendEffect
      <3>3. Attaching' => Attaching
        BY <1>n, AttachStep
      <3>4. StaysMarked'
        BY <3>2, <3>3 DEF StaysMarked, Untroubled
      <3>5. ASSUME NEW h \in Turns, Active(h)', sock' = "open", "left" \notin trouble'
            PROVE  turn'[h].sid = cur' /\ ~Attaching'
        <4>1. CASE h = m
          BY <3>2, <3>3, <3>5, <4>1
        <4>2. CASE h # m
          <5>1. turn'[h] = turn[h]
            BY <3>2, <4>2
          <5>2. Active(h)
            BY <3>2, <3>5, <5>1 DEF Active
          <5> QED
            BY <1>s, <3>2, <3>3, <3>5, <5>1, <5>2 DEF StaysActive
        <4> QED
          BY <4>1, <4>2
      <3>6. StaysActive'
        BY <3>5 DEF StaysActive
      <3> QED
        BY <3>4, <3>6 DEF Stays
    <2>3. CASE Respond \/ ServeReply \/ (\E k \in Socks : SyncServed(k))
      BY <2>0, <2>3, RespondEffect, ServeReplyEffect, SyncServedEffect
    <2>4. CASE Serve
      <3>1. cur' = cur /\ sock' = sock /\ gen' = gen /\ trouble' = trouble
        BY <2>4, ServeEffect
      <3>2. \/ turn' = turn
            \/ /\ reqs[1].turn \in Turns /\ turn[reqs[1].turn].pc \in {"ask", "sent"}
               /\ Moved(turn, turn', reqs[1].turn, "run")
        BY <2>4, ServeEffect
      <3>3. nr' = nr
        BY <1>n, SocketStep
      <3>4. Calmer
        BY <3>2, <3>3, CalmerSame, CalmerMoved
      <3> QED
        BY <1>n, <3>1, <3>3, <3>4, StaysKeep DEF Calmer
    <2>5. CASE \E m \in Turns : PostServed(m) \/ Silent(m) \/ PostFails(m) \/ Done(m) \/ Error(m)
      <3>1. PICK m \in Turns : PostServed(m) \/ Silent(m) \/ PostFails(m) \/ Done(m) \/ Error(m)
        BY <2>5
      <3>2. /\ cur' = cur /\ sock' = sock /\ nr' = nr /\ (gen' = gen \/ gen' = FALSE) /\ trouble \subseteq trouble'
            /\ \/ Moved(turn, turn', m, "run") /\ turn[m].pc = "sent"
               \/ Moved(turn, turn', m, "over")
        BY <3>1, PostServedEffect, SilentEffect, PostFailsEffect, DoneEffect, ErrorEffect
      <3>3. Calmer
        BY <3>2, CalmerMoved
      <3> QED
        BY <1>n, <3>2, <3>3, StaysKeep DEF Calmer
    <2>6. CASE \E m \in Turns : \E kind \in {"text", "tool", "ask"} : Produce(m, kind)
      <3>1. PICK m \in Turns, kind \in {"text", "tool", "ask"} : Produce(m, kind)
        BY <2>6
      <3>2. /\ cur' = cur /\ sock' = sock /\ gen' = gen /\ trouble' = trouble
            /\ turn[m].pc = "run" /\ turn'[m].src = turn[m].src /\ \A h \in Turns \ {m} : turn'[h] = turn[h]
        BY <3>1, ProduceEffect
      <3>3. \A h \in Turns : turn'[h].src = nr /\ turn'[h].pc \in {"sent", "run", "ask"} => Active(h)
        BY <3>2 DEF Active
      <3> QED
        BY <1>n, <3>2, <3>3, StaysKeep
    <2>9. CASE \E m \in Turns : System(m)
      <3>1. PICK m \in Turns : System(m)
        BY <2>9
      <3>2. /\ cur' = cur /\ sock' = sock /\ gen' = gen /\ trouble' = trouble
            /\ turn[m].pc = "run" /\ turn'[m].src = turn[m].src /\ \A h \in Turns \ {m} : turn'[h] = turn[h]
        BY <3>1, SystemEffect
      <3>3. \A h \in Turns : turn'[h].src = nr /\ turn'[h].pc \in {"sent", "run", "ask"} => Active(h)
        BY <3>2 DEF Active
      <3> QED
        BY <1>n, <3>2, <3>3, StaysKeep
    <2>7. CASE OnText \/ OnTool \/ OnSystem \/ OnAsk \/ OnEnd \/ OnAnswered \/ \E k \in Socks : OnSynced(k)
      <3>1. /\ cur' = cur /\ sock' = sock /\ (gen' = gen \/ gen' = FALSE) /\ trouble \subseteq trouble' /\ turn' = turn
        BY <2>7, OnTextEffect, OnToolEffect, OnSystemEffect, OnAskEffect, OnEndEffect, OnAnsweredEffect, OnSyncedEffect
      <3>2. \A m \in Turns : turn'[m].src = nr /\ turn'[m].pc \in {"sent", "run", "ask"} => Active(m)
        BY <3>1 DEF Active
      <3> QED
        BY <1>n, <3>1, <3>2, StaysKeep
    <2>8. CASE OnAttached
      <3>1. /\ Taken(frames, frames') /\ frames[1].kind = "attached"
            /\ gen' = gen /\ sock' = sock /\ trouble' = trouble /\ turn' = turn /\ nr' = nr
        BY <2>8, OnAttachedEffect
      <3>2. Attaching
        BY <3>1, AttachingAt DEF Taken
      <3>3. StaysMarked'
        BY <1>s, <3>1, <3>2 DEF StaysMarked, Untroubled
      <3>4. StaysActive'
        BY <1>s, <3>1, <3>2 DEF StaysActive, Active
      <3> QED
        BY <3>3, <3>4 DEF Stays
    <2> QED
      BY <1>3, <1>n, <2>1, <2>2, <2>3, <2>4, <2>5, <2>6, <2>7, <2>8, <2>9 DEF Next, User, Socket, Server, Client
  <1> QED
    BY <1>1, <1>2, <1>n

-----------------------------------------------------------------------------
(* The mark has a cause.                                                   *)

Cause == \/ \E i \in DOMAIN reqs : reqs[i].kind = "message"
         \/ \E m \in Turns : turn[m].src = nr /\ turn[m].pc \in {"run", "ask"}
         \/ \E i \in DOMAIN frames : IsEnd(frames[i]) /\ frames[i].sid = cur

LEMMA CauseNow ==
  ASSUME IInv, trouble \subseteq trouble', gen' => gen, (gen /\ Untroubled /\ Untroubled') /\ Cause => Cause'
  PROVE  Marked'
  BY DEF IInv, Marked, Cause, Untroubled

\* What is the cause stays it.
LEMMA CauseKeep ==
  ASSUME cur' = cur, nr' = nr,
         \A i \in DOMAIN reqs : reqs[i].kind = "message" => i \in DOMAIN reqs' /\ reqs'[i] = reqs[i],
         \A m \in Turns : turn[m].src = nr /\ turn[m].pc \in {"run", "ask"} =>
                            turn'[m].src = nr /\ turn'[m].pc \in {"run", "ask"},
         \A i \in DOMAIN frames : IsEnd(frames[i]) => \E j \in DOMAIN frames' : frames'[j] = frames[i]
  PROVE  Cause => Cause'
  <1>1. ASSUME NEW i \in DOMAIN reqs, reqs[i].kind = "message" PROVE Cause'
    BY <1>1 DEF Cause
  <1>2. ASSUME NEW m \in Turns, turn[m].src = nr, turn[m].pc \in {"run", "ask"} PROVE Cause'
    <2>1. turn'[m].src = nr' /\ turn'[m].pc \in {"run", "ask"}
      BY <1>2
    <2> QED
      BY <2>1 DEF Cause
  <1>3. ASSUME NEW i \in DOMAIN frames, IsEnd(frames[i]), frames[i].sid = cur PROVE Cause'
    <2>1. PICK j \in DOMAIN frames' : frames'[j] = frames[i]
      BY <1>3
    <2>2. frames'[j].sid = cur' /\ IsEnd(frames[j])'
      BY <1>3, <2>1 DEF IsEnd
    <2> QED
      BY <2>2 DEF Cause
  <1> QED
    BY <1>1, <1>2, <1>3 DEF Cause

\* The frames that have not been received are there; the first one was no end.
LEMMA EndsKeep ==
  ASSUME frames' = frames \/ (\E f : Added(frames, frames', f)) \/ (Taken(frames, frames') /\ ~IsEnd(frames[1]))
  PROVE  \A i \in DOMAIN frames : IsEnd(frames[i]) => \E j \in DOMAIN frames' : frames'[j] = frames[i]
  <1>1. CASE Taken(frames, frames') /\ ~IsEnd(frames[1])
    <2> SUFFICES ASSUME NEW i \in DOMAIN frames, IsEnd(frames[i])
                 PROVE  \E j \in DOMAIN frames' : frames'[j] = frames[i]
      OBVIOUS
    <2>1. i # 1
      BY <1>1
    <2>2. i - 1 \in DOMAIN frames' /\ frames'[i - 1] = frames[i]
      BY <1>1, <2>1 DEF Taken
    <2> QED
      BY <2>2
  <1>2. CASE \E f : Added(frames, frames', f)
    BY <1>2 DEF Added
  <1> QED
    BY <1>1, <1>2

LEMMA MarkedServe ==
  ASSUME IInv, Serve
  PROVE  Marked'
  <1>1. /\ Taken(reqs, reqs') /\ cur' = cur /\ nr' = nr /\ gen' = gen /\ trouble' = trouble /\ frames' = frames
        /\ \/ turn' = turn /\ reqs[1].kind # "message"
           \/ /\ reqs[1].turn \in Turns /\ turn[reqs[1].turn].pc = "ask" /\ reqs[1].kind # "message"
              /\ Moved(turn, turn', reqs[1].turn, "run")
           \/ /\ reqs[1].kind = "message" /\ reqs[1].turn \in Turns
              /\ Moved(turn, turn', reqs[1].turn, "run")
    BY ServeEffect
  <1>2. ASSUME NEW m \in Turns, turn[m].src = nr, turn[m].pc \in {"run", "ask"}
        PROVE  turn'[m].src = nr' /\ turn'[m].pc \in {"run", "ask"}
    BY <1>1, <1>2 DEF Moved
  <1>3. ASSUME NEW i \in DOMAIN reqs, reqs[i].kind = "message" PROVE Cause'
    <2>1. CASE i = 1
      <3>1. PICK m \in Turns : m = reqs[1].turn
        BY <1>1, <1>3, <2>1
      <3>2. turn[m].src = nr
        BY <1>3, <2>1, <3>1 DEF IInv, Wire, WireReqs
      <3>3. turn'[m].src = nr' /\ turn'[m].pc = "run"
        BY <1>1, <1>3, <2>1, <3>1, <3>2 DEF Moved
      <3> QED
        BY <3>3 DEF Cause
    <2>2. CASE i # 1
      <3>1. i - 1 \in DOMAIN reqs' /\ reqs'[i - 1] = reqs[i]
        BY <1>1, <2>2 DEF Taken
      <3> QED
        BY <1>3, <3>1 DEF Cause
    <2> QED
      BY <2>1, <2>2
  <1>4. ASSUME NEW i \in DOMAIN frames, IsEnd(frames[i]), frames[i].sid = cur PROVE Cause'
    BY <1>1, <1>4 DEF Cause, IsEnd
  <1>5. Cause => Cause'
    BY <1>2, <1>3, <1>4 DEF Cause
  <1> QED
    BY <1>1, <1>5, CauseNow

LEMMA MarkedOver ==
  ASSUME IInv, NEW m \in Turns, Done(m) \/ Error(m)
  PROVE  Marked'
  <1>1. /\ cur' = cur /\ nr' = nr /\ gen' = gen /\ trouble' = trouble /\ reqs' = reqs
        /\ Moved(turn, turn', m, "over") /\ turn[m].pc = "run"
        /\ ~Sees(m) => frames' = frames
        /\ Sees(m) => \E k \in {"done", "error"} : Added(frames, frames', Frame(k, turn[m].sid, Part(m, 0), <<>>, FALSE))
    BY DoneEffect, ErrorEffect
  <1>2. ASSUME gen, Untroubled, turn[m].src = nr PROVE Cause'
    <2>1. sock = "open" /\ Sees(m) /\ Active(m)
      BY <1>1, <1>2 DEF IInv, Stays, StaysMarked, Sees, Active
    <2>2. turn[m].sid = cur
      BY <1>2, <2>1 DEF IInv, Stays, StaysActive, Untroubled
    <2>3. PICK k \in {"done", "error"} : Added(frames, frames', Frame(k, turn[m].sid, Part(m, 0), <<>>, FALSE))
      BY <1>1, <2>1
    <2>4. PICK f : f = Frame(k, turn[m].sid, Part(m, 0), <<>>, FALSE)
      OBVIOUS
    <2>5. f.kind = k /\ f.sid = cur
      BY <2>2, <2>4 DEF Frame
    <2>6. PICK q : q = frames'
      OBVIOUS
    <2>7. \E i \in DOMAIN q : q[i] = f
      BY <2>3, <2>4, <2>6 DEF Added
    <2>8. \E i \in DOMAIN q : IsEnd(q[i]) /\ q[i].sid = cur
      BY <2>5, <2>7 DEF IsEnd
    <2> QED
      BY <1>1, <2>6, <2>8 DEF Cause, IsEnd
  <1>3. ASSUME turn[m].src # nr PROVE Cause => Cause'
    <2>1. \A h \in Turns : turn[h].src = nr /\ turn[h].pc \in {"run", "ask"} =>
                             turn'[h].src = nr /\ turn'[h].pc \in {"run", "ask"}
      BY <1>1, <1>3 DEF Moved
    <2>2. frames' = frames
      BY <1>1, <1>3 DEF Sees
    <2> QED
      BY <1>1, <2>1, <2>2, CauseKeep
  <1> QED
    BY <1>1, <1>2, <1>3, CauseNow

LEMMA MarkedStep ==
  ASSUME IInv, [Next]_vars
  PROVE  Marked'
  <1>0. ASSUME cur' = cur, nr' = nr, gen' = gen, trouble \subseteq trouble', turn' = turn,
               reqs' = reqs \/ (\E r : Added(reqs, reqs', r)),
               frames' = frames \/ (\E f : Added(frames, frames', f)) \/ (Taken(frames, frames') /\ ~IsEnd(frames[1]))
        PROVE  Marked'
    <2>1. \A i \in DOMAIN reqs : i \in DOMAIN reqs' /\ reqs'[i] = reqs[i]
      BY <1>0 DEF Added
    <2>2. \A i \in DOMAIN frames : IsEnd(frames[i]) => \E j \in DOMAIN frames' : frames'[j] = frames[i]
      BY <1>0, EndsKeep
    <2>3. Cause => Cause'
      BY <1>0, <2>1, <2>2, CauseKeep
    <2> QED
      BY <1>0, <2>3, CauseNow
  <1>1. CASE UNCHANGED vars
    BY <1>0, <1>1 DEF vars, viewVars, sockVars, wireVars, serverVars
  <1>2. CASE \E m \in Turns : Send(m)
    <2>1. PICK m \in Turns : Send(m)
      BY <1>2
    <2>2. /\ sock = "open" => Added(reqs, reqs', Request("message", cur, m, FALSE))
          /\ sock # "open" => "untold" \in trouble'
      BY <2>1, SendEffect
    <2>3. CASE sock = "open"
      <3>1. PICK q : q = reqs'
        OBVIOUS
      <3>2. \E i \in DOMAIN q : q[i].kind = "message"
        BY <2>2, <2>3, <3>1 DEF Added, Request
      <3> QED
        BY <3>1, <3>2 DEF Marked
    <2> QED
      BY <2>2, <2>3 DEF Marked, Untroubled
  <1>3. CASE (\E s \in Sessions : Select(s)) \/ Respond
    BY <1>0, <1>3, SelectEffect, RespondEffect
  <1>4. CASE Logout \/ Closing
    <2>1. gen' = gen /\ (gen => "untold" \in trouble')
      BY <1>4, LogoutEffect, ClosingEffect
    <2> QED
      BY <2>1 DEF Marked, Untroubled
  <1>5. CASE OnClose \/ Reopen
    <2>1. gen' = gen /\ trouble' = trouble /\ sock # "open"
      BY <1>5, OnCloseEffect, ReopenEffect
    <2> QED
      BY <2>1 DEF IInv, Stays, StaysMarked, Marked, Untroubled
  <1>6. CASE Serve
    BY <1>6, MarkedServe
  <1>7. CASE ServeReply
    BY <1>0, <1>7, ServeReplyEffect
  <1>8. CASE (\E k \in Socks : SyncServed(k) \/ OnSynced(k))
    BY <1>0, <1>8, SyncServedEffect, OnSyncedEffect
  <1>9. CASE \E m \in Turns : PostServed(m)
    <2>1. PICK m \in Turns : PostServed(m)
      BY <1>9
    <2>2. /\ turn[m].pc = "sent" /\ Moved(turn, turn', m, "run")
          /\ cur' = cur /\ nr' = nr /\ trouble' = trouble /\ reqs' = reqs /\ frames' = frames
          /\ gen' = gen \/ gen' = FALSE
      BY <2>1, PostServedEffect
    <2>3. \A h \in Turns : turn[h].src = nr /\ turn[h].pc \in {"run", "ask"} =>
                             turn'[h].src = nr /\ turn'[h].pc \in {"run", "ask"}
      BY <2>2 DEF Moved
    <2>4. Cause => Cause'
      BY <2>2, <2>3, EndsKeep, CauseKeep
    <2> QED
      BY <2>2, <2>4, CauseNow
  <1>10. CASE \E m \in Turns : PostFails(m) \/ Silent(m)
    <2>1. gen' = FALSE \/ "untold" \in trouble'
      BY <1>10, PostFailsEffect, SilentEffect
    <2> QED
      BY <2>1 DEF Marked, Untroubled
  <1>11. CASE \E m \in Turns : Done(m) \/ Error(m)
    BY <1>11, MarkedOver
  <1>12. CASE \E m \in Turns : \E kind \in {"text", "tool", "ask"} : Produce(m, kind)
    <2>1. PICK m \in Turns, kind \in {"text", "tool", "ask"} : Produce(m, kind)
      BY <1>12
    <2>2. /\ turn'[m].pc = (IF kind = "ask" THEN "ask" ELSE "run") /\ turn'[m].src = turn[m].src
          /\ \A h \in Turns \ {m} : turn'[h] = turn[h]
          /\ cur' = cur /\ nr' = nr /\ gen' = gen /\ trouble' = trouble /\ reqs' = reqs
          /\ frames' = frames \/ \E f : Added(frames, frames', f)
      BY <2>1, ProduceEffect
    <2>3. \A h \in Turns : turn[h].src = nr /\ turn[h].pc \in {"run", "ask"} =>
                             turn'[h].src = nr /\ turn'[h].pc \in {"run", "ask"}
      BY <2>2
    <2>4. Cause => Cause'
      BY <2>2, <2>3, EndsKeep, CauseKeep
    <2> QED
      BY <2>2, <2>4, CauseNow
  <1>16. CASE \E m \in Turns : System(m)
    <2>1. PICK m \in Turns : System(m)
      BY <1>16
    <2>2. /\ turn'[m].pc = "run" /\ turn'[m].src = turn[m].src
          /\ \A h \in Turns \ {m} : turn'[h] = turn[h]
          /\ cur' = cur /\ nr' = nr /\ gen' = gen /\ trouble' = trouble /\ reqs' = reqs
          /\ frames' = frames \/ \E f : Added(frames, frames', f)
      BY <2>1, SystemEffect
    <2>3. \A h \in Turns : turn[h].src = nr /\ turn[h].pc \in {"run", "ask"} =>
                             turn'[h].src = nr /\ turn'[h].pc \in {"run", "ask"}
      BY <2>2
    <2>4. Cause => Cause'
      BY <2>2, <2>3, EndsKeep, CauseKeep
    <2> QED
      BY <2>2, <2>4, CauseNow
  <1>13. CASE OnText \/ OnTool \/ OnSystem \/ OnAsk \/ OnAnswered
    BY <1>0, <1>13, OnTextEffect, OnToolEffect, OnSystemEffect, OnAskEffect, OnAnsweredEffect DEF IsEnd
  <1>14. CASE OnEnd
    <2>1. /\ Taken(frames, frames') /\ gen' = (IF Hears(frames[1]) THEN FALSE ELSE gen)
          /\ cur' = cur /\ nr' = nr /\ turn' = turn /\ reqs' = reqs /\ trouble \subseteq trouble'
      BY <1>14, OnEndEffect
    <2>2. CASE Hears(frames[1])
      BY <2>1, <2>2 DEF Marked
    <2>3. CASE ~Hears(frames[1])
      <3>1. ASSUME NEW i \in DOMAIN frames, IsEnd(frames[i]), frames[i].sid = cur PROVE Cause'
        <4>1. i # 1
          BY <2>3, <3>1 DEF Hears
        <4>2. i - 1 \in DOMAIN frames' /\ frames'[i - 1] = frames[i]
          BY <2>1, <4>1 DEF Taken
        <4> QED
          BY <2>1, <3>1, <4>2 DEF Cause, IsEnd
      <3>2. Cause => Cause'
        BY <2>1, <3>1 DEF Cause
      <3> QED
        BY <2>1, <2>3, <3>2, CauseNow
    <2> QED
      BY <2>2, <2>3
  <1>15. CASE OnAttached
    <2>1. Taken(frames, frames') /\ frames[1].kind = "attached" /\ gen' = gen /\ trouble' = trouble
      BY <1>15, OnAttachedEffect
    <2>2. Attaching
      BY <2>1, AttachingAt DEF Taken
    <2> QED
      BY <2>1, <2>2 DEF IInv, Stays, StaysMarked, Marked, Untroubled
  <1> QED
    BY <1>1, <1>2, <1>3, <1>4, <1>5, <1>6, <1>7, <1>8, <1>9, <1>10, <1>11, <1>12, <1>13, <1>14, <1>15, <1>16
       DEF Next, User, Socket, Server, Client

-----------------------------------------------------------------------------
(* A request for permission is shown.                                      *)

\* No turn begins to wait for an answer.
NoneAsks == \A m \in Turns : turn'[m].pc = "ask" /\ turn'[m].src = nr =>
              turn[m].pc = "ask" /\ turn[m].src = nr /\ turn'[m].events = turn[m].events

\* The last request stays the last one, as frames come and go.
LEMMA LastKeep ==
  ASSUME IInv, sock' = sock, nr' = nr, NoneAsks,
         \/ frames' = frames \/ Taken(frames, frames')
         \/ \E f : Added(frames, frames', f) /\ f.kind # "ask"
  PROVE  ShowsLast'
  <1> SUFFICES ASSUME NEW m \in Turns, turn'[m].pc = "ask", Sees(m)',
                      NEW i \in DOMAIN frames', frames'[i].kind = "ask"
               PROVE  \E j \in DOMAIN frames' : j >= i /\ Asks(frames[j], m)'
    BY DEF ShowsLast
  <1>1. turn[m].pc = "ask" /\ Sees(m) /\ turn'[m].events = turn[m].events
    BY DEF NoneAsks, Sees
  <1>2. \A z \in DOMAIN frames : frames[z].kind = "ask" => \E j \in DOMAIN frames : j >= z /\ Asks(frames[j], m)
    BY <1>1 DEF IInv, Shows, ShowsLast
  <1>3. CASE frames' = frames
    BY <1>1, <1>2, <1>3 DEF Asks
  <1>4. CASE Taken(frames, frames')
    <2>1. i + 1 \in DOMAIN frames /\ frames'[i] = frames[i + 1] /\ i \in Nat \ {0}
      BY <1>4 DEF Taken
    <2>2. PICK j \in DOMAIN frames : j >= i + 1 /\ Asks(frames[j], m)
      BY <1>2, <2>1
    <2>3. j - 1 \in DOMAIN frames' /\ frames'[j - 1] = frames[j] /\ j - 1 >= i
      BY <1>4, <2>1, <2>2 DEF Taken
    <2>4. Asks(frames[j - 1], m)'
      BY <1>1, <2>2, <2>3 DEF Asks
    <2> QED
      BY <2>3, <2>4
  <1>5. CASE \E f : Added(frames, frames', f) /\ f.kind # "ask"
    <2>1. PICK f : Added(frames, frames', f) /\ f.kind # "ask"
      BY <1>5
    <2>2. i \in DOMAIN frames /\ frames'[i] = frames[i]
      BY <2>1 DEF Added
    <2>3. PICK j \in DOMAIN frames : j >= i /\ Asks(frames[j], m)
      BY <1>2, <2>2
    <2>4. j \in DOMAIN frames' /\ frames'[j] = frames[j]
      BY <2>1 DEF Added
    <2>5. Asks(frames[j], m)'
      BY <1>1, <2>3, <2>4 DEF Asks
    <2> QED
      BY <2>3, <2>4, <2>5
  <1> QED
    BY <1>3, <1>4, <1>5

LEMMA ShowsKeep ==
  ASSUME IInv, sock' = sock, nr' = nr, ask' = ask, trouble \subseteq trouble', NoneAsks,
         \/ frames' = frames \/ (Taken(frames, frames') /\ frames[1].kind # "ask")
         \/ \E f : Added(frames, frames', f) /\ f.kind # "ask"
  PROVE  Shows'
  <1>1. ShowsLast'
    BY LastKeep
  <1>2. ShowsAsk'
    <2> SUFFICES ASSUME NEW m \in Turns, turn'[m].pc = "ask", Sees(m)', trouble' \cap {"left", "erased"} = {}
                 PROVE  ask = Part(m, turn'[m].events) \/ \E i \in DOMAIN frames' : Asks(frames[i], m)'
      BY DEF ShowsAsk
    <2>1. turn[m].pc = "ask" /\ Sees(m) /\ turn'[m].events = turn[m].events
      BY DEF NoneAsks, Sees
    <2>2. ask = Part(m, turn[m].events) \/ \E i \in DOMAIN frames : Asks(frames[i], m)
      BY <2>1 DEF IInv, Shows, ShowsAsk
    <2>3. ASSUME NEW i \in DOMAIN frames, Asks(frames[i], m)
          PROVE  \E j \in DOMAIN frames' : Asks(frames[j], m)'
      <3>1. frames[i].kind = "ask"
        BY <2>3 DEF Asks
      <3>2. \E j \in DOMAIN frames' : frames'[j] = frames[i]
        <4>1. CASE Taken(frames, frames') /\ frames[1].kind # "ask"
          <5>1. i # 1
            BY <3>1, <4>1
          <5>2. i - 1 \in DOMAIN frames' /\ frames'[i - 1] = frames[i]
            BY <4>1, <5>1 DEF Taken
          <5> QED
            BY <5>2
        <4>2. CASE \E f : Added(frames, frames', f)
          BY <4>2 DEF Added
        <4> QED
          BY <4>1, <4>2
      <3>3. PICK j \in DOMAIN frames' : frames'[j] = frames[i]
        BY <3>2
      <3>4. Asks(frames[j], m)'
        BY <2>1, <2>3, <3>3 DEF Asks
      <3> QED
        BY <3>4
    <2> QED
      BY <2>1, <2>2, <2>3
  <1> QED
    BY <1>1, <1>2 DEF Shows

LEMMA ShowsClosed ==
  ASSUME sock' # "open"
  PROVE  Shows'
  BY DEF Shows, ShowsLast, ShowsAsk, Sees

LEMMA ShowsAsked ==
  ASSUME IInv, NEW m \in Turns, Produce(m, "ask")
  PROVE  Shows'
  <1>0. PICK n \in Nat : n = turn[m].events + 1
    BY SocketNumber
  <1>1. /\ turn[m].pc = "run" /\ \A h \in Turns \ {m} : turn'[h] = turn[h]
        /\ turn'[m].src = turn[m].src /\ turn'[m].events = n
        /\ Sees(m) => Added(frames, frames', Frame("ask", turn[m].sid, Part(m, n), <<>>, FALSE))
        /\ ~Sees(m) => frames' = frames
        /\ sock' = sock /\ nr' = nr /\ ask' = ask /\ trouble' = trouble
    BY <1>0, ProduceEffect
  <1>2. CASE sock # "open"
    BY <1>1, <1>2, ShowsClosed
  <1>3. CASE sock = "open" /\ turn[m].src # nr
    <2>1. NoneAsks
      BY <1>1, <1>3 DEF NoneAsks
    <2>2. frames' = frames
      BY <1>1, <1>3 DEF Sees
    <2> QED
      BY <1>1, <2>1, <2>2, ShowsKeep
  <1>4. CASE sock = "open" /\ turn[m].src = nr
    <2>1. Sees(m) /\ Open(m)
      BY <1>1, <1>4 DEF Sees, Open, Active
    <2>2. ASSUME NEW h \in Turns, turn'[h].pc = "ask", Sees(h)' PROVE h = m
      <3> SUFFICES ASSUME h # m PROVE FALSE
        OBVIOUS
      <3>1. turn[h].pc = "ask" /\ turn[h].src = nr
        BY <1>1, <2>2 DEF Sees
      <3>2. Open(h)
        BY <3>1 DEF Open, Active
      <3> QED
        BY <2>1, <3>2 DEF IInv, Single, OneOpen
    <2>3. PICK f : f = Frame("ask", turn[m].sid, Part(m, n), <<>>, FALSE)
      OBVIOUS
    <2>4. f.kind = "ask" /\ f.part = Part(m, n) /\ Added(frames, frames', f)
      BY <1>1, <2>1, <2>3 DEF Frame
    <2>5. PICK l \in DOMAIN frames' : frames'[l] = f /\ \A i \in DOMAIN frames' : l >= i
      <3>1. PICK q : q = frames'
        OBVIOUS
      <3>2. PICK l \in Nat : l = Len(frames) + 1
        BY <2>4 DEF Added
      <3>3. l \in DOMAIN q /\ q[l] = f /\ \A i \in DOMAIN q : l >= i
        BY <2>4, <3>1, <3>2 DEF Added
      <3> QED
        BY <3>1, <3>3
    <2>6. Asks(frames[l], m)'
      BY <1>1, <2>4, <2>5 DEF Asks
    <2>7. ShowsLast'
      BY <2>2, <2>5, <2>6 DEF ShowsLast
    <2>8. ShowsAsk'
      BY <2>2, <2>6 DEF ShowsAsk
    <2> QED
      BY <2>7, <2>8 DEF Shows
  <1> QED
    BY <1>2, <1>3, <1>4

\* Once the dialog changes, what matters is left on the way or has just come.
LEMMA ShowsReceived ==
  ASSUME IInv, OnAsk \/ OnAttached \/ OnAnswered
  PROVE  Shows'
  <1>1. /\ Taken(frames, frames') /\ sock' = sock /\ nr' = nr /\ turn' = turn /\ trouble \subseteq trouble'
    BY OnAskEffect, OnAttachedEffect, OnAnsweredEffect
  <1>2. NoneAsks
    BY <1>1 DEF NoneAsks
  <1>3. ShowsLast'
    BY <1>1, <1>2, LastKeep
  <1>4. ASSUME NEW m \in Turns, turn[m].pc = "ask", Sees(m), trouble' \cap {"left", "erased"} = {}
        PROVE  ask' = Part(m, turn[m].events) \/ \E i \in DOMAIN frames' : Asks(frames[i], m)'
    <2>1. /\ Active(m) /\ sock = "open" /\ "left" \notin trouble /\ trouble \cap {"left", "erased"} = {}
      BY <1>1, <1>4 DEF Sees, Active
    <2>2. turn[m].sid = cur /\ ~Attaching
      BY <2>1 DEF IInv, Stays, StaysActive
    <2>3. ASSUME NEW i \in DOMAIN frames, Asks(frames[i], m), i # 1
          PROVE  \E j \in DOMAIN frames' : Asks(frames[j], m)'
      <3>1. i - 1 \in DOMAIN frames' /\ frames'[i - 1] = frames[i]
        BY <1>1, <2>3 DEF Taken
      <3>2. Asks(frames[i - 1], m)'
        BY <1>1, <2>3, <3>1 DEF Asks
      <3> QED
        BY <3>1, <3>2
    <2>4. CASE OnAsk
      <3>1. frames[1].kind = "ask" /\ 1 \in DOMAIN frames /\ ask' = IF Hears(frames[1]) THEN frames[1].part ELSE ask
        BY <1>1, <2>4, OnAskEffect DEF Taken
      <3>2. PICK j \in DOMAIN frames : Asks(frames[j], m)
        BY <1>4, <3>1 DEF IInv, Shows, ShowsLast
      <3>3. CASE j = 1
        <4>1. frames[1].part = Part(m, turn[m].events)
          BY <3>2, <3>3 DEF Asks
        <4>2. frames[1].sid = turn[m].sid
          BY <3>1, <4>1 DEF IInv, Wire, WireFrames, IsNotice, Part
        <4> QED
          BY <2>2, <3>1, <4>1, <4>2 DEF Hears
      <3> QED
        BY <2>3, <3>2, <3>3
    <2>5. CASE OnAttached
      <3>1. frames[1].kind = "attached" /\ 1 \in DOMAIN frames
        BY <1>1, <2>5, OnAttachedEffect DEF Taken
      <3> QED
        BY <2>2, <3>1, AttachingAt
    <2>6. CASE OnAnswered
      <3>1. /\ frames[1].kind = "answered"
            /\ ask # NoAsk /\ turn[ask.of].pc = "ask" /\ turn[ask.of].events = ask.nr => "erased" \in trouble'
        BY <2>6, OnAnsweredEffect
      <3>2. ask = Part(m, turn[m].events) \/ \E i \in DOMAIN frames : Asks(frames[i], m)
        BY <1>4, <2>1 DEF IInv, Shows, ShowsAsk
      <3>3. ask # Part(m, turn[m].events)
        <4> SUFFICES ASSUME ask = Part(m, turn[m].events) PROVE FALSE
          OBVIOUS
        <4>1. ask.of = m /\ ask.nr = turn[m].events /\ ask # NoAsk
          BY NoneFresh DEF Part, NoAsk
        <4> QED
          BY <1>4, <3>1, <4>1
      <3>4. PICK i \in DOMAIN frames : Asks(frames[i], m)
        BY <3>2, <3>3
      <3>5. i # 1
        BY <3>1, <3>4 DEF Asks
      <3> QED
        BY <2>3, <3>4, <3>5
    <2> QED
      BY <2>4, <2>5, <2>6
  <1>5. ShowsAsk'
    BY <1>1, <1>4 DEF ShowsAsk, Sees
  <1> QED
    BY <1>3, <1>5 DEF Shows

LEMMA NoneAsksMoved ==
  ASSUME NEW m \in Turns, NEW c, c # "ask", Moved(turn, turn', m, c)
  PROVE  NoneAsks
  BY DEF Moved, NoneAsks

LEMMA ShowsStep ==
  ASSUME IInv, [Next]_vars
  PROVE  Shows'
  <1>0. ASSUME sock' = sock, nr' = nr, ask' = ask, trouble \subseteq trouble', turn' = turn,
               \/ frames' = frames \/ (Taken(frames, frames') /\ frames[1].kind # "ask")
               \/ \E f : Added(frames, frames', f) /\ f.kind # "ask"
        PROVE  Shows'
    <2>1. NoneAsks
      BY <1>0 DEF NoneAsks
    <2> QED
      BY <1>0, <2>1, ShowsKeep
  <1>1. CASE UNCHANGED vars
    BY <1>0, <1>1 DEF vars, viewVars, sockVars, wireVars, serverVars
  <1>2. CASE \E m \in Turns : Send(m)
    <2>1. PICK m \in Turns : Send(m)
      BY <1>2
    <2>2. /\ turn'[m].pc = "sent" /\ \A h \in Turns \ {m} : turn'[h] = turn[h]
          /\ sock' = sock /\ nr' = nr /\ ask' = ask /\ frames' = frames /\ trouble \subseteq trouble'
      BY <2>1, SendEffect
    <2>3. NoneAsks
      BY <2>2 DEF NoneAsks
    <2> QED
      BY <2>2, <2>3, ShowsKeep
  <1>3. CASE (\E s \in Sessions : Select(s)) \/ Respond \/ \E k \in Socks : SyncServed(k) \/ OnSynced(k)
    BY <1>0, <1>3, SelectEffect, RespondEffect, SyncServedEffect, OnSyncedEffect
  <1>4. CASE Logout \/ Closing \/ OnClose
    BY <1>4, LogoutEffect, ClosingEffect, OnCloseEffect, ShowsClosed
  <1>5. CASE Reopen
    <2>1. nr' = nr + 1 /\ turn' = turn
      BY <1>5, ReopenEffect
    <2>2. \A m \in Turns : turn[m].src # nr + 1
      BY SocketNumber DEF IInv, Wire, WireTurns
    <2> QED
      BY <2>1, <2>2 DEF Shows, ShowsLast, ShowsAsk, Sees
  <1>6. CASE Serve
    <2>1. sock' = sock /\ nr' = nr /\ ask' = ask /\ frames' = frames /\ trouble' = trouble
      BY <1>6, ServeEffect
    <2>2. turn' = turn \/ (reqs[1].turn \in Turns /\ Moved(turn, turn', reqs[1].turn, "run"))
      BY <1>6, ServeEffect
    <2>3. NoneAsks
      <3>1. turn' = turn => NoneAsks
        BY <2>1 DEF NoneAsks
      <3> QED
        BY <2>2, <3>1, NoneAsksMoved
    <2> QED
      BY <2>1, <2>3, ShowsKeep
  <1>7. CASE ServeReply
    <2>1. \E f : Added(frames, frames', f) /\ f.kind # "ask"
      BY <1>7, ServeReplyEffect
    <2> QED
      BY <1>0, <1>7, <2>1, ServeReplyEffect
  <1>8. CASE \E m \in Turns : PostServed(m) \/ Silent(m) \/ PostFails(m)
    <2>1. PICK m \in Turns : PostServed(m) \/ Silent(m) \/ PostFails(m)
      BY <1>8
    <2>2. /\ Moved(turn, turn', m, "run") \/ Moved(turn, turn', m, "over")
          /\ sock' = sock /\ nr' = nr /\ ask' = ask /\ frames' = frames /\ trouble \subseteq trouble'
      BY <2>1, PostServedEffect, SilentEffect, PostFailsEffect
    <2>3. NoneAsks
      BY <2>2, NoneAsksMoved
    <2> QED
      BY <2>2, <2>3, ShowsKeep
  <1>9. CASE \E m \in Turns : Done(m) \/ Error(m)
    <2>1. PICK m \in Turns : Done(m) \/ Error(m)
      BY <1>9
    <2>2. /\ Moved(turn, turn', m, "over") /\ sock' = sock /\ nr' = nr /\ ask' = ask /\ trouble' = trouble
          /\ \/ frames' = frames
             \/ \E k \in {"done", "error"} : Added(frames, frames', Frame(k, turn[m].sid, Part(m, 0), <<>>, FALSE))
      BY <2>1, DoneEffect, ErrorEffect
    <2>3. \A k \in {"done", "error"} : Frame(k, turn[m].sid, Part(m, 0), <<>>, FALSE).kind # "ask"
      BY DEF Frame
    <2>4. NoneAsks
      BY <2>2, NoneAsksMoved
    <2> QED
      BY <2>2, <2>3, <2>4, ShowsKeep
  <1>10. CASE \E m \in Turns : Produce(m, "ask")
    BY <1>10, ShowsAsked
  <1>11. CASE \E m \in Turns : \E kind \in {"text", "tool"} : Produce(m, kind)
    <2>1. PICK m \in Turns, kind \in {"text", "tool"} : Produce(m, kind)
      BY <1>11
    <2>2. /\ turn'[m].pc = "run" /\ \A h \in Turns \ {m} : turn'[h] = turn[h]
          /\ sock' = sock /\ nr' = nr /\ ask' = ask /\ trouble' = trouble
          /\ \/ frames' = frames
             \/ Added(frames, frames', Frame(kind, turn[m].sid, Part(m, turn[m].events + 1), <<>>, FALSE))
      BY <2>1, ProduceEffect
    <2>3. Frame(kind, turn[m].sid, Part(m, turn[m].events + 1), <<>>, FALSE).kind # "ask"
      BY DEF Frame
    <2>4. NoneAsks
      BY <2>2 DEF NoneAsks
    <2> QED
      BY <2>2, <2>3, <2>4, ShowsKeep
  <1>14. CASE \E m \in Turns : System(m)
    <2>1. PICK m \in Turns : System(m)
      BY <1>14
    <2>2. /\ turn'[m].pc = "run" /\ \A h \in Turns \ {m} : turn'[h] = turn[h]
          /\ sock' = sock /\ nr' = nr /\ ask' = ask /\ trouble' = trouble
          /\ \/ frames' = frames
             \/ Added(frames, frames', Frame("system", turn[m].sid, Part(m, turn[m].events + 1), <<>>, FALSE))
      BY <2>1, SystemEffect
    <2>3. Frame("system", turn[m].sid, Part(m, turn[m].events + 1), <<>>, FALSE).kind # "ask"
      BY DEF Frame
    <2>4. NoneAsks
      BY <2>2 DEF NoneAsks
    <2> QED
      BY <2>2, <2>3, <2>4, ShowsKeep
  <1>12. CASE OnText \/ OnTool \/ OnSystem \/ OnEnd
    BY <1>0, <1>12, OnTextEffect, OnToolEffect, OnSystemEffect, OnEndEffect DEF IsEnd
  <1>13. CASE OnAsk \/ OnAttached \/ OnAnswered
    BY <1>13, ShowsReceived
  <1> QED
    BY <1>1, <1>2, <1>3, <1>4, <1>5, <1>6, <1>7, <1>8, <1>9, <1>10, <1>11, <1>12, <1>13, <1>14
       DEF Next, User, Socket, Server, Client

-----------------------------------------------------------------------------
(* The inductive invariant, and what follows from it.                      *)

LEMMA InitTypes == Init => TypeOK
  <1> SUFFICES ASSUME Init PROVE TypeOK
    OBVIOUS
  <1>1. DOMAIN <<>> = {} /\ <<>> \in Seq(Entries) /\ <<>> \in Seq(Parts)
    OBVIOUS
  <1>2. nr \in Socks
    BY BoundsNat DEF Init, Socks
  <1>3. serving \in ServRecs /\ \A k \in Socks : sync[k] \in SyncRecs
    BY Made DEF Init
  <1>4. \A m \in Turns : turn[m] \in TurnRecs
    BY DEF Init, TurnRecs
  <1>5. sync \in [Socks -> SyncRecs] /\ turn \in [Turns -> TurnRecs]
    BY <1>3, <1>4 DEF Init
  <1>6. reqs \in Seq(ReqRecs) /\ frames \in Seq(FrameRecs) /\ messages \in Seq(Entries)
    BY DEF Init
  <1>7. answer \in [Turns -> Seq(Parts)] /\ history \in [Sessions -> Seq(Entries)] /\ trouble \in SUBSET Causes
    BY <1>1 DEF Init
  <1>8. /\ cur \in Sessions \cup {None} /\ recall \in Sessions \cup {None} /\ gen \in BOOLEAN
        /\ bubble \in [turn : Turns, text : Seq(Parts)] \cup {NoBubble} /\ ask \in Parts \cup {NoAsk}
        /\ sock = "open" /\ sock \in {"open", "closing", "closed"}
    BY DEF Init
  <1> QED
    BY <1>2, <1>3, <1>5, <1>6, <1>7, <1>8 DEF TypeOK, ReqRecs, ServRecs, FrameRecs, SyncRecs, TurnRecs

LEMMA InitInv == Init => IInv
  <1> SUFFICES ASSUME Init PROVE IInv
    OBVIOUS
  <1>1. DOMAIN <<>> = {}
    OBVIOUS
  <1>2. /\ DOMAIN messages = {} /\ DOMAIN reqs = {} /\ DOMAIN frames = {} /\ DOMAIN bubble.text = {}
        /\ \A s \in Sessions : DOMAIN history[s] = {}
        /\ \A m \in Turns : DOMAIN answer[m] = {}
        /\ \A k \in Socks : DOMAIN sync[k].list = {} /\ sync[k].pc = "none"
    BY <1>1 DEF Init, NoBubble, NoSync
  <1>3. nr = 1 /\ \A m \in Turns : turn[m].pc = "new" /\ turn[m].src = 0
    BY DEF Init
  <1>4. serving = NoRequest /\ serving.kind = "none" /\ gen = FALSE
    BY DEF Init, NoRequest, Request
  <1>5. Wire
    BY <1>2, <1>3, <1>4 DEF Wire, WireTurns, WireReqs, WireServing, WireFrames, WireSync, Begun
  <1>6. Belongs
    BY <1>2, <1>4 DEF Belongs, Read
  <1>7. Mine
    BY <1>2 DEF Mine
  <1>8. \A m \in Turns : ~Open(m)
    BY <1>2, <1>3 DEF Open, Active, Posted, Ending
  <1>9. Single
    BY <1>2, <1>8 DEF Single, OneOpen, NoneOpen, ItsOwn, EndLast, OneAsked
  <1>10. Stays
    BY <1>3, <1>4 DEF Stays, StaysMarked, StaysActive, Active
  <1>11. Shows /\ Marked
    BY <1>3, <1>4 DEF Shows, ShowsLast, ShowsAsk, Marked
  <1> QED
    BY <1>5, <1>6, <1>7, <1>9, <1>10, <1>11, InitTypes DEF IInv

LEMMA NextInv == IInv /\ [Next]_vars => IInv'
  <1> SUFFICES ASSUME IInv, [Next]_vars PROVE IInv'
    OBVIOUS
  <1>1. TypeOK' /\ Wire' /\ Belongs' /\ Mine' /\ Stays' /\ Shows' /\ Marked'
    BY TypeStep, WireStep, BelongsStep, MineStep, StaysStep, ShowsStep, MarkedStep
  <1>2. Single'
    BY SingleStep
  <1> QED
    BY <1>1, <1>2 DEF IInv

\* The inductive invariant holds throughout.
THEOREM Invariance == Spec => []IInv
  BY InitInv, NextInv, PTL DEF Spec

\* The types are as declared, and whatever was on its way over a socket is
\* forgotten with it (wsStore.ts:97-225).
THEOREM Types == Spec => []TypeOK
  <1>1. IInv => TypeOK
    BY DEF IInv
  <1> QED
    BY <1>1, Invariance, PTL

\* However often the user switches while answers come, the messages shown and
\* the answer that grows in them are of the session shown, unless a sync was
\* overtaken (wsStore.ts:94-95, 458-496, 607-612).
THEOREM ShownIsOwn == Spec => []OwnSession
  <1>1. IInv => OwnSession
    BY DEF IInv, Mine, OfSession, OwnSession
  <1> QED
    BY <1>1, Invariance, PTL

\* While the input is disabled a message is on its way, its turn runs and tells
\* this socket, or its end is coming (wsStore.ts:192-205, 404-434).
THEOREM MarkHasEnd == Spec => []GeneratingHasEnd
  <1>1. IInv => GeneratingHasEnd
    <2> SUFFICES ASSUME IInv, gen, trouble \cap {"left", "untold"} = {}
                 PROVE  \/ \E r \in Pending : r.kind = "message" /\ turn[r.turn].pc = "sent"
                        \/ \E m \in Turns : turn[m].pc \in {"run", "ask"} /\ Sees(m) /\ turn[m].sid = cur
                        \/ \E f \in Coming : f.kind \in {"done", "error"} /\ f.sid = cur
      BY DEF GeneratingHasEnd
    <2>1. sock = "open" /\ "left" \notin trouble
      BY DEF IInv, Stays, StaysMarked, Untroubled
    <2>2. \/ \E i \in DOMAIN reqs : reqs[i].kind = "message"
          \/ \E m \in Turns : turn[m].src = nr /\ turn[m].pc \in {"run", "ask"}
          \/ \E i \in DOMAIN frames : IsEnd(frames[i]) /\ frames[i].sid = cur
      BY DEF IInv, Marked, Untroubled
    <2>3. CASE \E i \in DOMAIN reqs : reqs[i].kind = "message"
      BY <2>3 DEF IInv, Wire, WireReqs, Pending
    <2>4. ASSUME NEW m \in Turns, turn[m].src = nr, turn[m].pc \in {"run", "ask"}
          PROVE  Sees(m) /\ turn[m].sid = cur
      BY <2>1, <2>4 DEF IInv, Stays, StaysActive, Active, Sees
    <2>5. CASE \E i \in DOMAIN frames : IsEnd(frames[i]) /\ frames[i].sid = cur
      BY <2>5 DEF IsEnd, Coming
    <2> QED
      BY <2>2, <2>3, <2>4, <2>5
  <1> QED
    BY <1>1, Invariance, PTL

\* The request for permission that a turn of the session shown waits on is
\* shown, however requests, answers and texts of other turns cross it
\* (wsStore.ts:167-190, 489-490, 520-574).
THEOREM AskedIsShown == Spec => []AskIsShown
  <1>1. IInv => AskIsShown
    BY DEF IInv, Shows, ShowsAsk, Asks, Coming, AskIsShown
  <1> QED
    BY <1>1, Invariance, PTL

-----------------------------------------------------------------------------
(* The view and the history: what the invariant of ViewIsHistory adds.     *)

\* Nothing but an erased request has disturbed the view.
Clean == trouble \subseteq {"erased"}

IsAnswer(e) == e.role = "assistant"
Carries(f)  == f.kind \in {"text", "tool"}
Working(m)  == turn[m].pc \in {"run", "ask"}
Waits(m)    == turn[m].pc = "sent"
Busy(m)     == Working(m) \/ Ending(m)
DoneComing(fs, m) == \E i \in DOMAIN fs : fs[i].kind = "done" /\ fs[i].part.of = m

\* Of a turn there is one message, one answer, and one system message a text.
IsSystem(e) == e.role = "system"
Alike(e, f) == e.role = f.role /\ e.turn = f.turn /\ (IsSystem(e) => e.text = f.text)

\* The store has everything once, an answer at the end of its turn.
Once ==
  \A s \in Sessions : \A i \in DOMAIN history[s] :
    LET e == history[s][i] IN
    /\ turn[e.turn].pc \notin {"new", "sent"}
    /\ IsAnswer(e) => turn[e.turn].pc = "over"
    /\ \A j \in DOMAIN history[s] : Alike(history[s][j], e) => j = i

\* What a turn has produced is numbered.
Numbered ==
  \A m \in Turns : /\ turn[m].pc \in {"new", "sent"} => answer[m] = <<>>
                   /\ \A i \in DOMAIN answer[m] : answer[m][i].nr <= turn[m].events
Counted ==
  \A s \in Sessions : \A i \in DOMAIN history[s] : IsSystem(history[s][i]) =>
    \A k \in Nat : history[s][i].text = <<Part(history[s][i].turn, k)>> => k <= turn[history[s][i].turn].events

\* Every turn under way came over this socket, every notice is of the session
\* shown, and of the turn under way.
Here   == \A m \in Turns : Waits(m) \/ Working(m) => turn[m].src = nr
Heeded == \A i \in DOMAIN frames : IsNotice(frames[i]) => frames[i].sid = cur /\ Busy(frames[i].part.of)

\* A history on its way is still what the store holds; nothing that a sync
\* could bring is missing, as long as the view is as long as it was.
Fetched ==
  /\ serving.kind = "attach" => serving.list = history[serving.sid]
  /\ \A i \in DOMAIN frames : frames[i].kind = "attached" => frames[i].list = history[frames[i].sid]
Even(r) ==
  r.pc # "none" =>
    /\ r.after <= Len(history[r.sid])
    /\ r.list # <<>> => r.after < Len(history[r.sid])
    /\ r.sid = cur => /\ r.after <= Len(messages) /\ (gen => r.after < Len(messages))
                      /\ r.after = Len(messages) => r.after = Len(history[r.sid])
Synced == \A k \in Socks : Even(sync[k])

\* The answer under construction is the last message and the only one of its
\* turn; without it there is none yet of the turn under way.
Bubbles ==
  /\ ~gen => bubble = NoBubble
  /\ bubble # NoBubble =>
       /\ Busy(bubble.turn) /\ bubble.text # <<>> /\ Len(messages) \in DOMAIN messages
       /\ Grows(messages[Len(messages)], bubble) /\ messages[Len(messages)].text = bubble.text
  /\ \A i \in DOMAIN messages : Grows(messages[i], bubble) => i = Len(messages)
  /\ bubble = NoBubble => \A i \in DOMAIN messages : ~ (IsAnswer(messages[i]) /\ Busy(messages[i].turn))

\* The message that waits for its turn is the last one.
Asked ==
  \A m \in Turns : Waits(m) =>
    /\ Len(messages) \in DOMAIN messages /\ messages[Len(messages)] = Entry("client", "user", m, <<>>)
    /\ \A i \in DOMAIN messages : messages[i].turn = m => i = Len(messages)

\* Of answer T the client has q, and the frames fs bring the rest.
Flow(T, q, fs) ==
  /\ Len(q) <= Len(T) /\ \A i \in DOMAIN q : q[i] = T[i]
  /\ \A i, j \in DOMAIN T : i < j => T[i].nr < T[j].nr
  /\ \A i \in DOMAIN fs : Carries(fs[i]) => \E p \in DOMAIN T : p > Len(q) /\ fs[i].part = T[p]
  /\ \A p \in DOMAIN T : p > Len(q) => \E i \in DOMAIN fs : Carries(fs[i]) /\ fs[i].part = T[p]
  /\ \A i, j \in DOMAIN fs : i < j /\ Carries(fs[i]) /\ Carries(fs[j]) => fs[i].part.nr < fs[j].part.nr
FlowsOut == \A m \in Turns : Working(m) => Flow(answer[m], bubble.text, frames)
FlowsEnd ==
  \A m \in Turns : DoneComing(frames, m) =>
    LET h == history[cur] IN
    /\ Len(h) \in DOMAIN h /\ IsAnswer(h[Len(h)]) /\ h[Len(h)].turn = m
    /\ Flow(h[Len(h)].text, bubble.text, frames)

\* The frame of a system message, and whether it is among those coming.
Brings(f, e)   == f.kind = "system" /\ IsSystem(e) /\ e.turn = f.part.of /\ e.text = <<f.part>>
Brought(fs, e) == \E i \in DOMAIN fs : Brings(fs[i], e)

\* The messages and the stored ones that can be compared already: not the one
\* that waits, nor the answer that grows, nor the one whose end is coming, nor
\* the system messages that are coming.
Settled(q, t, b) == {i \in Visible(q) : t[q[i].turn].pc # "sent" /\ ~Grows(q[i], b)}
Stored(h, fs)    == {j \in Visible(h) : ~ (IsAnswer(h[j]) /\ DoneComing(fs, h[j].turn)) /\ ~Brought(fs, h[j])}
Agrees == cur # None => Agree(messages, Settled(messages, turn, bubble), history[cur], Stored(history[cur], frames))

\* The system messages that are coming are stored behind all the others, in the
\* order in which they come.
InOrder(h, fs) ==
  /\ \A i \in DOMAIN fs : fs[i].kind = "system" => \E b \in DOMAIN h : Brings(fs[i], h[b])
  /\ \A i, j \in DOMAIN fs : \A b, c \in DOMAIN h : i < j /\ Brings(fs[i], h[b]) /\ Brings(fs[j], h[c]) => b < c
  /\ \A i \in DOMAIN fs : \A b \in DOMAIN h : Brings(fs[i], h[b]) => \A k \in Stored(h, fs) : k < b
Asides == cur # None => InOrder(history[cur], frames)

View == Heeded /\ Bubbles /\ Asked /\ FlowsOut /\ FlowsEnd /\ Agrees /\ Asides
Calm == Here /\ Fetched /\ Synced /\ View
JInv == IInv /\ Once /\ Numbered /\ Counted /\ (Clean => Calm)

-----------------------------------------------------------------------------
(* Agreement, and the flow of an answer, by their indices.                 *)

LEMMA AddedLen ==
  ASSUME NEW T, NEW q \in Seq(T), NEW p \in Seq(T), NEW e, Added(q, p, e)
  PROVE  Len(p) = Len(q) + 1 /\ p[Len(p)] = e /\ Len(q) \in Nat
  BY DEF Added

LEMMA ReshownLen ==
  ASSUME NEW T, NEW q \in Seq(T), NEW p \in Seq(T), DOMAIN p = DOMAIN q
  PROVE  Len(p) = Len(q) /\ Len(q) \in Nat
  OBVIOUS

LEMMA AgreeKeep ==
  ASSUME NEW p, NEW P, NEW q, NEW Q, NEW p2, NEW q2, Agree(p, P, q, Q),
         \A i \in P : Same(p2[i], p[i]), \A j \in Q : Same(q2[j], q[j])
  PROVE  Agree(p2, P, q2, Q)
  BY DEF Agree, Same

\* A history without doubles agrees with itself.
LEMMA AgreeSelf ==
  ASSUME NEW q, NEW Q, \A i, j \in Q : Alike(q[i], q[j]) => i = j
  PROVE  Agree(q, Q, q, Q)
  BY DEF Agree, Same, Alike

\* An agreement goes on with a pair of new entries behind all the others.
LEMMA AgreeMore ==
  ASSUME NEW p, NEW P \in SUBSET Nat, NEW q, NEW Q \in SUBSET Nat, NEW q2, Agree(p, P, q, Q),
         \A j \in Q : q2[j] = q[j],
         NEW a \in Nat, NEW b \in Nat, \A i \in P : i < a, \A j \in Q : j < b,
         Same(p[a], q2[b]), \A j \in Q : ~Alike(q2[j], q2[b])
  PROVE  Agree(p, P \cup {a}, q2, Q \cup {b})
  <1>1. /\ \A i \in P : \E j \in Q : Same(p[i], q2[j])
        /\ \A j \in Q : \E i \in P : Same(p[i], q2[j])
        /\ \A i, h \in P : \A j, k \in Q : Same(p[i], q2[j]) /\ Same(p[h], q2[k]) => (i < h <=> j < k)
    BY DEF Agree
  <1>2. \A i \in P : ~Same(p[i], q2[b])
    BY <1>1 DEF Same, Alike
  <1>3. \A j \in Q : ~Same(p[a], q2[j])
    BY DEF Same, Alike
  <1>4. ASSUME NEW i \in P \cup {a}, NEW h \in P \cup {a}, NEW j \in Q \cup {b}, NEW k \in Q \cup {b},
               Same(p[i], q2[j]), Same(p[h], q2[k])
        PROVE  i < h <=> j < k
    <2>1. (i = a <=> j = b) /\ (h = a <=> k = b)
      BY <1>2, <1>3, <1>4
    <2>2. CASE i = a /\ h = a
      BY <2>1, <2>2
    <2>3. CASE i = a /\ h # a
      BY <2>1, <2>3
    <2>4. CASE i # a /\ h = a
      BY <2>1, <2>4
    <2>5. CASE i # a /\ h # a
      BY <1>1, <1>4, <2>1, <2>5
    <2> QED
      BY <2>2, <2>3, <2>4, <2>5
  <1>5. /\ \A i \in P \cup {a} : \E j \in Q \cup {b} : Same(p[i], q2[j])
        /\ \A j \in Q \cup {b} : \E i \in P \cup {a} : Same(p[i], q2[j])
    BY <1>1
  <1> QED
    BY <1>4, <1>5 DEF Agree

\* Frames gs are fs as far as the view depends on them: only requests for
\* permission and responses have come or gone.
Tells(f) == f.kind \in {"text", "tool", "system", "done", "error"}
Slid(fs, gs) ==
  \E d \in Nat :
    /\ \A i \in DOMAIN gs : Tells(gs[i]) => i + d \in DOMAIN fs /\ gs[i] = fs[i + d]
    /\ \A i \in DOMAIN fs : Tells(fs[i]) => i - d \in DOMAIN gs /\ gs[i - d] = fs[i]

LEMMA SlidSame ==
  ASSUME NEW fs \in Seq(FrameRecs)
  PROVE  Slid(fs, fs)
  <1>1. DOMAIN fs \subseteq Nat /\ 0 \in Nat
    OBVIOUS
  <1>2. \A i \in DOMAIN fs : i + 0 = i /\ i - 0 = i
    BY <1>1
  <1> QED
    BY <1>1, <1>2 DEF Slid

LEMMA SlidAdded ==
  ASSUME NEW fs, NEW gs, NEW f, Added(fs, gs, f), ~Tells(f)
  PROVE  Slid(fs, gs)
  <1>1. /\ \A i \in DOMAIN gs : Tells(gs[i]) => i + 0 \in DOMAIN fs /\ gs[i] = fs[i + 0]
        /\ \A i \in DOMAIN fs : Tells(fs[i]) => i - 0 \in DOMAIN gs /\ gs[i - 0] = fs[i]
    BY DEF Added
  <1> QED
    BY <1>1 DEF Slid

LEMMA SlidTaken ==
  ASSUME NEW fs, NEW gs, Taken(fs, gs), ~Tells(fs[1])
  PROVE  Slid(fs, gs)
  <1>1. /\ \A i \in DOMAIN gs : Tells(gs[i]) => i + 1 \in DOMAIN fs /\ gs[i] = fs[i + 1]
        /\ \A i \in DOMAIN fs : Tells(fs[i]) => i - 1 \in DOMAIN gs /\ gs[i - 1] = fs[i]
    BY DEF Taken
  <1> QED
    BY <1>1 DEF Slid

LEMMA SlidNone ==
  ASSUME NEW fs, NEW gs, \A i \in DOMAIN fs : ~Tells(fs[i]), \A i \in DOMAIN gs : ~Tells(gs[i])
  PROVE  Slid(fs, gs)
  BY DEF Slid

LEMMA SlidDone ==
  ASSUME NEW fs, NEW gs, Slid(fs, gs), NEW m
  PROVE  DoneComing(gs, m) <=> DoneComing(fs, m)
  BY DEF Slid, DoneComing, Tells

\* The same for the system messages alone.
SlidAsides(fs, gs) ==
  \E d \in Nat :
    /\ \A i \in DOMAIN gs : gs[i].kind = "system" => i + d \in DOMAIN fs /\ gs[i] = fs[i + d]
    /\ \A i \in DOMAIN fs : fs[i].kind = "system" => i - d \in DOMAIN gs /\ gs[i - d] = fs[i]

LEMMA SlidToo ==
  ASSUME NEW fs, NEW gs, Slid(fs, gs)
  PROVE  SlidAsides(fs, gs)
  BY DEF Slid, SlidAsides, Tells

LEMMA AsidesAdded ==
  ASSUME NEW fs, NEW gs, NEW f, Added(fs, gs, f), f.kind # "system"
  PROVE  SlidAsides(fs, gs)
  <1>1. /\ \A i \in DOMAIN gs : gs[i].kind = "system" => i + 0 \in DOMAIN fs /\ gs[i] = fs[i + 0]
        /\ \A i \in DOMAIN fs : fs[i].kind = "system" => i - 0 \in DOMAIN gs /\ gs[i - 0] = fs[i]
    BY DEF Added
  <1> QED
    BY <1>1 DEF SlidAsides

LEMMA AsidesTaken ==
  ASSUME NEW fs, NEW gs, Taken(fs, gs), fs[1].kind # "system"
  PROVE  SlidAsides(fs, gs)
  <1>1. /\ \A i \in DOMAIN gs : gs[i].kind = "system" => i + 1 \in DOMAIN fs /\ gs[i] = fs[i + 1]
        /\ \A i \in DOMAIN fs : fs[i].kind = "system" => i - 1 \in DOMAIN gs /\ gs[i - 1] = fs[i]
    BY DEF Taken
  <1> QED
    BY <1>1 DEF SlidAsides

LEMMA AsidesBrought ==
  ASSUME NEW fs, NEW gs, SlidAsides(fs, gs), NEW e
  PROVE  Brought(gs, e) <=> Brought(fs, e)
  BY DEF SlidAsides, Brought, Brings

\* The store may have got more that is no system message.
LEMMA InOrderKeep ==
  ASSUME NEW fs \in Seq(FrameRecs), NEW gs \in Seq(FrameRecs), NEW h, NEW k, SlidAsides(fs, gs), InOrder(h, fs),
         \A j \in DOMAIN h : j \in DOMAIN k /\ k[j] = h[j],
         \A j \in DOMAIN k : IsSystem(k[j]) => j \in DOMAIN h,
         Stored(k, gs) = Stored(h, fs)
  PROVE  InOrder(k, gs)
  <1>1. PICK d \in Nat :
          /\ \A i \in DOMAIN gs : gs[i].kind = "system" => i + d \in DOMAIN fs /\ gs[i] = fs[i + d]
          /\ \A i \in DOMAIN fs : fs[i].kind = "system" => i - d \in DOMAIN gs /\ gs[i - d] = fs[i]
    BY DEF SlidAsides
  <1>2. DOMAIN gs \subseteq Nat
    OBVIOUS
  <1>3. ASSUME NEW i \in DOMAIN gs, NEW b \in DOMAIN k, Brings(gs[i], k[b])
        PROVE  i + d \in DOMAIN fs /\ b \in DOMAIN h /\ Brings(fs[i + d], h[b])
    BY <1>1, <1>3 DEF Brings
  <1>4. ASSUME NEW i \in DOMAIN gs, gs[i].kind = "system"
        PROVE  \E b \in DOMAIN k : Brings(gs[i], k[b])
    <2>1. i + d \in DOMAIN fs /\ gs[i] = fs[i + d]
      BY <1>1, <1>4
    <2>2. PICK b \in DOMAIN h : Brings(fs[i + d], h[b])
      BY <1>4, <2>1 DEF InOrder
    <2> QED
      BY <2>1, <2>2
  <1>5. ASSUME NEW i \in DOMAIN gs, NEW j \in DOMAIN gs, NEW b \in DOMAIN k, NEW c \in DOMAIN k,
               i < j, Brings(gs[i], k[b]), Brings(gs[j], k[c])
        PROVE  b < c
    <2>1. /\ i + d \in DOMAIN fs /\ b \in DOMAIN h /\ Brings(fs[i + d], h[b])
          /\ j + d \in DOMAIN fs /\ c \in DOMAIN h /\ Brings(fs[j + d], h[c])
      BY <1>3, <1>5
    <2>2. i + d < j + d
      BY <1>2, <1>5
    <2> QED
      BY <2>1, <2>2 DEF InOrder
  <1>6. ASSUME NEW i \in DOMAIN gs, NEW b \in DOMAIN k, Brings(gs[i], k[b]), NEW z \in Stored(k, gs)
        PROVE  z < b
    BY <1>3, <1>6 DEF InOrder
  <1> QED
    BY <1>4, <1>5, <1>6 DEF InOrder

LEMMA InOrderNone ==
  ASSUME NEW h, NEW fs, \A i \in DOMAIN fs : ~IsNotice(fs[i])
  PROVE  InOrder(h, fs) /\ \A e : ~Brought(fs, e)
  BY DEF InOrder, Brings, Brought, IsNotice

LEMMA FlowKeep ==
  ASSUME NEW T, NEW q, NEW fs \in Seq(FrameRecs), NEW gs \in Seq(FrameRecs), Flow(T, q, fs), Slid(fs, gs)
  PROVE  Flow(T, q, gs)
  <1>1. PICK d \in Nat :
          /\ \A i \in DOMAIN gs : Tells(gs[i]) => i + d \in DOMAIN fs /\ gs[i] = fs[i + d]
          /\ \A i \in DOMAIN fs : Tells(fs[i]) => i - d \in DOMAIN gs /\ gs[i - d] = fs[i]
    BY DEF Slid
  <1>2. DOMAIN gs \subseteq Nat
    OBVIOUS
  <1>3. \A i \in DOMAIN gs : Carries(gs[i]) => i + d \in DOMAIN fs /\ gs[i] = fs[i + d] /\ Carries(fs[i + d])
    BY <1>1 DEF Carries, Tells
  <1>4. \A i \in DOMAIN fs : Carries(fs[i]) => i - d \in DOMAIN gs /\ gs[i - d] = fs[i] /\ Carries(gs[i - d])
    BY <1>1 DEF Carries, Tells
  <1>5. ASSUME NEW i \in DOMAIN gs, Carries(gs[i])
        PROVE  \E p \in DOMAIN T : p > Len(q) /\ gs[i].part = T[p]
    BY <1>3, <1>5 DEF Flow
  <1>6. ASSUME NEW p \in DOMAIN T, p > Len(q)
        PROVE  \E i \in DOMAIN gs : Carries(gs[i]) /\ gs[i].part = T[p]
    <2>1. PICK i \in DOMAIN fs : Carries(fs[i]) /\ fs[i].part = T[p]
      BY <1>6 DEF Flow
    <2> QED
      BY <1>4, <2>1
  <1>7. ASSUME NEW i \in DOMAIN gs, NEW j \in DOMAIN gs, i < j, Carries(gs[i]), Carries(gs[j])
        PROVE  gs[i].part.nr < gs[j].part.nr
    <2>1. i + d < j + d
      BY <1>2, <1>7
    <2> QED
      BY <1>3, <1>7, <2>1 DEF Flow
  <1> QED
    BY <1>5, <1>6, <1>7 DEF Flow

\* The answer and the frames get one more part, with a number of its own.
LEMMA FlowGrows ==
  ASSUME NEW T \in Seq(Parts), NEW U \in Seq(Parts), NEW q \in Seq(Parts),
         NEW fs \in Seq(FrameRecs), NEW gs \in Seq(FrameRecs), NEW f, Flow(T, q, fs),
         Carries(f), f.part \in Parts, Added(T, U, f.part), Added(fs, gs, f),
         \A i \in DOMAIN T : T[i].nr < f.part.nr
  PROVE  Flow(U, q, gs)
  <1>0. PICK n \in Nat, u \in Nat, k \in Nat : n = Len(q) /\ u = Len(T) /\ k = Len(fs)
    <2>1. Len(q) \in Nat /\ Len(T) \in Nat /\ Len(fs) \in Nat
      BY LenProperties
    <2> QED
      BY <2>1
  <1>1. Len(U) = u + 1 /\ U[u + 1] = f.part /\ DOMAIN T = 1 .. u /\ DOMAIN U = 1 .. u + 1
    BY <1>0, AddedLen DEF Added
  <1>2. DOMAIN fs = 1 .. k /\ DOMAIN gs = 1 .. k + 1 /\ gs[k + 1] = f
    BY <1>0 DEF Added
  <1>3. (\A i \in 1 .. u : U[i] = T[i]) /\ (\A i \in 1 .. k : gs[i] = fs[i])
    BY <1>1, <1>2 DEF Added
  <1>4. n <= u /\ DOMAIN q = 1 .. n /\ \A i \in 1 .. n : q[i] = T[i]
    BY <1>0 DEF Flow
  <1>5. Len(q) <= Len(U) /\ \A i \in DOMAIN q : q[i] = U[i]
    BY <1>0, <1>1, <1>3, <1>4
  <1>6. ASSUME NEW i \in DOMAIN U, NEW j \in DOMAIN U, i < j
        PROVE  U[i].nr < U[j].nr
    <2>1. CASE j = u + 1
      BY <1>1, <1>3, <1>6, <2>1
    <2>2. CASE j # u + 1
      <3>1. i \in DOMAIN T /\ j \in DOMAIN T
        BY <1>1, <1>6, <2>2
      <3> QED
        BY <1>1, <1>3, <1>6, <3>1 DEF Flow
    <2> QED
      BY <2>1, <2>2
  <1>7. ASSUME NEW i \in DOMAIN gs, Carries(gs[i])
        PROVE  \E p \in DOMAIN U : p > Len(q) /\ gs[i].part = U[p]
    <2>1. CASE i = k + 1
      <3>1. u + 1 \in DOMAIN U /\ u + 1 > Len(q) /\ gs[i].part = U[u + 1]
        BY <1>0, <1>1, <1>2, <1>4, <2>1
      <3> QED
        BY <3>1
    <2>2. CASE i # k + 1
      <3>1. i \in DOMAIN fs /\ gs[i] = fs[i]
        BY <1>2, <1>3, <1>7, <2>2
      <3>2. PICK p \in DOMAIN T : p > Len(q) /\ fs[i].part = T[p]
        BY <1>7, <3>1 DEF Flow
      <3>3. p \in DOMAIN U /\ U[p] = T[p]
        BY <1>1, <1>3
      <3> QED
        BY <3>1, <3>2, <3>3
    <2> QED
      BY <2>1, <2>2
  <1>8. ASSUME NEW p \in DOMAIN U, p > Len(q)
        PROVE  \E i \in DOMAIN gs : Carries(gs[i]) /\ gs[i].part = U[p]
    <2>1. CASE p = u + 1
      BY <1>1, <1>2, <2>1
    <2>2. CASE p # u + 1
      <3>1. p \in DOMAIN T /\ U[p] = T[p]
        BY <1>1, <1>3, <1>8, <2>2
      <3>2. PICK i \in DOMAIN fs : Carries(fs[i]) /\ fs[i].part = T[p]
        BY <1>8, <3>1 DEF Flow
      <3>3. i \in DOMAIN gs /\ gs[i] = fs[i]
        BY <1>2, <1>3
      <3> QED
        BY <3>1, <3>2, <3>3
    <2> QED
      BY <2>1, <2>2
  <1>9. ASSUME NEW i \in DOMAIN gs, NEW j \in DOMAIN gs, i < j, Carries(gs[i]), Carries(gs[j])
        PROVE  gs[i].part.nr < gs[j].part.nr
    <2>0. i \in DOMAIN fs /\ gs[i] = fs[i]
      BY <1>2, <1>3, <1>9
    <2>1. CASE j = k + 1
      <3>1. PICK p \in DOMAIN T : fs[i].part = T[p]
        BY <1>9, <2>0 DEF Flow
      <3> QED
        BY <1>2, <2>0, <2>1, <3>1
    <2>2. CASE j # k + 1
      <3>1. j \in DOMAIN fs /\ gs[j] = fs[j]
        BY <1>2, <1>3, <1>9, <2>2
      <3> QED
        BY <1>9, <2>0, <3>1 DEF Flow
    <2> QED
      BY <2>1, <2>2
  <1> QED
    BY <1>5, <1>6, <1>7, <1>8, <1>9 DEF Flow

\* The first frame with a part brings the next one of the answer.
LEMMA FlowTakes ==
  ASSUME NEW T \in Seq(Parts), NEW q \in Seq(Parts), NEW r \in Seq(Parts),
         NEW fs \in Seq(FrameRecs), NEW gs \in Seq(FrameRecs), Flow(T, q, fs),
         Taken(fs, gs), Carries(fs[1]), Added(q, r, fs[1].part)
  PROVE  Flow(T, r, gs)
  <1>0. PICK n \in Nat, u \in Nat, k \in Nat : n = Len(q) /\ u = Len(T) /\ k = Len(fs)
    <2>1. Len(q) \in Nat /\ Len(T) \in Nat /\ Len(fs) \in Nat
      BY LenProperties
    <2> QED
      BY <2>1
  <1>1. DOMAIN T = 1 .. u /\ DOMAIN q = 1 .. n /\ DOMAIN r = 1 .. n + 1 /\ Len(r) = n + 1
    BY <1>0, AddedLen DEF Added
  <1>2. DOMAIN fs = 1 .. k /\ DOMAIN gs = 1 .. k - 1 /\ k # 0 /\ 1 \in DOMAIN fs
    BY <1>0 DEF Taken
  <1>3. (\A i \in 1 .. k - 1 : gs[i] = fs[i + 1]) /\ (\A i \in 1 .. n : r[i] = q[i]) /\ r[n + 1] = fs[1].part
    BY <1>0, <1>1, <1>2 DEF Taken, Added
  <1>4. /\ n <= u /\ \A i \in 1 .. n : q[i] = T[i]
        /\ \A i, j \in 1 .. u : i < j => T[i].nr < T[j].nr
        /\ \A i \in 1 .. k : Carries(fs[i]) => \E p \in 1 .. u : p > n /\ fs[i].part = T[p]
        /\ \A p \in 1 .. u : p > n => \E i \in 1 .. k : Carries(fs[i]) /\ fs[i].part = T[p]
        /\ \A i, j \in 1 .. k : i < j /\ Carries(fs[i]) /\ Carries(fs[j]) => fs[i].part.nr < fs[j].part.nr
    BY <1>0, <1>1, <1>2 DEF Flow
  <1>5. \A i \in 1 .. u : T[i].nr \in Nat
    <2>1. \A i \in DOMAIN T : T[i] \in Parts
      BY ElementAt
    <2> QED
      BY <1>1, <2>1 DEF Parts
  <1>6. PICK p \in 1 .. u : p > n /\ fs[1].part = T[p]
    BY <1>2, <1>4
  <1>7. p = n + 1
    <2> SUFFICES ASSUME p # n + 1 PROVE FALSE
      OBVIOUS
    <2>1. n + 1 \in 1 .. u /\ n + 1 < p /\ n + 1 > n
      BY <1>6
    <2>2. PICK i \in 1 .. k : Carries(fs[i]) /\ fs[i].part = T[n + 1]
      BY <1>4, <2>1
    <2>3. T[n + 1].nr < T[p].nr
      BY <1>4, <2>1
    <2>4. i # 1
      BY <1>5, <1>6, <2>1, <2>2, <2>3
    <2>5. 1 < i /\ 1 \in 1 .. k
      BY <1>2, <2>4
    <2>6. fs[1].part.nr < fs[i].part.nr
      BY <1>4, <2>2, <2>5
    <2>7. T[p].nr < T[n + 1].nr
      BY <1>6, <2>2, <2>6
    <2> QED
      BY <1>5, <2>1, <2>3, <2>7
  <1>8. Len(r) <= Len(T) /\ \A i \in DOMAIN r : r[i] = T[i]
    <2>1. n + 1 <= u
      BY <1>7
    <2>2. ASSUME NEW i \in 1 .. n + 1 PROVE r[i] = T[i]
      <3>1. CASE i = n + 1
        BY <1>3, <1>6, <1>7, <3>1
      <3>2. CASE i # n + 1
        BY <1>3, <1>4, <2>2, <3>2
      <3> QED
        BY <3>1, <3>2
    <2> QED
      BY <1>0, <1>1, <2>1, <2>2
  <1>9. ASSUME NEW i \in DOMAIN gs, Carries(gs[i])
        PROVE  \E z \in DOMAIN T : z > Len(r) /\ gs[i].part = T[z]
    <2>1. i \in 1 .. k - 1 /\ gs[i] = fs[i + 1] /\ i + 1 \in 1 .. k /\ 1 < i + 1 /\ 1 \in 1 .. k
      BY <1>2, <1>3
    <2>2. PICK z \in 1 .. u : z > n /\ fs[i + 1].part = T[z]
      BY <1>4, <1>9, <2>1
    <2>3. fs[1].part.nr < fs[i + 1].part.nr
      BY <1>4, <1>9, <2>1
    <2>4. T[p].nr < T[z].nr
      BY <1>6, <2>2, <2>3
    <2>5. z # p
      BY <1>5, <2>4
    <2>6. z \in DOMAIN T /\ z > Len(r)
      BY <1>1, <1>7, <2>2, <2>5
    <2> QED
      BY <2>1, <2>2, <2>6
  <1>10. ASSUME NEW z \in DOMAIN T, z > Len(r)
         PROVE  \E i \in DOMAIN gs : Carries(gs[i]) /\ gs[i].part = T[z]
    <2>1. z \in 1 .. u /\ z > n /\ p < z
      BY <1>1, <1>7, <1>10
    <2>2. PICK i \in 1 .. k : Carries(fs[i]) /\ fs[i].part = T[z]
      BY <1>4, <2>1
    <2>3. T[p].nr < T[z].nr
      BY <1>4, <2>1
    <2>4. i # 1
      BY <1>5, <1>6, <2>1, <2>2, <2>3
    <2>5. PICK h \in 1 .. k - 1 : h + 1 = i
      BY <2>4
    <2>6. h \in DOMAIN gs /\ gs[h] = fs[i]
      BY <1>2, <1>3, <2>5
    <2> QED
      BY <2>2, <2>6
  <1>11. ASSUME NEW i \in DOMAIN gs, NEW j \in DOMAIN gs, i < j, Carries(gs[i]), Carries(gs[j])
         PROVE  gs[i].part.nr < gs[j].part.nr
    <2>1. /\ i \in 1 .. k - 1 /\ j \in 1 .. k - 1 /\ i + 1 \in 1 .. k /\ j + 1 \in 1 .. k /\ i + 1 < j + 1
          /\ gs[i] = fs[i + 1] /\ gs[j] = fs[j + 1]
      BY <1>2, <1>3, <1>11
    <2> QED
      BY <1>4, <1>11, <2>1
  <1> QED
    BY <1>1, <1>4, <1>8, <1>9, <1>10, <1>11 DEF Flow

\* A first frame without a part brings nothing of it.
LEMMA FlowPasses ==
  ASSUME NEW T, NEW q, NEW fs \in Seq(FrameRecs), NEW gs \in Seq(FrameRecs), Flow(T, q, fs), Taken(fs, gs), ~Carries(fs[1])
  PROVE  Flow(T, q, gs)
  <1>1. \A i \in DOMAIN gs : i \in Nat /\ i + 1 \in DOMAIN fs /\ gs[i] = fs[i + 1]
    BY DEF Taken
  <1>2. \A i \in DOMAIN fs : Carries(fs[i]) => i - 1 \in DOMAIN gs /\ gs[i - 1] = fs[i]
    BY DEF Taken
  <1>3. ASSUME NEW i \in DOMAIN gs, Carries(gs[i])
        PROVE  \E p \in DOMAIN T : p > Len(q) /\ gs[i].part = T[p]
    <2>1. i + 1 \in DOMAIN fs /\ gs[i] = fs[i + 1] /\ Carries(fs[i + 1])
      BY <1>1, <1>3
    <2>2. PICK p \in DOMAIN T : p > Len(q) /\ fs[i + 1].part = T[p]
      BY <2>1 DEF Flow
    <2> QED
      BY <2>1, <2>2
  <1>4. ASSUME NEW p \in DOMAIN T, p > Len(q)
        PROVE  \E i \in DOMAIN gs : Carries(gs[i]) /\ gs[i].part = T[p]
    <2>1. PICK i \in DOMAIN fs : Carries(fs[i]) /\ fs[i].part = T[p]
      BY <1>4 DEF Flow
    <2> QED
      BY <1>2, <2>1
  <1>5. ASSUME NEW i \in DOMAIN gs, NEW j \in DOMAIN gs, i < j, Carries(gs[i]), Carries(gs[j])
        PROVE  gs[i].part.nr < gs[j].part.nr
    <2>1. i + 1 < j + 1
      BY <1>1, <1>5
    <2> QED
      BY <1>1, <1>5, <2>1 DEF Flow
  <1> QED
    BY <1>3, <1>4, <1>5 DEF Flow

\* Once no frame brings a part the answer is there.
LEMMA FlowEnds ==
  ASSUME NEW T \in Seq(Parts), NEW q \in Seq(Parts), NEW fs, Flow(T, q, fs),
         \A i \in DOMAIN fs : ~Carries(fs[i])
  PROVE  q = T
  <1>0. PICK n \in Nat, u \in Nat : n = Len(q) /\ u = Len(T)
    OBVIOUS
  <1>1. DOMAIN q = 1 .. n /\ DOMAIN T = 1 .. u
    BY <1>0
  <1>2. n <= u /\ \A i \in 1 .. n : q[i] = T[i]
    BY <1>0, <1>1 DEF Flow
  <1>3. \A p \in 1 .. u : ~(p > n)
    BY <1>0, <1>1 DEF Flow
  <1>4. n = u
    <2>1. CASE u = 0
      BY <1>2, <2>1
    <2>2. CASE u # 0
      <3>1. u \in 1 .. u
        BY <2>2
      <3>2. ~(u > n)
        BY <1>3, <3>1
      <3> QED
        BY <1>2, <3>2
    <2> QED
      BY <2>1, <2>2
  <1> QED
    BY <1>0, <1>2, <1>4, SeqEqual

-----------------------------------------------------------------------------
(* An undisturbed view: there is one turn under way, and it is this socket's. *)

LEMMA EntriesAt ==
  ASSUME IInv
  PROVE  /\ messages \in Seq(Entries) /\ Len(messages) \in Nat /\ DOMAIN messages = 1 .. Len(messages)
         /\ \A i \in DOMAIN messages : messages[i] \in Entries /\ messages[i].turn \in Turns
         /\ \A s \in Sessions : /\ history[s] \in Seq(Entries) /\ Len(history[s]) \in Nat
                                /\ DOMAIN history[s] = 1 .. Len(history[s])
                                /\ \A j \in DOMAIN history[s] : history[s][j] \in Entries /\ history[s][j].turn \in Turns
         /\ frames \in Seq(FrameRecs) /\ turn \in [Turns -> TurnRecs] /\ cur \in Sessions \cup {None}
         /\ bubble.text \in Seq(Parts) /\ (bubble # NoBubble => bubble.turn \in Turns)
         /\ \A i \in DOMAIN messages : ~Grows(messages[i], NoBubble)
         /\ \A m \in Turns : answer[m] \in Seq(Parts)
  <1>1. ViewOK /\ StoreOK /\ WireOK /\ TurnOK
    BY TypeParts DEF IInv
  <1>2. /\ messages \in Seq(Entries) /\ Len(messages) \in Nat /\ DOMAIN messages = 1 .. Len(messages)
        /\ \A i \in DOMAIN messages : messages[i] \in Entries
    BY <1>1, ElementAt DEF ViewOK
  <1>3. \A e \in Entries : e.turn \in Turns
    BY DEF Entries
  <1>4. ASSUME NEW s \in Sessions
        PROVE  /\ history[s] \in Seq(Entries) /\ Len(history[s]) \in Nat
               /\ DOMAIN history[s] = 1 .. Len(history[s])
               /\ \A j \in DOMAIN history[s] : history[s][j] \in Entries
    <2>1. history[s] \in Seq(Entries)
      BY <1>1 DEF StoreOK
    <2> QED
      BY <2>1, ElementAt
  <1>5. frames \in Seq(FrameRecs) /\ turn \in [Turns -> TurnRecs] /\ cur \in Sessions \cup {None}
    BY <1>1 DEF WireOK, TurnOK, ViewOK
  <1>6. bubble.text \in Seq(Parts) /\ (bubble # NoBubble => bubble.turn \in Turns)
    <2>1. CASE bubble = NoBubble
      BY <2>1 DEF NoBubble
    <2>2. CASE bubble # NoBubble
      BY <1>1, <2>2 DEF ViewOK
    <2> QED
      BY <2>1, <2>2
  <1>7. \A i \in DOMAIN messages : ~Grows(messages[i], NoBubble)
    BY <1>2, <1>3, NoneFresh DEF Grows, NoBubble
  <1>8. \A m \in Turns : answer[m] \in Seq(Parts)
    BY <1>1 DEF StoreOK
  <1> QED
    BY <1>2, <1>3, <1>4, <1>5, <1>6, <1>7, <1>8

LEMMA EndingOver ==
  ASSUME IInv, NEW m \in Turns, Ending(m)
  PROVE  turn[m].pc = "over" /\ ~Waits(m) /\ ~Working(m)
  BY DEF IInv, Single, EndLast, Ending, Waits, Working

LEMMA DoneEnding ==
  ASSUME NEW m, DoneComing(frames, m)
  PROVE  Ending(m) /\ Busy(m)
  BY DEF DoneComing, Ending, IsEnd, Busy

LEMMA UnderWay ==
  ASSUME IInv, Here
  PROVE  /\ \A m \in Turns : Waits(m) \/ Busy(m) => Open(m) /\ gen
         /\ \A m, h \in Turns : (Waits(m) \/ Busy(m)) /\ (Waits(h) \/ Busy(h)) => m = h
         /\ \A m \in Turns : Waits(m) => ~Busy(m)
         /\ \A m \in Turns : Working(m) => ~Ending(m)
  <1>1. ASSUME NEW m \in Turns, Waits(m) \/ Busy(m) PROVE Open(m) /\ gen
    <2>1. Open(m)
      BY <1>1 DEF Here, Waits, Busy, Working, Open, Active
    <2> QED
      BY <2>1 DEF IInv, Single, NoneOpen
  <1>2. \A m, h \in Turns : Open(m) /\ Open(h) => m = h
    BY DEF IInv, Single, OneOpen
  <1>3. \A m \in Turns : Waits(m) => ~Busy(m)
    BY EndingOver DEF Waits, Busy, Working
  <1>4. \A m \in Turns : Working(m) => ~Ending(m)
    BY EndingOver
  <1> QED
    BY <1>1, <1>2, <1>3, <1>4

LEMMA CleanOnes ==
  ASSUME Clean
  PROVE  Untroubled /\ "left" \notin trouble /\ "untold" \notin trouble /\ "partial" \notin trouble
         /\ "overtaken" \notin trouble
  BY DEF Clean, Untroubled

LEMMA UnderWayHere ==
  ASSUME IInv, Clean, Here, NEW m \in Turns, Waits(m) \/ Working(m)
  PROVE  Sees(m) /\ turn[m].sid = cur /\ ~Attaching /\ gen /\ cur \in Sessions /\ sock = "open"
  <1>1. Open(m) /\ gen
    BY UnderWay DEF Busy
  <1>2. sock = "open" /\ "left" \notin trouble
    BY <1>1, CleanOnes DEF IInv, Stays, StaysMarked
  <1>3. Active(m)
    BY DEF Here, Waits, Working, Active
  <1>4. turn[m].sid = cur /\ ~Attaching
    BY <1>2, <1>3 DEF IInv, Stays, StaysActive
  <1>5. turn[m].sid \in Sessions
    BY DEF IInv, Wire, WireTurns, Begun, Waits, Working
  <1> QED
    BY <1>1, <1>2, <1>3, <1>4, <1>5 DEF Sees, Active

LEMMA NoticeBusy ==
  ASSUME IInv, Here, Heeded, NEW i \in DOMAIN frames, IsNotice(frames[i])
  PROVE  /\ frames[i].part.of \in Turns /\ Busy(frames[i].part.of) /\ gen
         /\ frames[i].sid = cur /\ cur \in Sessions
         /\ \A m \in Turns : Waits(m) \/ Busy(m) => m = frames[i].part.of
  <1>1. frames[i].part.of \in Turns /\ Busy(frames[i].part.of) /\ frames[i].sid = cur
    BY NoticeOfTurn DEF Heeded
  <1>2. frames[i] \in FrameRecs
    BY EntriesAt, ElementAt
  <1>3. cur \in Sessions
    BY <1>1, <1>2 DEF FrameRecs
  <1> QED
    BY <1>1, <1>3, UnderWay

\* Trouble stays; only Send makes a turn wait, none goes back.
LEMMA TroubleStep ==
  ASSUME IInv, [Next]_vars
  PROVE  trouble \subseteq trouble'
  <1>1. CASE UNCHANGED vars
    BY <1>1 DEF vars
  <1>2. CASE User
    BY <1>2, SendEffect, SelectEffect, RespondEffect, LogoutEffect DEF User
  <1>3. CASE Socket
    BY <1>3, ClosingEffect, OnCloseEffect, ReopenEffect DEF Socket
  <1>4. CASE Server
    BY <1>4, ServeEffect, ServeReplyEffect, SyncServedEffect, PostServedEffect, DoneEffect, ErrorEffect,
       SilentEffect, ProduceEffect, SystemEffect DEF Server
  <1>5. CASE Client
    BY <1>5, OnTextEffect, OnToolEffect, OnSystemEffect, OnAskEffect, OnEndEffect, OnAttachedEffect, OnAnsweredEffect,
       OnSyncedEffect, PostFailsEffect DEF Client
  <1> QED
    BY <1>1, <1>2, <1>3, <1>4, <1>5 DEF Next

Ahead(t, u) ==
  \A m \in Turns :
    /\ u[m].src = t[m].src
    /\ u[m].pc = "new" => t[m].pc = "new"
    /\ u[m].pc = "sent" => t[m].pc = "sent"
    /\ u[m].pc \in {"run", "ask"} => t[m].pc \in {"sent", "run", "ask"}
    /\ t[m].pc = "over" => u[m].pc = "over"

LEMMA MovedAhead ==
  ASSUME NEW t \in [Turns -> TurnRecs], NEW u, NEW m \in Turns, NEW c \in {"run", "over"}, Moved(t, u, m, c),
         t[m].pc \in {"sent", "run", "ask"}
  PROVE  Ahead(t, u)
  BY DEF Moved, Ahead

LEMMA AheadStep ==
  ASSUME IInv, [Next]_vars
  PROVE  (\E m \in Turns : Send(m)) \/ Ahead(turn, turn')
  <1>0. turn' = turn => Ahead(turn, turn')
    BY DEF Ahead
  <1>t. turn \in [Turns -> TurnRecs]
    BY EntriesAt
  <1>1. CASE UNCHANGED vars
    BY <1>0, <1>1 DEF vars, serverVars
  <1>2. CASE User
    BY <1>0, <1>2, SelectEffect, RespondEffect, LogoutEffect DEF User
  <1>3. CASE Socket
    BY <1>0, <1>3, ClosingEffect, OnCloseEffect, ReopenEffect DEF Socket
  <1>4. CASE Serve
    <2>1. \/ turn' = turn
          \/ /\ reqs[1].turn \in Turns /\ turn[reqs[1].turn].pc \in {"sent", "run", "ask"}
             /\ Moved(turn, turn', reqs[1].turn, "run")
      BY <1>4, ServeEffect
    <2> QED
      BY <1>0, <1>t, <2>1, MovedAhead
  <1>5. CASE ServeReply \/ \E k \in Socks : SyncServed(k)
    BY <1>0, <1>5, ServeReplyEffect, SyncServedEffect
  <1>6. CASE \E m \in Turns : PostServed(m) \/ Done(m) \/ Error(m) \/ Silent(m) \/ PostFails(m)
    <2>1. PICK m \in Turns : PostServed(m) \/ Done(m) \/ Error(m) \/ Silent(m) \/ PostFails(m)
      BY <1>6
    <2>2. /\ turn[m].pc \in {"sent", "run", "ask"}
          /\ Moved(turn, turn', m, "run") \/ Moved(turn, turn', m, "over")
      BY <2>1, PostServedEffect, DoneEffect, ErrorEffect, SilentEffect, PostFailsEffect
    <2> QED
      BY <1>t, <2>2, MovedAhead
  <1>7. CASE \E m \in Turns : \E kind \in {"text", "tool", "ask"} : Produce(m, kind)
    <2>1. PICK m \in Turns, kind \in {"text", "tool", "ask"} : Produce(m, kind)
      BY <1>7
    <2> QED
      BY <2>1, ProduceEffect DEF Ahead
  <1>s. CASE \E m \in Turns : System(m)
    <2>1. PICK m \in Turns : System(m)
      BY <1>s
    <2> QED
      BY <2>1, SystemEffect DEF Ahead
  <1>8. CASE OnText \/ OnTool \/ OnSystem \/ OnAsk \/ OnEnd \/ OnAttached \/ OnAnswered \/ \E k \in Socks : OnSynced(k)
    BY <1>0, <1>8, OnTextEffect, OnToolEffect, OnSystemEffect, OnAskEffect, OnEndEffect, OnAttachedEffect, OnAnsweredEffect,
       OnSyncedEffect
  <1> QED
    BY <1>1, <1>2, <1>3, <1>4, <1>5, <1>6, <1>7, <1>s, <1>8 DEF Next, Server, Client

LEMMA HereStep ==
  ASSUME IInv, [Next]_vars, Clean', Clean, Here
  PROVE  Here'
  <1>1. ASSUME NEW m \in Turns, Send(m) PROVE Here'
    <2>1. "untold" \notin trouble'
      BY DEF Clean
    <2> QED
      BY <1>1, <2>1, SendEffect DEF Here, Waits, Working
  <1>2. CASE Ahead(turn, turn') /\ nr' = nr
    BY <1>2 DEF Ahead, Here, Waits, Working
  <1>3. CASE Ahead(turn, turn') /\ Reopen
    <2>1. sock = "closed"
      BY <1>3, ReopenEffect
    <2>2. \A m \in Turns : ~(Waits(m) \/ Working(m))
      BY <2>1, UnderWayHere
    <2> QED
      BY <1>3, <2>2 DEF Ahead, Here, Waits, Working
  <1> QED
    BY <1>1, <1>2, <1>3, AheadStep, SocketStep

-----------------------------------------------------------------------------
(* The store has everything once; the parts of an answer are numbered.     *)

\* No turn returns to the user, none that is over goes on.
Firm(t, u) == \A m \in Turns : /\ t[m].pc \notin {"new", "sent"} => u[m].pc \notin {"new", "sent"}
                               /\ t[m].pc = "over" => u[m].pc = "over"

LEMMA FirmStep ==
  ASSUME IInv, [Next]_vars
  PROVE  Firm(turn, turn')
  <1>t. turn \in [Turns -> TurnRecs] /\ turn' \in [Turns -> TurnRecs]
    <2>1. TypeOK'
      BY TypeStep
    <2>2. turn' \in [Turns -> [pc : {"new", "sent", "run", "ask", "over"}, src : Socks \cup {0},
                               sid : Sessions \cup {None}, events : Nat]]
      BY <2>1 DEF TypeOK
    <2> QED
      BY <2>2, EntriesAt DEF TurnRecs
  <1>1. ASSUME NEW m \in Turns, Send(m) PROVE Firm(turn, turn')
    BY <1>1, SendEffect DEF Firm
  <1>2. CASE Ahead(turn, turn')
    BY <1>t, <1>2 DEF Ahead, Firm
  <1> QED
    BY <1>1, <1>2, AheadStep

LEMMA OnceKeep ==
  ASSUME IInv, Once, Firm(turn, turn'), UNCHANGED history
  PROVE  Once'
  BY EntriesAt DEF Firm, Once

LEMMA OnceMore ==
  ASSUME IInv, Once, Firm(turn, turn'), NEW s \in Sessions, NEW m \in Turns, NEW e,
         Logged(history, history', s, e), e.turn = m,
         turn'[m].pc \notin {"new", "sent"}, IsAnswer(e) => turn'[m].pc = "over",
         \A j \in DOMAIN history[s] : ~Alike(history[s][j], e)
  PROVE  Once'
  <1> SUFFICES ASSUME NEW z \in Sessions, NEW i \in DOMAIN history'[z]
               PROVE  LET f == history'[z][i] IN
                      /\ turn'[f.turn].pc \notin {"new", "sent"}
                      /\ IsAnswer(f) => turn'[f.turn].pc = "over"
                      /\ \A j \in DOMAIN history'[z] : Alike(history'[z][j], f) => j = i
    BY DEF Once, IsAnswer, Alike, IsSystem
  <1>0. \A y \in Sessions : \A j \in DOMAIN history[y] : history[y][j].turn \in Turns
    BY EntriesAt
  <1>1. ASSUME NEW y \in Sessions, NEW j \in DOMAIN history[y]
        PROVE  /\ turn'[history[y][j].turn].pc \notin {"new", "sent"}
               /\ IsAnswer(history[y][j]) => turn'[history[y][j].turn].pc = "over"
    BY <1>0 DEF Once, Firm
  <1>2. CASE z # s
    <2>1. history'[z] = history[z]
      BY <1>2 DEF Logged
    <2> QED
      BY <1>1, <2>1 DEF Once
  <1>3. CASE z = s
    <2>1. PICK n \in Nat : n = Len(history[s]) + 1
      BY DEF Logged, Added
    <2>2. /\ history'[s][n] = e /\ n \notin DOMAIN history[s]
          /\ \A j \in DOMAIN history'[s] : (j \in DOMAIN history[s] /\ history'[s][j] = history[s][j]) \/ j = n
      BY <2>1 DEF Logged, Added
    <2>3. CASE i = n
      <3>1. ASSUME NEW j \in DOMAIN history'[s], Alike(history'[s][j], e) PROVE j = n
        BY <2>2, <3>1
      <3> QED
        BY <1>3, <2>2, <2>3, <3>1
    <2>4. CASE i # n
      <3>1. i \in DOMAIN history[s] /\ history'[s][i] = history[s][i]
        BY <1>3, <2>2, <2>4
      <3>2. ASSUME NEW j \in DOMAIN history'[s], Alike(history'[s][j], history[s][i])
            PROVE  j = i
        <4>1. j # n
          BY <2>2, <3>1, <3>2 DEF Alike, IsSystem
        <4>2. j \in DOMAIN history[s] /\ history'[s][j] = history[s][j]
          BY <2>2, <4>1
        <4> QED
          BY <3>1, <3>2, <4>2 DEF Once
      <3> QED
        BY <1>1, <1>3, <3>1, <3>2
    <2> QED
      BY <2>3, <2>4
  <1> QED
    BY <1>2, <1>3

\* A turn's message is stored as its run begins, its answer at its end.
LEMMA StoresAsked ==
  ASSUME IInv, Once, [Next]_vars, NEW m \in Turns, NEW s \in Sessions, turn[m].pc = "sent",
         Moved(turn, turn', m, "run"), Logged(history, history', s, Entry("server", "user", m, <<>>))
  PROVE  Once'
  <1>1. PICK e : e = Entry("server", "user", m, <<>>)
    OBVIOUS
  <1>2. e.turn = m /\ ~IsAnswer(e)
    BY <1>1 DEF Entry, IsAnswer
  <1>3. turn'[m].pc \notin {"new", "sent"}
    BY DEF Moved
  <1>4. \A j \in DOMAIN history[s] : ~Alike(history[s][j], e)
    BY <1>2 DEF Once, Alike
  <1> QED
    BY <1>1, <1>2, <1>3, <1>4, FirmStep, OnceMore

\* A system message that is stored was counted.
LEMMA NewNumber ==
  ASSUME IInv, Counted, NEW m \in Turns, NEW s \in Sessions, NEW j \in DOMAIN history[s],
         IsSystem(history[s][j]), history[s][j].turn = m
  PROVE  history[s][j].text # <<Part(m, turn[m].events + 1)>>
  <1>1. PICK n \in Nat : n = turn[m].events
    BY EntriesAt DEF TurnRecs
  <1>2. n + 1 \in Nat /\ ~(n + 1 <= n)
    OBVIOUS
  <1> QED
    BY <1>1, <1>2 DEF Counted

LEMMA OnceStep ==
  ASSUME IInv, Once, Counted, [Next]_vars
  PROVE  Once'
  <1>0. history' = history => Once'
    BY FirmStep, OnceKeep
  <1>1. CASE UNCHANGED vars
    BY <1>0, <1>1 DEF vars, serverVars
  <1>2. CASE User
    BY <1>0, <1>2, SendEffect, SelectEffect, RespondEffect, LogoutEffect DEF User
  <1>3. CASE Socket
    BY <1>0, <1>3, ClosingEffect, OnCloseEffect, ReopenEffect DEF Socket
  <1>4. CASE Serve
    <2>1. CASE history' = history
      BY <1>0, <2>1
    <2>2. CASE history' # history
      <3>1. PICK r : r = reqs[1]
        OBVIOUS
      <3>2. /\ r.turn \in Turns /\ turn[r.turn].pc = "sent" /\ Moved(turn, turn', r.turn, "run")
            /\ Logged(history, history', r.sid, Entry("server", "user", r.turn, <<>>)) /\ r \in ReqRecs
        BY <1>4, <2>2, <3>1, ServeEffect
      <3>3. r.sid \in Sessions
        BY <3>2 DEF ReqRecs
      <3> QED
        BY <3>2, <3>3, StoresAsked
    <2> QED
      BY <2>1, <2>2
  <1>5. ASSUME NEW m \in Turns, PostServed(m) PROVE Once'
    BY <1>5, PostServedEffect, StoresAsked
  <1>6. ASSUME NEW m \in Turns, Done(m) PROVE Once'
    <2>1. /\ turn[m].pc = "run" /\ turn[m].sid \in Sessions /\ Moved(turn, turn', m, "over")
          /\ Logged(history, history', turn[m].sid, Entry("server", "assistant", m, answer[m]))
      BY <1>6, DoneEffect
    <2>2. PICK e : e = Entry("server", "assistant", m, answer[m])
      OBVIOUS
    <2>3. e.turn = m /\ e.role = "assistant"
      BY <2>2 DEF Entry
    <2>4. turn'[m].pc = "over"
      BY <2>1 DEF Moved
    <2>5. \A j \in DOMAIN history[turn[m].sid] : ~Alike(history[turn[m].sid][j], e)
      BY <2>1, <2>3 DEF Once, IsAnswer, Alike
    <2> QED
      BY <2>1, <2>2, <2>3, <2>4, <2>5, FirmStep, OnceMore
  <1>s. ASSUME NEW m \in Turns, System(m) PROVE Once'
    <2>1. /\ turn[m].pc = "run" /\ turn'[m].pc = "run" /\ turn[m].sid \in Sessions
          /\ Logged(history, history', turn[m].sid, Entry("server", "system", m, <<Part(m, turn[m].events + 1)>>))
      BY <1>s, SystemEffect
    <2>2. PICK e : e = Entry("server", "system", m, <<Part(m, turn[m].events + 1)>>)
      OBVIOUS
    <2>3. e.turn = m /\ e.role = "system" /\ e.text = <<Part(m, turn[m].events + 1)>> /\ ~IsAnswer(e)
      BY <2>2 DEF Entry, IsAnswer
    <2>4. \A j \in DOMAIN history[turn[m].sid] : ~Alike(history[turn[m].sid][j], e)
      BY <2>1, <2>3, NewNumber DEF Alike, IsSystem
    <2> QED
      BY <2>1, <2>2, <2>3, <2>4, FirmStep, OnceMore
  <1>7. CASE ServeReply \/ (\E k \in Socks : SyncServed(k)) \/ \E m \in Turns : Error(m) \/ Silent(m) \/ PostFails(m)
    BY <1>0, <1>7, ServeReplyEffect, SyncServedEffect, ErrorEffect, SilentEffect, PostFailsEffect
  <1>8. CASE \E m \in Turns : \E kind \in {"text", "tool", "ask"} : Produce(m, kind)
    BY <1>0, <1>8, ProduceEffect
  <1>9. CASE OnText \/ OnTool \/ OnSystem \/ OnAsk \/ OnEnd \/ OnAttached \/ OnAnswered \/ \E k \in Socks : OnSynced(k)
    BY <1>0, <1>9, OnTextEffect, OnToolEffect, OnSystemEffect, OnAskEffect, OnEndEffect, OnAttachedEffect, OnAnsweredEffect,
       OnSyncedEffect
  <1> QED
    BY <1>1, <1>2, <1>3, <1>4, <1>5, <1>6, <1>s, <1>7, <1>8, <1>9 DEF Next, Server, Client

LEMMA NumberedKeep ==
  ASSUME Numbered, UNCHANGED answer,
         \A m \in Turns : turn'[m].events = turn[m].events,
         \A m \in Turns : turn'[m].pc \in {"new", "sent"} => turn[m].pc \in {"new", "sent"}
  PROVE  Numbered'
  BY DEF Numbered

LEMMA NumberedOver ==
  ASSUME Numbered, NEW m \in Turns, Moved(turn, turn', m, "over"),
         answer'[m] = <<>>, \A h \in Turns \ {m} : answer'[h] = answer[h]
  PROVE  Numbered'
  <1> SUFFICES ASSUME NEW h \in Turns
               PROVE  /\ turn'[h].pc \in {"new", "sent"} => answer'[h] = <<>>
                      /\ \A i \in DOMAIN answer'[h] : answer'[h][i].nr <= turn'[h].events
    BY DEF Numbered
  <1>1. CASE h = m
    <2>1. DOMAIN <<>> = {}
      OBVIOUS
    <2> QED
      BY <1>1, <2>1
  <1>2. CASE h # m
    BY <1>2 DEF Numbered, Moved
  <1> QED
    BY <1>1, <1>2

LEMMA NumberedStep ==
  ASSUME IInv, Numbered, [Next]_vars
  PROVE  Numbered'
  <1>t. turn \in [Turns -> TurnRecs]
    BY EntriesAt
  <1>0. turn' = turn /\ answer' = answer => Numbered'
    BY NumberedKeep
  <1>m. ASSUME NEW m \in Turns, NEW c, Moved(turn, turn', m, c), c = "run" \/ turn[m].pc = "sent", answer' = answer,
               c \in {"run", "over"}
        PROVE  Numbered'
    BY <1>m, NumberedKeep DEF Moved
  <1>1. CASE UNCHANGED vars
    BY <1>0, <1>1 DEF vars, serverVars
  <1>2. CASE User
    <2>1. ASSUME NEW m \in Turns, Send(m) PROVE Numbered'
      <3>1. /\ \A h \in Turns \ {m} : turn'[h] = turn[h]
            /\ turn[m].pc = "new" /\ turn'[m].pc = "sent" /\ answer' = answer
        BY <2>1, SendEffect
      <3>2. turn'[m].events = turn[m].events
        BY <1>t, <2>1 DEF Send, TurnRecs
      <3> QED
        BY <3>1, <3>2, NumberedKeep
    <2> QED
      BY <1>0, <1>2, <2>1, SelectEffect, RespondEffect, LogoutEffect DEF User
  <1>3. CASE Socket
    BY <1>0, <1>3, ClosingEffect, OnCloseEffect, ReopenEffect DEF Socket
  <1>4. CASE Serve
    <2>1. answer' = answer /\ (turn' = turn \/ \E m \in Turns : Moved(turn, turn', m, "run"))
      BY <1>4, ServeEffect
    <2> QED
      BY <1>0, <1>m, <2>1
  <1>5. CASE ServeReply \/ \E k \in Socks : SyncServed(k)
    BY <1>0, <1>5, ServeReplyEffect, SyncServedEffect
  <1>6. ASSUME NEW m \in Turns, PostServed(m) \/ PostFails(m) PROVE Numbered'
    BY <1>m, <1>6, PostServedEffect, PostFailsEffect
  <1>7. ASSUME NEW m \in Turns, Done(m) \/ Error(m) \/ Silent(m) PROVE Numbered'
    BY <1>7, DoneEffect, ErrorEffect, SilentEffect, NumberedOver
  <1>8. ASSUME NEW m \in Turns, NEW kind \in {"text", "tool", "ask"}, Produce(m, kind) PROVE Numbered'
    <2>1. /\ \A h \in Turns \ {m} : turn'[h] = turn[h] /\ answer'[h] = answer[h]
          /\ turn'[m].pc \in {"run", "ask"} /\ turn'[m].events = turn[m].events + 1
          /\ answer'[m] = answer[m] \/ Added(answer[m], answer'[m], Part(m, turn[m].events + 1))
      BY <1>8, ProduceEffect
    <2>2. PICK n \in Nat : n = turn[m].events
      BY <1>t DEF TurnRecs
    <2>3. \A i \in DOMAIN answer[m] : answer[m][i].nr <= n /\ answer[m][i].nr \in Nat
      <3>1. \A i \in DOMAIN answer[m] : answer[m][i] \in Parts
        BY EntriesAt, ElementAt
      <3> QED
        BY <2>2, <3>1 DEF Numbered, Parts
    <2>4. ASSUME NEW i \in DOMAIN answer'[m] PROVE answer'[m][i].nr <= n + 1
      <3>1. \/ i \in DOMAIN answer[m] /\ answer'[m][i] = answer[m][i]
            \/ answer'[m][i] = Part(m, n + 1)
        BY <2>1, <2>2, <2>4 DEF Added
      <3>2. CASE i \in DOMAIN answer[m] /\ answer'[m][i] = answer[m][i]
        BY <2>3, <3>2
      <3>3. CASE answer'[m][i] = Part(m, n + 1)
        BY <3>3 DEF Part
      <3> QED
        BY <3>1, <3>2, <3>3
    <2> QED
      BY <2>1, <2>2, <2>4 DEF Numbered
  <1>s. ASSUME NEW m \in Turns, System(m) PROVE Numbered'
    <2>1. /\ \A h \in Turns \ {m} : turn'[h] = turn[h]
          /\ turn'[m].pc = "run" /\ turn'[m].events = turn[m].events + 1 /\ answer' = answer
      BY <1>s, SystemEffect
    <2>2. PICK n \in Nat : n = turn[m].events
      BY <1>t DEF TurnRecs
    <2>3. \A i \in DOMAIN answer[m] : answer[m][i] \in Parts
      BY EntriesAt, ElementAt
    <2>4. \A i \in DOMAIN answer[m] : answer[m][i].nr <= n + 1
      BY <2>2, <2>3 DEF Numbered, Parts
    <2> QED
      BY <2>1, <2>2, <2>4 DEF Numbered
  <1>9. CASE OnText \/ OnTool \/ OnSystem \/ OnAsk \/ OnEnd \/ OnAttached \/ OnAnswered \/ \E k \in Socks : OnSynced(k)
    BY <1>0, <1>9, OnTextEffect, OnToolEffect, OnSystemEffect, OnAskEffect, OnEndEffect, OnAttachedEffect, OnAnsweredEffect,
       OnSyncedEffect
  <1> QED
    BY <1>1, <1>2, <1>3, <1>4, <1>5, <1>6, <1>7, <1>8, <1>s, <1>9 DEF Next, Server, Client

\* No turn loses an event; what is stored is a message, an answer, or a system
\* message with the number of the last event.
EventsGo ==
  \A m \in Turns : turn[m].events \in Nat /\ turn'[m].events \in Nat /\ turn[m].events <= turn'[m].events
StoreGets ==
  \/ history' = history
  \/ \E s \in Sessions, m \in Turns, e \in Entries :
       /\ Logged(history, history', s, e) /\ e.turn = m
       /\ IsSystem(e) => e.text = <<Part(m, turn'[m].events)>>

LEMMA EventsStep ==
  ASSUME IInv, [Next]_vars
  PROVE  EventsGo /\ StoreGets
  <1>t. turn \in [Turns -> TurnRecs]
    BY EntriesAt
  <1>n. \A m \in Turns : turn[m].events \in Nat
    BY <1>t DEF TurnRecs
  <1>e. (\A m \in Turns : turn'[m].events = turn[m].events) => EventsGo
    BY <1>n DEF EventsGo
  <1>0. turn' = turn => EventsGo
    BY <1>e
  <1>h. history' = history => StoreGets
    BY DEF StoreGets
  <1>m. ASSUME NEW m \in Turns, NEW c, Moved(turn, turn', m, c) PROVE EventsGo
    BY <1>e, <1>m DEF Moved
  <1>a. ASSUME NEW m \in Turns, \A h \in Turns \ {m} : turn'[h] = turn[h], turn'[m].events = turn[m].events + 1
        PROVE  EventsGo
    <2>1. PICK n \in Nat : n = turn[m].events
      BY <1>n
    <2>2. n + 1 \in Nat /\ n <= n + 1 /\ turn'[m].events = n + 1
      BY <1>a, <2>1
    <2>3. \A h \in Turns : h # m => turn'[h].events = turn[h].events
      BY <1>a
    <2>4. \A h \in Turns : turn[h].events <= turn[h].events
      BY <1>n
    <2> QED
      BY <1>n, <2>1, <2>2, <2>3, <2>4 DEF EventsGo
  <1>u. ASSUME NEW m \in Turns, NEW s \in Sessions, Logged(history, history', s, Entry("server", "user", m, <<>>))
        PROVE  StoreGets
    <2>1. <<>> \in Seq(Parts)
      OBVIOUS
    <2>2. Entry("server", "user", m, <<>>) \in Entries
      BY <2>1, Made
    <2>3. Entry("server", "user", m, <<>>).turn = m /\ ~IsSystem(Entry("server", "user", m, <<>>))
      BY DEF Entry, IsSystem
    <2> QED
      BY <1>u, <2>2, <2>3 DEF StoreGets
  <1>1. CASE UNCHANGED vars
    BY <1>0, <1>h, <1>1 DEF vars, serverVars
  <1>2. CASE User
    <2>1. ASSUME NEW m \in Turns, Send(m) PROVE EventsGo /\ StoreGets
      <3>1. history' = history /\ \A h \in Turns \ {m} : turn'[h] = turn[h]
        BY <2>1, SendEffect
      <3>2. turn'[m].events = turn[m].events
        BY <1>t, <2>1 DEF Send, TurnRecs
      <3> QED
        BY <1>e, <1>h, <3>1, <3>2
    <2> QED
      BY <1>0, <1>h, <1>2, <2>1, SelectEffect, RespondEffect, LogoutEffect DEF User
  <1>3. CASE Socket
    BY <1>0, <1>h, <1>3, ClosingEffect, OnCloseEffect, ReopenEffect DEF Socket
  <1>4. CASE Serve
    <2>1. EventsGo
      BY <1>0, <1>m, <1>4, ServeEffect
    <2>2. CASE history' = history
      BY <1>h, <2>1, <2>2
    <2>3. CASE history' # history
      <3>1. PICK r : r = reqs[1]
        OBVIOUS
      <3>2. r \in ReqRecs /\ r.turn \in Turns /\ Logged(history, history', r.sid, Entry("server", "user", r.turn, <<>>))
        BY <1>4, <2>3, <3>1, ServeEffect
      <3>3. r.sid \in Sessions
        BY <3>2 DEF ReqRecs
      <3> QED
        BY <1>u, <2>1, <3>2, <3>3
    <2> QED
      BY <2>2, <2>3
  <1>5. ASSUME NEW m \in Turns, PostServed(m) PROVE EventsGo /\ StoreGets
    BY <1>m, <1>u, <1>5, PostServedEffect
  <1>6. ASSUME NEW m \in Turns, Done(m) PROVE EventsGo /\ StoreGets
    <2>1. /\ turn[m].sid \in Sessions /\ Moved(turn, turn', m, "over")
          /\ Logged(history, history', turn[m].sid, Entry("server", "assistant", m, answer[m]))
      BY <1>6, DoneEffect
    <2>2. PICK e : e = Entry("server", "assistant", m, answer[m])
      OBVIOUS
    <2>3. e \in Entries
      BY <2>2, EntriesAt, Made
    <2>4. e.turn = m /\ ~IsSystem(e)
      BY <2>2 DEF Entry, IsSystem
    <2> QED
      BY <1>m, <2>1, <2>2, <2>3, <2>4 DEF StoreGets
  <1>7. ASSUME NEW m \in Turns, System(m) PROVE EventsGo /\ StoreGets
    <2>1. /\ turn[m].sid \in Sessions /\ Part(m, turn[m].events + 1) \in Parts
          /\ \A h \in Turns \ {m} : turn'[h] = turn[h]
          /\ turn'[m].events = turn[m].events + 1
          /\ Logged(history, history', turn[m].sid, Entry("server", "system", m, <<Part(m, turn[m].events + 1)>>))
      BY <1>7, SystemEffect
    <2>2. PICK e : e = Entry("server", "system", m, <<Part(m, turn[m].events + 1)>>)
      OBVIOUS
    <2>3. e \in Entries
      <3>1. <<Part(m, turn[m].events + 1)>> \in Seq(Parts)
        BY <2>1
      <3> QED
        BY <2>2, <3>1, Made
    <2>4. e.turn = m /\ e.text = <<Part(m, turn'[m].events)>>
      BY <2>1, <2>2 DEF Entry
    <2>5. EventsGo
      BY <1>a, <2>1
    <2> QED
      BY <2>1, <2>2, <2>3, <2>4, <2>5 DEF StoreGets
  <1>8. CASE ServeReply \/ (\E k \in Socks : SyncServed(k)) \/ \E m \in Turns : Error(m) \/ Silent(m) \/ PostFails(m)
    BY <1>0, <1>h, <1>m, <1>8, ServeReplyEffect, SyncServedEffect, ErrorEffect, SilentEffect, PostFailsEffect
  <1>9. ASSUME NEW m \in Turns, NEW kind \in {"text", "tool", "ask"}, Produce(m, kind) PROVE EventsGo /\ StoreGets
    <2>1. /\ history' = history /\ \A h \in Turns \ {m} : turn'[h] = turn[h]
          /\ turn'[m].events = turn[m].events + 1
      BY <1>9, ProduceEffect
    <2> QED
      BY <1>a, <1>h, <2>1
  <1>10. CASE OnText \/ OnTool \/ OnSystem \/ OnAsk \/ OnEnd \/ OnAttached \/ OnAnswered \/ \E k \in Socks : OnSynced(k)
    BY <1>0, <1>h, <1>10, OnTextEffect, OnToolEffect, OnSystemEffect, OnAskEffect, OnEndEffect, OnAttachedEffect,
       OnAnsweredEffect, OnSyncedEffect
  <1> QED
    BY <1>1, <1>2, <1>3, <1>4, <1>5, <1>6, <1>7, <1>8, <1>9, <1>10 DEF Next, Server, Client

LEMMA CountedStep ==
  ASSUME IInv, Counted, [Next]_vars
  PROVE  Counted'
  <1>e. \A m \in Turns : turn[m].events \in Nat /\ turn'[m].events \in Nat /\ turn[m].events <= turn'[m].events
    BY EventsStep DEF EventsGo
  <1> SUFFICES ASSUME NEW z \in Sessions, NEW i \in DOMAIN history'[z], IsSystem(history'[z][i]), NEW k \in Nat,
                      history'[z][i].text = <<Part(history'[z][i].turn, k)>>
               PROVE  k <= turn'[history'[z][i].turn].events
    BY DEF Counted, IsSystem, Part
  <1>1. CASE i \in DOMAIN history[z] /\ history'[z][i] = history[z][i]
    <2>1. PICK m \in Turns : m = history[z][i].turn
      BY <1>1, EntriesAt
    <2>2. k <= turn[m].events
      BY <1>1, <2>1 DEF Counted
    <2> QED
      BY <1>1, <1>e, <2>1, <2>2
  <1>2. ASSUME NEW m \in Turns, NEW e, history'[z][i] = e, e.turn = m, IsSystem(e) => e.text = <<Part(m, turn'[m].events)>>
        PROVE  k <= turn'[history'[z][i].turn].events
    <2>1. <<Part(m, k)>> = <<Part(m, turn'[m].events)>>
      BY <1>2
    <2>2. Part(m, k) = Part(m, turn'[m].events)
      BY <2>1
    <2>3. k = turn'[m].events
      BY <2>2 DEF Part
    <2> QED
      BY <1>2, <2>3
  <1>3. CASE history' = history
    BY <1>1, <1>3
  <1>4. CASE history' # history
    <2>1. PICK s \in Sessions, m \in Turns, e \in Entries :
            /\ Logged(history, history', s, e) /\ e.turn = m
            /\ IsSystem(e) => e.text = <<Part(m, turn'[m].events)>>
      BY <1>4, EventsStep DEF StoreGets
    <2>2. (i \in DOMAIN history[z] /\ history'[z][i] = history[z][i]) \/ history'[z][i] = e
      BY <2>1 DEF Logged, Added
    <2> QED
      BY <1>1, <1>2, <2>1, <2>2
  <1> QED
    BY <1>3, <1>4

-----------------------------------------------------------------------------
(* What is fetched while nothing is under way is all there is.             *)

LEMMA LoggedLen ==
  ASSUME NEW h \in [Sessions -> Seq(Entries)], NEW g \in [Sessions -> Seq(Entries)],
         NEW s \in Sessions, NEW e, Logged(h, g, s, e)
  PROVE  \A z \in Sessions : Len(h[z]) \in Nat /\ Len(g[z]) \in Nat /\ Len(h[z]) <= Len(g[z])
  <1> SUFFICES ASSUME NEW z \in Sessions PROVE Len(h[z]) \in Nat /\ Len(g[z]) \in Nat /\ Len(h[z]) <= Len(g[z])
    OBVIOUS
  <1>1. h[z] \in Seq(Entries) /\ g[z] \in Seq(Entries)
    OBVIOUS
  <1>2. Len(h[z]) \in Nat /\ Len(g[z]) \in Nat
    BY <1>1
  <1>3. CASE z = s
    <2>1. Len(g[z]) = Len(h[z]) + 1
      BY <1>1, <1>3, AddedLen DEF Logged
    <2> QED
      BY <1>2, <2>1
  <1>4. CASE z # s
    BY <1>2, <1>4 DEF Logged
  <1> QED
    BY <1>3, <1>4

LEMMA StoreStep ==
  ASSUME IInv, [Next]_vars, Clean, Here
  PROVE  /\ \A s \in Sessions : Len(history[s]) \in Nat /\ Len(history'[s]) \in Nat
                                /\ Len(history[s]) <= Len(history'[s])
         /\ history' = history \/ (gen /\ gen' = gen)
  <1>t. history \in [Sessions -> Seq(Entries)] /\ history' \in [Sessions -> Seq(Entries)]
    BY TypeStep DEF IInv, TypeOK
  <1>0. history' = history \/ \E s \in Sessions, m \in Turns, e \in Entries :
                                 Logged(history, history', s, e) /\ (Waits(m) \/ Working(m)) /\ gen' = gen
    <2>1. CASE UNCHANGED vars
      BY <2>1 DEF vars, serverVars
    <2>2. CASE User
      BY <2>2, SendEffect, SelectEffect, RespondEffect, LogoutEffect DEF User
    <2>3. CASE Socket
      BY <2>3, ClosingEffect, OnCloseEffect, ReopenEffect DEF Socket
    <2>4. ASSUME Serve, history' # history
          PROVE  \E s \in Sessions, m \in Turns, e \in Entries :
                   Logged(history, history', s, e) /\ (Waits(m) \/ Working(m)) /\ gen' = gen
      <3>1. PICK r : r = reqs[1]
        OBVIOUS
      <3>2. /\ r \in ReqRecs /\ r.turn \in Turns /\ turn[r.turn].pc = "sent" /\ gen' = gen
            /\ Logged(history, history', r.sid, Entry("server", "user", r.turn, <<>>))
        BY <2>4, <3>1, ServeEffect
      <3>3. r.sid \in Sessions
        BY <3>2 DEF ReqRecs
      <3>4. <<>> \in Seq(Parts)
        OBVIOUS
      <3>5. Entry("server", "user", r.turn, <<>>) \in Entries
        BY <3>2, <3>4, Made
      <3> QED
        BY <3>2, <3>3, <3>5 DEF Waits
    <2>5. ASSUME NEW m \in Turns, PostServed(m)
          PROVE  \E s \in Sessions, h \in Turns, e \in Entries :
                   Logged(history, history', s, e) /\ (Waits(h) \/ Working(h)) /\ gen' = gen
      <3>3. turn[m].pc = "sent" /\ turn[m].src = 0
        BY <2>5, PostServedEffect
      <3>4. nr = 0 /\ nr \in Socks
        BY <3>3 DEF Here, Waits, IInv, TypeOK
      <3> QED
        BY <3>4 DEF Socks
    <2>6. ASSUME NEW m \in Turns, Done(m)
          PROVE  \E s \in Sessions, h \in Turns, e \in Entries :
                   Logged(history, history', s, e) /\ (Waits(h) \/ Working(h)) /\ gen' = gen
      <3>2. Entry("server", "assistant", m, answer[m]) \in Entries
        BY EntriesAt, Made
      <3> QED
        BY <2>6, <3>2, DoneEffect DEF Working
    <2>s. ASSUME NEW m \in Turns, System(m)
          PROVE  \E s \in Sessions, h \in Turns, e \in Entries :
                   Logged(history, history', s, e) /\ (Waits(h) \/ Working(h)) /\ gen' = gen
      <3>1. PICK p \in Parts : p = Part(m, turn[m].events + 1)
        BY <2>s, SystemEffect
      <3>2. <<p>> \in Seq(Parts)
        OBVIOUS
      <3>3. PICK e \in Entries : e = Entry("server", "system", m, <<p>>)
        BY <3>2, Made
      <3>4. /\ turn[m].pc = "run" /\ turn[m].sid \in Sessions /\ gen' = gen
            /\ Logged(history, history', turn[m].sid, e)
        BY <2>s, <3>1, <3>3, SystemEffect
      <3> QED
        BY <3>4 DEF Working
    <2>7. CASE ServeReply \/ (\E k \in Socks : SyncServed(k)) \/ \E m \in Turns : Error(m) \/ Silent(m) \/ PostFails(m)
      BY <2>7, ServeReplyEffect, SyncServedEffect, ErrorEffect, SilentEffect, PostFailsEffect
    <2>8. CASE \E m \in Turns : \E kind \in {"text", "tool", "ask"} : Produce(m, kind)
      BY <2>8, ProduceEffect
    <2>9. CASE OnText \/ OnTool \/ OnSystem \/ OnAsk \/ OnEnd \/ OnAttached \/ OnAnswered \/ \E k \in Socks : OnSynced(k)
      BY <2>9, OnTextEffect, OnToolEffect, OnSystemEffect, OnAskEffect, OnEndEffect, OnAttachedEffect, OnAnsweredEffect,
         OnSyncedEffect
    <2> QED
      BY <2>1, <2>2, <2>3, <2>4, <2>5, <2>6, <2>s, <2>7, <2>8, <2>9 DEF Next, Server, Client
  <1>1. CASE history' = history
    <2>1. \A s \in Sessions : Len(history[s]) \in Nat
      BY EntriesAt
    <2> QED
      BY <1>1, <2>1
  <1>2. CASE history' # history
    <2>1. PICK s \in Sessions, m \in Turns, e \in Entries :
            Logged(history, history', s, e) /\ (Waits(m) \/ Working(m)) /\ gen' = gen
      BY <1>0, <1>2
    <2>2. gen
      BY <2>1, UnderWayHere
    <2> QED
      BY <1>t, <2>1, <2>2, LoggedLen
  <1> QED
    BY <1>1, <1>2

LEMMA ServingStep ==
  ASSUME IInv, [Next]_vars
  PROVE  serving' = serving \/ serving'.kind # "attach" \/ serving'.list = history[serving'.sid]
  <1>0. NoRequest.kind # "attach"
    BY DEF NoRequest, Request
  <1>1. CASE UNCHANGED vars
    BY <1>1 DEF vars, wireVars
  <1>2. CASE User
    BY <1>0, <1>2, SendEffect, SelectEffect, RespondEffect, LogoutEffect DEF User
  <1>3. CASE Socket
    BY <1>0, <1>3, ClosingEffect, OnCloseEffect, ReopenEffect DEF Socket
  <1>4. CASE Serve
    <2>1. \/ serving'.list = history[reqs[1].sid] /\ serving'.sid = reqs[1].sid
          \/ reqs[1].kind = "answer" /\ serving' = reqs[1]
          \/ serving' = NoRequest
      BY <1>4, ServeEffect
    <2>2. CASE serving'.list = history[reqs[1].sid] /\ serving'.sid = reqs[1].sid
      BY <2>2
    <2>3. CASE reqs[1].kind = "answer" /\ serving' = reqs[1]
      BY <2>3
    <2> QED
      BY <1>0, <2>1, <2>2, <2>3
  <1>5. CASE ServeReply
    BY <1>0, <1>5, ServeReplyEffect
  <1>6. CASE (\E k \in Socks : SyncServed(k)) \/ \E m \in Turns : PostServed(m) \/ Done(m) \/ Error(m) \/ Silent(m)
    BY <1>6, SyncServedEffect, PostServedEffect, DoneEffect, ErrorEffect
       DEF Silent, wireVars
  <1>7. CASE \E m \in Turns : \E kind \in {"text", "tool", "ask"} : Produce(m, kind)
    BY <1>7, ProduceEffect
  <1>s. CASE \E m \in Turns : System(m)
    BY <1>s, SystemEffect
  <1>8. CASE Client
    BY <1>8, OnTextEffect, OnToolEffect, OnSystemEffect, OnAskEffect, OnEndEffect, OnAttachedEffect, OnAnsweredEffect,
       OnSyncedEffect, PostFailsEffect DEF Client
  <1> QED
    BY <1>1, <1>2, <1>3, <1>4, <1>5, <1>6, <1>7, <1>s, <1>8 DEF Next, Server

LEMMA FetchedStep ==
  ASSUME IInv, IInv', [Next]_vars, Clean, Clean', Here, Fetched
  PROVE  Fetched'
  <1>1. CASE gen'
    <2>1. Untroubled'
      BY DEF Clean, Untroubled
    <2>2. ~Attaching'
      BY <1>1, <2>1 DEF IInv, Stays, StaysMarked
    <2> QED
      BY <2>2, AttachingAt DEF Fetched
  <1>2. CASE ~gen'
    <2>1. history' = history
      BY <1>2, StoreStep
    <2>2. serving'.kind = "attach" => serving'.list = history'[serving'.sid]
      BY <2>1, ServingStep DEF Fetched
    <2>3. ASSUME NEW i \in DOMAIN frames', frames'[i].kind = "attached"
          PROVE  frames'[i].list = history'[frames'[i].sid]
      <3>1. PICK f : f = frames'[i]
        OBVIOUS
      <3>2. (\E j \in DOMAIN frames : f = frames[j]) \/ Fresh(f)
        BY <3>1, FramesStep DEF FramesCome
      <3>3. CASE Fresh(f)
        BY <2>1, <2>3, <3>1, <3>3 DEF Fresh, IsNotice, Fetched
      <3>4. CASE \E j \in DOMAIN frames : f = frames[j]
        BY <2>1, <2>3, <3>1, <3>4 DEF Fetched
      <3> QED
        BY <3>2, <3>3, <3>4
    <2> QED
      BY <2>2, <2>3 DEF Fetched
  <1> QED
    BY <1>1, <1>2

\* The messages get longer, if anything; the mark comes with a message.
Longs == /\ cur' = cur /\ sync' = sync
         /\ Len(messages) \in Nat /\ Len(messages') \in Nat /\ Len(messages) <= Len(messages')
         /\ gen' => gen \/ Len(messages) < Len(messages')

LEMMA LongsSame ==
  ASSUME IInv, UNCHANGED <<cur, sync, messages>>, gen' => gen
  PROVE  Longs
  <1>1. Len(messages) \in Nat
    BY EntriesAt
  <1> QED
    BY <1>1 DEF Longs

LEMMA LongsMore ==
  ASSUME IInv, TypeOK', NEW e, Added(messages, messages', e), UNCHANGED <<cur, sync>>
  PROVE  Longs
  <1>1. messages \in Seq(Entries) /\ messages' \in Seq(Entries)
    BY EntriesAt DEF TypeOK
  <1>2. Len(messages') = Len(messages) + 1 /\ Len(messages) \in Nat
    BY <1>1, AddedLen
  <1> QED
    BY <1>2 DEF Longs

LEMMA LongsReshown ==
  ASSUME IInv, TypeOK', DOMAIN messages' = DOMAIN messages, UNCHANGED <<cur, sync, gen>>
  PROVE  Longs
  <1>1. messages \in Seq(Entries) /\ messages' \in Seq(Entries)
    BY EntriesAt DEF TypeOK
  <1>2. Len(messages') = Len(messages) /\ Len(messages) \in Nat
    BY <1>1, ReshownLen
  <1> QED
    BY <1>2 DEF Longs

LEMMA HeardLongs ==
  ASSUME IInv, TypeOK', NEW p, UNCHANGED <<messages, bubble>> \/ Started(p) \/ Longer(p), UNCHANGED <<cur, sync, gen>>
  PROVE  Longs
  <1>1. CASE UNCHANGED <<messages, bubble>>
    BY <1>1, LongsSame
  <1>2. CASE Started(p)
    <2>1. \E e : Added(messages, messages', e)
      BY <1>2 DEF Started
    <2> QED
      BY <2>1, LongsMore
  <1>3. CASE Longer(p)
    <2>1. DOMAIN messages' = DOMAIN messages
      BY <1>3 DEF Longer, Reshown
    <2> QED
      BY <2>1, LongsReshown
  <1> QED
    BY <1>1, <1>2, <1>3

LEMMA LongsStep ==
  ASSUME IInv, [Next]_vars
  PROVE  \/ Longs
         \/ Logout \/ OnAttached
         \/ \E k \in Socks : SyncServed(k) \/ OnSynced(k)
  <1>t. TypeOK'
    BY TypeStep
  <1>0. UNCHANGED <<cur, sync, messages>> /\ (gen' = gen \/ gen' = FALSE) => Longs
    BY LongsSame
  <1>1. CASE UNCHANGED vars
    BY <1>1, <1>0 DEF vars, viewVars
  <1>2. CASE User
    <2>1. ASSUME NEW m \in Turns, Send(m) PROVE Longs
      <3>1. Added(messages, messages', Entry("client", "user", m, <<>>)) /\ UNCHANGED <<cur, sync>>
        BY <2>1, SendEffect
      <3> QED
        BY <1>t, <3>1, LongsMore
    <2>2. CASE Respond \/ \E s \in Sessions : Select(s)
      BY <2>2, SelectEffect, RespondEffect, <1>0
    <2> QED
      BY <1>2, <2>1, <2>2 DEF User
  <1>3. CASE Socket
    BY <1>3, ClosingEffect, OnCloseEffect, ReopenEffect, <1>0 DEF Socket
  <1>4. CASE Serve \/ ServeReply \/ \E m \in Turns : PostServed(m) \/ System(m) \/ Done(m) \/ Error(m) \/ Silent(m)
    BY <1>4, ServeEffect, ServeReplyEffect, PostServedEffect, SystemEffect, DoneEffect, ErrorEffect, SilentEffect, <1>0
  <1>5. ASSUME NEW m \in Turns, NEW kind \in {"text", "tool", "ask"}, Produce(m, kind) PROVE Longs
    BY <1>5, ProduceEffect, <1>0
  <1>6. CASE OnText
    <2>1. PICK p : p = frames[1].part
      OBVIOUS
    <2>2. (UNCHANGED <<messages, bubble>> \/ Started(p) \/ Longer(p)) /\ UNCHANGED <<cur, sync, gen>>
      BY <1>6, <2>1, OnTextEffect
    <2> QED
      BY <1>t, <2>2, HeardLongs
  <1>7. CASE OnTool
    <2>1. PICK p : p = frames[1].part
      OBVIOUS
    <2>2. (UNCHANGED <<messages, bubble>> \/ Started(p) \/ Longer(p)) /\ UNCHANGED <<cur, sync, gen>>
      BY <1>7, <2>1, OnToolEffect
    <2> QED
      BY <1>t, <2>2, HeardLongs
  <1>s. CASE OnSystem
    <2>1. UNCHANGED <<cur, sync, gen>> /\ (messages' = messages \/ \E e : Added(messages, messages', e))
      BY <1>s, OnSystemEffect
    <2> QED
      BY <1>t, <2>1, LongsSame, LongsMore
  <1>8. CASE OnEnd
    BY <1>0, <1>8, OnEndEffect
  <1>9. CASE OnAsk \/ OnAnswered \/ \E m \in Turns : PostFails(m)
    BY <1>9, OnAskEffect, OnAnsweredEffect, PostFailsEffect, <1>0
  <1> QED
    BY <1>1, <1>2, <1>3, <1>4, <1>5, <1>6, <1>7, <1>s, <1>8, <1>9 DEF Next, Server, Client

\* A request of a session that is shown stays even while the view gets longer.
LEMMA EvenKeep ==
  ASSUME NEW r, Even(r), r.pc # "none" => r.sid \in Sessions /\ r.after \in Nat,
         Len(messages) \in Nat, Len(messages') \in Nat, Len(messages) <= Len(messages'),
         \A s \in Sessions : Len(history[s]) \in Nat /\ Len(history'[s]) \in Nat /\ Len(history[s]) <= Len(history'[s]),
         history' = history \/ gen, gen' => gen \/ Len(messages) < Len(messages'), cur' = cur
  PROVE  Even(r)'
  <1> SUFFICES ASSUME r.pc # "none"
               PROVE  /\ r.after <= Len(history'[r.sid])
                      /\ r.list # <<>> => r.after < Len(history'[r.sid])
                      /\ r.sid = cur => /\ r.after <= Len(messages') /\ (gen' => r.after < Len(messages'))
                                        /\ r.after = Len(messages') => r.after = Len(history'[r.sid])
    BY DEF Even
  <1>1. /\ r.after <= Len(history[r.sid])
        /\ r.list # <<>> => r.after < Len(history[r.sid])
        /\ r.sid = cur => /\ r.after <= Len(messages) /\ (gen => r.after < Len(messages))
                          /\ r.after = Len(messages) => r.after = Len(history[r.sid])
    BY DEF Even
  <1>2. PICK a \in Nat, n \in Nat, n2 \in Nat, h \in Nat, h2 \in Nat :
          /\ a = r.after /\ n = Len(messages) /\ n2 = Len(messages')
          /\ h = Len(history[r.sid]) /\ h2 = Len(history'[r.sid])
    OBVIOUS
  <1>3. n <= n2 /\ h <= h2
    BY <1>2
  <1>4. a <= h /\ (r.list # <<>> => a < h)
    BY <1>1, <1>2
  <1>5. ASSUME r.sid = cur
        PROVE  a <= n2 /\ (gen' => a < n2) /\ (a = n2 => a = h2)
    <2>1. a <= n /\ (gen => a < n) /\ (a = n => a = h)
      BY <1>1, <1>2, <1>5
    <2>2. h2 = h \/ gen
      BY <1>2
    <2>3. gen' => gen \/ n < n2
      BY <1>2
    <2> QED
      BY <1>3, <2>1, <2>2, <2>3
  <1> QED
    BY <1>2, <1>3, <1>4, <1>5

\* A sync that has not been overtaken brings nothing.
LEMMA SyncBrings ==
  ASSUME IInv, Synced, Clean', NEW k \in Socks, OnSynced(k)
  PROVE  messages' = messages
  <1> SUFFICES ASSUME messages' # messages PROVE FALSE
    OBVIOUS
  <1>1. "overtaken" \notin trouble'
    BY DEF Clean
  <1>2. /\ cur = sync[k].sid /\ Len(messages) = sync[k].after
        /\ sync[k].pc # "none" /\ sync[k].list # <<>>
    BY <1>1, OnSyncedEffect
  <1>3. sync[k].sid \in Sessions
    BY <1>2 DEF IInv, Wire, WireSync
  <1>4. PICK a : a = sync[k].after
    OBVIOUS
  <1>5. a = Len(history[sync[k].sid]) /\ a < Len(history[sync[k].sid])
    BY <1>2, <1>4 DEF Synced, Even
  <1>6. Len(history[sync[k].sid]) \in Nat
    BY <1>3, EntriesAt
  <1> QED
    BY <1>5, <1>6

LEMMA SyncedStep ==
  ASSUME IInv, IInv', [Next]_vars, Clean, Clean', Here, Fetched, Synced
  PROVE  Synced'
  <1> SUFFICES ASSUME NEW k \in Socks PROVE Even(sync[k])'
    BY DEF Synced
  <1>0. PICK r : r = sync[k]
    OBVIOUS
  <1>1. Even(r) /\ (r.pc # "none" => r.sid \in Sessions) /\ r.after \in Nat
    BY <1>0, TypeParts DEF IInv, Wire, WireSync, Synced, SyncOK, SyncRecs
  <1>2. /\ \A s \in Sessions : Len(history[s]) \in Nat /\ Len(history'[s]) \in Nat /\ Len(history[s]) <= Len(history'[s])
        /\ history' = history \/ (gen /\ gen' = gen)
    BY StoreStep
  <1>3. Len(messages) \in Nat
    BY EntriesAt
  <1>4. CASE Longs
    <2>1. Even(r)'
      BY <1>1, <1>2, <1>4, EvenKeep DEF Longs
    <2>2. sync'[k] = r
      BY <1>0, <1>4 DEF Longs
    <2> QED
      BY <2>1, <2>2 DEF Even
  <1>5. CASE UNCHANGED <<cur, messages, gen, history>> /\ sync'[k] = r
    BY <1>1, <1>5 DEF Even
  <1>6. CASE Logout
    <2>1. cur' = None /\ sync' = sync /\ history' = history
      BY <1>6, LogoutEffect
    <2>2. r.pc # "none" => r.sid # cur'
      BY <1>1, <2>1, NoneFresh
    <2> QED
      BY <1>0, <1>1, <2>1, <2>2 DEF Even
  <1>7. CASE OnAttached
    <2>1. PICK s \in Sessions : s = frames[1].sid
      BY <1>7, OnAttachedEffect
    <2>2. /\ 1 \in DOMAIN frames /\ frames[1].kind = "attached" /\ gen' = gen /\ history' = history
          /\ cur' = s /\ messages' = frames[1].list
          /\ \/ sync'[k] = sync[k]
             \/ sync'[k].sid = s /\ sync'[k].list = <<>> /\ sync'[k].after = Len(frames[1].list)
      BY <1>7, <2>1, OnAttachedEffect DEF Taken
    <2>3. ~gen
      <3>1. Attaching
        BY <2>2, AttachingAt
      <3> QED
        BY <3>1, CleanOnes DEF IInv, Stays, StaysMarked
    <2>4. frames[1].list = history[s]
      BY <2>1, <2>2 DEF Fetched
    <2>5. PICK n \in Nat : n = Len(history[s])
      BY EntriesAt
    <2>6. Len(messages') = n /\ history'[s] = history[s]
      BY <2>2, <2>4, <2>5
    <2>7. CASE sync'[k] = r
      <3>1. r.sid = s /\ r.after = n => r.after = Len(history[s])
        BY <2>5
      <3> QED
        BY <1>1, <2>2, <2>3, <2>5, <2>6, <2>7 DEF Even
    <2>8. CASE sync'[k].sid = s /\ sync'[k].list = <<>> /\ sync'[k].after = n
      BY <2>2, <2>3, <2>5, <2>6, <2>8 DEF Even
    <2> QED
      BY <1>0, <2>2, <2>4, <2>5, <2>7, <2>8
  <1>8. ASSUME NEW z \in Socks, SyncServed(z) PROVE Even(sync[k])'
    <2>1. UNCHANGED <<cur, messages, gen, history>> /\ \A y \in Socks \ {z} : sync'[y] = sync[y]
      BY <1>8, SyncServedEffect
    <2>2. CASE z = k
      <3>1. /\ r.pc # "none" /\ sync'[k].sid = r.sid /\ sync'[k].after = r.after
            /\ sync'[k].list # <<>> => r.after < Len(history[r.sid])
        BY <1>0, <1>8, <2>2, SyncServedEffect
      <3> QED
        BY <1>1, <2>1, <3>1 DEF Even
    <2>3. CASE z # k
      BY <1>0, <1>5, <2>1, <2>3
    <2> QED
      BY <2>2, <2>3
  <1>9. ASSUME NEW z \in Socks, OnSynced(z) PROVE Even(sync[k])'
    <2>1. UNCHANGED <<cur, gen, history>> /\ (\A y \in Socks \ {z} : sync'[y] = sync[y]) /\ sync'[z] = NoSync
      BY <1>9, OnSyncedEffect
    <2>2. messages' = messages
      BY <1>9, SyncBrings
    <2>3. CASE z = k
      BY <2>1, <2>3 DEF Even, NoSync
    <2>4. CASE z # k
      BY <1>0, <1>5, <2>1, <2>2, <2>4
    <2> QED
      BY <2>3, <2>4
  <1> QED
    BY <1>4, <1>6, <1>7, <1>8, <1>9, LongsStep

-----------------------------------------------------------------------------
(* The view: what keeps each part of it.                                   *)

FromFrames == \A i \in DOMAIN frames' : IsNotice(frames'[i]) => \E j \in DOMAIN frames : frames'[i] = frames[j]

LEMMA FromAdded ==
  ASSUME NEW f, Added(frames, frames', f), ~IsNotice(f)
  PROVE  FromFrames
  BY DEF FromFrames, Added

LEMMA FromTaken ==
  ASSUME Taken(frames, frames')
  PROVE  FromFrames
  BY DEF FromFrames, Taken

LEMMA SlidEnding ==
  ASSUME Slid(frames, frames'), NEW m
  PROVE  Ending(m)' <=> Ending(m)
  BY DEF Slid, Ending, IsEnd, Tells

LEMMA HeededKeep ==
  ASSUME IInv, Heeded, FromFrames, cur' = cur, \A m \in Turns : Busy(m) => Busy(m)'
  PROVE  Heeded'
  <1> SUFFICES ASSUME NEW i \in DOMAIN frames', IsNotice(frames[i])'
               PROVE  frames'[i].sid = cur' /\ Busy(frames[i].part.of)'
    BY DEF Heeded
  <1>1. PICK j \in DOMAIN frames : frames'[i] = frames[j]
    BY DEF FromFrames, IsNotice
  <1>2. frames[j].part.of \in Turns /\ frames[j].sid = cur /\ Busy(frames[j].part.of)
    BY <1>1, NoticeOfTurn DEF Heeded, IsNotice
  <1>3. PICK m \in Turns : m = frames[j].part.of
    BY <1>2
  <1>4. frames'[i].part.of = m /\ Busy(m)'
    BY <1>1, <1>2, <1>3
  <1> QED
    BY <1>1, <1>2, <1>4 DEF Busy, Working, Ending

LEMMA BubblesKeep ==
  ASSUME IInv, Bubbles, UNCHANGED <<messages, gen, bubble>>,
         \A m \in Turns : Busy(m) => Busy(m)',
         \A m \in Turns : Busy(m)' => Busy(m) \/ \A i \in DOMAIN messages : messages[i].turn = m => ~IsAnswer(messages[i])
  PROVE  Bubbles'
  <1>1. \A i \in DOMAIN messages : messages[i].turn \in Turns
    BY EntriesAt
  <1>2. bubble # NoBubble => bubble.turn \in Turns
    BY EntriesAt
  <1>3. ~gen' => bubble' = NoBubble
    BY DEF Bubbles
  <1>4. ASSUME bubble' # NoBubble
        PROVE  /\ Busy(bubble.turn)' /\ bubble'.text # <<>> /\ Len(messages') \in DOMAIN messages'
               /\ Grows(messages'[Len(messages')], bubble') /\ messages'[Len(messages')].text = bubble'.text
    <2>1. /\ Busy(bubble.turn) /\ bubble.text # <<>> /\ Len(messages) \in DOMAIN messages
          /\ Grows(messages[Len(messages)], bubble) /\ messages[Len(messages)].text = bubble.text
      BY <1>4 DEF Bubbles
    <2>2. PICK m \in Turns : m = bubble.turn
      BY <1>2, <1>4
    <2>3. Busy(m)' /\ bubble'.turn = m
      BY <2>1, <2>2
    <2> QED
      BY <2>1, <2>3 DEF Busy, Working, Ending
  <1>5. \A i \in DOMAIN messages' : Grows(messages'[i], bubble') => i = Len(messages')
    BY DEF Bubbles
  <1>6. ASSUME bubble' = NoBubble, NEW i \in DOMAIN messages', IsAnswer(messages'[i]), Busy(messages[i].turn)'
        PROVE  FALSE
    <2>1. PICK m \in Turns : m = messages[i].turn
      BY <1>1, <1>6
    <2>2. messages'[i] = messages[i] /\ ~Busy(m)
      BY <1>6, <2>1 DEF Bubbles
    <2>3. Busy(m)'
      BY <1>6, <2>1, <2>2 DEF Busy, Working, Ending
    <2> QED
      BY <1>6, <2>1, <2>2, <2>3
  <1> QED
    BY <1>3, <1>4, <1>5, <1>6 DEF Bubbles, Grows, IsAnswer

LEMMA AskedKeep ==
  ASSUME Asked, messages' = messages, \A m \in Turns : Waits(m)' => Waits(m)
  PROVE  Asked'
  BY DEF Asked

LEMMA FlowsOutKeep ==
  ASSUME IInv, TypeOK', FlowsOut, Slid(frames, frames'), bubble' = bubble,
         \A m \in Turns : Working(m)' => Working(m) /\ answer'[m] = answer[m]
  PROVE  FlowsOut'
  <1> SUFFICES ASSUME NEW m \in Turns, Working(m)' PROVE Flow(answer'[m], bubble'.text, frames')
    BY DEF FlowsOut, Flow, Carries
  <1>1. Flow(answer[m], bubble.text, frames)
    BY DEF FlowsOut
  <1>2. frames \in Seq(FrameRecs) /\ frames' \in Seq(FrameRecs)
    BY EntriesAt DEF TypeOK, FrameRecs
  <1> QED
    BY <1>1, <1>2, FlowKeep

LEMMA FlowsEndKeep ==
  ASSUME IInv, TypeOK', FlowsEnd, Slid(frames, frames'), UNCHANGED <<cur, bubble, history>>
  PROVE  FlowsEnd'
  <1> SUFFICES ASSUME NEW m \in Turns, DoneComing(frames', m)
               PROVE  LET h == history'[cur'] IN
                      /\ Len(h) \in DOMAIN h /\ IsAnswer(h[Len(h)]) /\ h[Len(h)].turn = m
                      /\ Flow(h[Len(h)].text, bubble'.text, frames')
    BY DEF FlowsEnd, Flow, Carries, DoneComing, IsAnswer
  <1>1. PICK h : h = history[cur]
    OBVIOUS
  <1>2. DoneComing(frames, m)
    BY SlidDone
  <1>3. /\ Len(h) \in DOMAIN h /\ IsAnswer(h[Len(h)]) /\ h[Len(h)].turn = m
        /\ Flow(h[Len(h)].text, bubble.text, frames)
    BY <1>1, <1>2 DEF FlowsEnd
  <1>4. frames \in Seq(FrameRecs) /\ frames' \in Seq(FrameRecs)
    BY EntriesAt DEF TypeOK, FrameRecs
  <1>5. PICK T : T = h[Len(h)].text
    OBVIOUS
  <1>6. Flow(T, bubble.text, frames')
    BY <1>3, <1>4, <1>5, FlowKeep
  <1> QED
    BY <1>1, <1>3, <1>5, <1>6

LEMMA AgreesKeep ==
  ASSUME IInv, TypeOK', Agrees, Asides, SlidAsides(frames, frames'), UNCHANGED <<cur, messages, bubble, history>>,
         \A m \in Turns : Waits(m)' <=> Waits(m),
         \A m \in Turns : DoneComing(frames', m) <=> DoneComing(frames, m)
  PROVE  Agrees' /\ Asides'
  <1> SUFFICES ASSUME cur # None
               PROVE  /\ Agree(messages, Settled(messages, turn', bubble), history[cur], Stored(history[cur], frames'))
                      /\ InOrder(history[cur], frames')
    BY DEF Agrees, Asides
  <1>1. cur \in Sessions
    BY EntriesAt
  <1>2. \A i \in DOMAIN messages : turn'[messages[i].turn].pc = "sent" <=> turn[messages[i].turn].pc = "sent"
    BY EntriesAt DEF Waits
  <1>3. Settled(messages, turn', bubble) = Settled(messages, turn, bubble)
    BY <1>2 DEF Settled, Visible
  <1>4. \A j \in DOMAIN history[cur] : DoneComing(frames', history[cur][j].turn) <=> DoneComing(frames, history[cur][j].turn)
    BY <1>1, EntriesAt
  <1>5. Stored(history[cur], frames') = Stored(history[cur], frames)
    BY <1>4, AsidesBrought DEF Stored, Visible
  <1>6. InOrder(history[cur], frames')
    <2>1. frames \in Seq(FrameRecs) /\ frames' \in Seq(FrameRecs)
      BY EntriesAt DEF TypeOK, FrameRecs
    <2> QED
      BY <1>5, <2>1, InOrderKeep DEF Asides
  <1> QED
    BY <1>3, <1>5, <1>6 DEF Agrees

\* A step that changes none of it.
LEMMA ViewKeep ==
  ASSUME IInv, TypeOK', View, UNCHANGED <<cur, messages, gen, bubble, answer, history>>,
         Slid(frames, frames'), FromFrames,
         \A m \in Turns : (Waits(m)' <=> Waits(m)) /\ (Working(m)' <=> Working(m))
  PROVE  View'
  <1>1. \A m \in Turns : Busy(m)' <=> Busy(m)
    BY SlidEnding DEF Busy
  <1>2. \A m \in Turns : DoneComing(frames', m) <=> DoneComing(frames, m)
    BY SlidDone
  <1>3. Heeded' /\ Bubbles' /\ Asked'
    BY <1>1, HeededKeep, BubblesKeep, AskedKeep DEF View
  <1>4. FlowsOut' /\ FlowsEnd' /\ Agrees' /\ Asides'
    BY <1>2, SlidToo, FlowsOutKeep, FlowsEndKeep, AgreesKeep DEF View
  <1> QED
    BY <1>3, <1>4 DEF View

-----------------------------------------------------------------------------
(* A view without the mark is at rest.                                     *)

LEMMA Idle == IInv /\ Here /\ ~gen /\ bubble = NoBubble => Heeded /\ Bubbles /\ Asked /\ FlowsOut /\ FlowsEnd /\ Asides
  <1> SUFFICES ASSUME IInv, Here, ~gen, bubble = NoBubble PROVE Heeded /\ Bubbles /\ Asked /\ FlowsOut /\ FlowsEnd /\ Asides
    OBVIOUS
  <1>1. /\ \A m \in Turns : ~Waits(m) /\ ~Busy(m)
        /\ \A i \in DOMAIN frames : ~IsNotice(frames[i])
    BY UnderWay DEF IInv, Single, NoneOpen
  <1>2. Heeded /\ Asked /\ FlowsOut
    BY <1>1 DEF Heeded, Asked, FlowsOut, Busy
  <1>3. FlowsEnd
    BY <1>1, DoneEnding DEF FlowsEnd
  <1>4. \A i \in DOMAIN messages : messages[i].turn \in Turns /\ ~Grows(messages[i], bubble)
    BY EntriesAt
  <1>5. Bubbles
    BY <1>1, <1>4 DEF Bubbles
  <1>6. Asides
    BY <1>1, InOrderNone DEF Asides
  <1> QED
    BY <1>2, <1>3, <1>5, <1>6

LEMMA IdleNext == (IInv /\ Here /\ ~gen /\ bubble = NoBubble => Heeded /\ Bubbles /\ Asked /\ FlowsOut /\ FlowsEnd /\ Asides)'
  BY Idle, PTL

LEMMA IdleSets ==
  IInv /\ Here /\ ~gen /\ bubble = NoBubble =>
    /\ Settled(messages, turn, bubble) = Visible(messages)
    /\ cur \in Sessions => Stored(history[cur], frames) = Visible(history[cur])
  <1> SUFFICES ASSUME IInv, Here, ~gen, bubble = NoBubble
               PROVE  /\ Settled(messages, turn, bubble) = Visible(messages)
                      /\ cur \in Sessions => Stored(history[cur], frames) = Visible(history[cur])
    OBVIOUS
  <1>1. \A m \in Turns : ~Waits(m) /\ ~Busy(m)
    BY UnderWay
  <1>2. \A i \in DOMAIN messages : messages[i].turn \in Turns /\ ~Grows(messages[i], bubble)
    BY EntriesAt
  <1>3. Settled(messages, turn, bubble) = Visible(messages)
    BY <1>1, <1>2 DEF Settled, Visible, Waits
  <1>4. ASSUME cur \in Sessions PROVE Stored(history[cur], frames) = Visible(history[cur])
    <2>1. \A j \in DOMAIN history[cur] : history[cur][j].turn \in Turns
      BY <1>4, EntriesAt
    <2>2. \A m \in Turns : ~DoneComing(frames, m)
      BY <1>1, DoneEnding
    <2>3. \A i \in DOMAIN frames : ~IsNotice(frames[i])
      BY DEF IInv, Single, NoneOpen
    <2> QED
      BY <2>1, <2>2, <2>3, InOrderNone DEF Stored, Visible
  <1> QED
    BY <1>3, <1>4

LEMMA IdleSetsNext ==
  (IInv /\ Here /\ ~gen /\ bubble = NoBubble =>
    /\ Settled(messages, turn, bubble) = Visible(messages)
    /\ cur \in Sessions => Stored(history[cur], frames) = Visible(history[cur]))'
  BY IdleSets, PTL

-----------------------------------------------------------------------------
(* The view: the steps.                                                    *)

\* Requests, responses and syncs leave the view alone.
LEMMA StillView ==
  ASSUME IInv, Here, Clean, Clean', View, Synced, TypeOK',
         \/ UNCHANGED vars
         \/ (\E s \in Sessions : Select(s)) \/ Respond \/ Closing \/ OnClose \/ Reopen
         \/ ServeReply \/ (\E k \in Socks : SyncServed(k) \/ OnSynced(k)) \/ OnAnswered \/ OnAsk
         \/ Serve /\ history' = history
  PROVE  View'
  <1>0. frames \in Seq(FrameRecs)
    BY EntriesAt
  <1>1. ASSUME UNCHANGED <<cur, messages, gen, bubble, turn, answer, history, frames>> PROVE View'
    <2>1. Slid(frames, frames') /\ FromFrames
      BY <1>0, <1>1, SlidSame DEF FromFrames
    <2> QED
      BY <1>1, <2>1, ViewKeep DEF Waits, Working
  <1>2. CASE UNCHANGED vars
    BY <1>1, <1>2 DEF vars, viewVars, wireVars, serverVars
  <1>3. CASE (\E s \in Sessions : Select(s)) \/ Respond \/ OnClose \/ Reopen \/ \E k \in Socks : SyncServed(k)
    BY <1>1, <1>3, SelectEffect, RespondEffect, OnCloseEffect, ReopenEffect, SyncServedEffect
  <1>4. ASSUME NEW k \in Socks, OnSynced(k) PROVE View'
    BY <1>1, <1>4, OnSyncedEffect, SyncBrings
  <1>5. CASE Closing
    <2>1. UNCHANGED <<cur, messages, gen, bubble, turn, answer, history>> /\ frames' = <<>> /\ (gen => "untold" \in trouble')
      BY <1>5, ClosingEffect
    <2>2. ~gen
      BY <2>1 DEF Clean
    <2>3. \A i \in DOMAIN frames : ~IsNotice(frames[i])
      BY <2>2 DEF IInv, Single, NoneOpen
    <2>4. DOMAIN frames' = {}
      BY <2>1
    <2>5. Slid(frames, frames') /\ FromFrames
      BY <2>3, <2>4, SlidNone DEF FromFrames, Tells, IsNotice
    <2> QED
      BY <2>1, <2>5, ViewKeep DEF Waits, Working
  <1>6. CASE ServeReply
    <2>1. PICK f \in FrameRecs : Added(frames, frames', f) /\ f.kind \in {"attached", "answered"}
      BY <1>6, ServeReplyEffect
    <2>2. UNCHANGED <<cur, messages, gen, bubble, turn, answer, history>>
      BY <1>6, ServeReplyEffect
    <2>3. Slid(frames, frames') /\ FromFrames
      BY <2>1, SlidAdded, FromAdded DEF Tells, IsNotice
    <2> QED
      BY <2>2, <2>3, ViewKeep DEF Waits, Working
  <1>7. CASE OnAnswered \/ OnAsk
    <2>1. /\ UNCHANGED <<cur, messages, gen, bubble, turn, answer, history>>
          /\ Taken(frames, frames') /\ frames[1].kind \in {"answered", "ask"}
      BY <1>7, OnAnsweredEffect, OnAskEffect
    <2>2. Slid(frames, frames') /\ FromFrames
      BY <2>1, SlidTaken, FromTaken DEF Tells
    <2> QED
      BY <2>1, <2>2, ViewKeep DEF Waits, Working
  <1>8. CASE Serve /\ history' = history
    <2>1. UNCHANGED <<cur, messages, gen, bubble, answer, frames, history>>
      BY <1>8, ServeEffect
    <2>2. turn' = turn \/ \E m \in Turns : turn[m].pc = "ask" /\ Moved(turn, turn', m, "run")
      <3>1. CASE reqs[1].kind = "message"
        <4>1. PICK r : r = reqs[1]
          OBVIOUS
        <4>2. /\ r \in ReqRecs /\ r.turn \in Turns
              /\ Logged(history, history', r.sid, Entry("server", "user", r.turn, <<>>))
          BY <1>8, <3>1, <4>1, ServeEffect
        <4>3. r.sid \in Sessions
          BY <4>2 DEF ReqRecs
        <4>4. PICK q : q = history[r.sid]
          OBVIOUS
        <4>5. Len(q) \in Nat /\ DOMAIN q = 1 .. Len(q) /\ Len(q) + 1 \in DOMAIN q
          BY <1>8, <4>2, <4>4 DEF Logged, Added
        <4> QED
          BY <4>5
      <3>2. CASE reqs[1].kind # "message"
        BY <1>8, <3>2, ServeEffect
      <3> QED
        BY <3>1, <3>2
    <2>3. \A m \in Turns : (Waits(m)' <=> Waits(m)) /\ (Working(m)' <=> Working(m))
      BY <2>2 DEF Moved, Waits, Working
    <2>4. Slid(frames, frames') /\ FromFrames
      BY <1>0, <2>1, SlidSame DEF FromFrames
    <2> QED
      BY <2>1, <2>3, <2>4, ViewKeep
  <1> QED
    BY <1>2, <1>3, <1>4, <1>5, <1>6, <1>7, <1>8

\* Logging out forgets the session; nothing else may be left of a view.
LEMMA LogoutView ==
  ASSUME IInv, IInv', Here', Clean', Clean, View, Logout
  PROVE  View'
  <1>1. cur' = None /\ gen' = gen /\ bubble' = bubble /\ (gen => "untold" \in trouble')
    BY LogoutEffect
  <1>2. ~gen
    BY <1>1 DEF Clean
  <1>3. bubble = NoBubble
    BY <1>2 DEF View, Bubbles
  <1>4. ~gen' /\ bubble' = NoBubble
    BY <1>1, <1>2, <1>3 DEF NoBubble
  <1>5. Heeded' /\ Bubbles' /\ Asked' /\ FlowsOut' /\ FlowsEnd' /\ Asides'
    BY <1>4, IdleNext DEF NoBubble
  <1> QED
    BY <1>1, <1>5 DEF View, Agrees

\* Attaching takes the history as it is.
LEMMA OnAttachedView ==
  ASSUME IInv, IInv', Here', Clean, Clean', Fetched, Once, View, OnAttached
  PROVE  View'
  <1>1. PICK s \in Sessions : s = frames[1].sid
    BY OnAttachedEffect
  <1>2. /\ 1 \in DOMAIN frames /\ frames[1].kind = "attached"
        /\ UNCHANGED <<gen, bubble, history>> /\ cur' = s /\ messages' = frames[1].list
    BY <1>1, OnAttachedEffect DEF Taken
  <1>3. ~gen
    <2>1. Attaching
      BY <1>2, AttachingAt
    <2> QED
      BY <2>1, CleanOnes DEF IInv, Stays, StaysMarked
  <1>4. bubble' = NoBubble /\ ~gen'
    BY <1>2, <1>3 DEF View, Bubbles
  <1>5. Heeded' /\ Bubbles' /\ Asked' /\ FlowsOut' /\ FlowsEnd' /\ Asides'
    BY <1>4, IdleNext DEF NoBubble
  <1>6. messages' = history[s]
    BY <1>1, <1>2 DEF Fetched
  <1>7. PICK q : q = history[s]
    OBVIOUS
  <1>8. Settled(messages', turn', bubble') = Visible(q) /\ Stored(history'[cur'], frames') = Visible(q)
    BY <1>2, <1>4, <1>6, <1>7, IdleSetsNext DEF NoBubble
  <1>9. Agree(q, Visible(q), q, Visible(q))
    <2>1. \A i, j \in Visible(q) : Alike(q[i], q[j]) => i = j
      BY <1>7 DEF Once, Visible
    <2> QED
      BY <2>1, AgreeSelf
  <1>10. Agree(messages', Settled(messages', turn', bubble'), history'[cur'], Stored(history'[cur'], frames'))
    BY <1>2, <1>6, <1>7, <1>8, <1>9
  <1> QED
    BY <1>5, <1>10 DEF View, Agrees, Agree, Settled, Stored, Visible, Same, Grows, DoneComing, IsAnswer, Brought, Brings, IsSystem

\* A message waits behind all that is settled.
LEMMA SendView ==
  ASSUME IInv, IInv', Here, Here', Clean, Clean', View, NEW m \in Turns, Send(m)
  PROVE  View'
  <1>1. /\ cur \in Sessions /\ ~gen /\ turn[m].pc = "new" /\ turn'[m].pc = "sent" /\ gen' = TRUE
        /\ Added(messages, messages', Entry("client", "user", m, <<>>))
        /\ \A h \in Turns \ {m} : turn'[h] = turn[h]
        /\ UNCHANGED <<cur, bubble, frames, answer, history>>
    BY SendEffect
  <1>2. bubble = NoBubble
    BY <1>1 DEF View, Bubbles
  <1>3. /\ \A h \in Turns : ~Waits(h) /\ ~Busy(h)
        /\ \A i \in DOMAIN frames : ~IsNotice(frames[i])
    BY <1>1, UnderWay DEF IInv, Single, NoneOpen
  <1>4. \A h \in Turns : (Waits(h)' => h = m) /\ ~Working(h)' /\ ~Busy(h)'
    <2>1. \A h \in Turns : (Waits(h)' => h = m) /\ ~Working(h)'
      BY <1>1, <1>3 DEF Waits, Working, Busy
    <2>2. \A h \in Turns : ~Ending(h)'
      BY <1>1, <1>3 DEF Ending, IsEnd, IsNotice
    <2> QED
      BY <2>1, <2>2 DEF Busy
  <1>5. Heeded'
    BY <1>1, <1>3 DEF Heeded, IsNotice
  <1>6. messages \in Seq(Entries) /\ messages' \in Seq(Entries)
    BY EntriesAt DEF IInv, TypeOK
  <1>n. PICK n \in Nat : n = Len(messages)
    BY <1>6
  <1>7. /\ n = Len(messages) /\ DOMAIN messages = 1 .. n /\ DOMAIN messages' = 1 .. n + 1
        /\ Len(messages') = n + 1 /\ messages'[n + 1] = Entry("client", "user", m, <<>>)
        /\ \A i \in 1 .. n : messages'[i] = messages[i]
    <2>1. Len(messages') = n + 1
      BY <1>1, <1>6, <1>n, AddedLen
    <2> QED
      BY <1>1, <1>n, <2>1 DEF Added
  <1>8. \A i \in DOMAIN messages : messages[i].turn # m /\ messages[i].turn \in Turns /\ ~Grows(messages[i], NoBubble)
    <2>1. \A i \in DOMAIN messages : OfSession(turn, messages[i], cur)
      BY CleanOnes DEF IInv, Mine
    <2> QED
      BY <1>1, <2>1, EntriesAt DEF OfSession
  <1>9. Asked'
    <2>1. \A i \in DOMAIN messages' : messages'[i].turn = m => i = n + 1
      BY <1>7, <1>8
    <2> QED
      BY <1>4, <1>7, <2>1 DEF Asked
  <1>10. \A i \in DOMAIN messages' : ~Grows(messages'[i], NoBubble) /\ messages'[i].turn \in Turns
    <2>1. ASSUME NEW i \in DOMAIN messages' PROVE ~Grows(messages'[i], NoBubble) /\ messages'[i].turn \in Turns
      <3>1. CASE i = n + 1
        BY <1>7, <3>1 DEF Grows, Entry
      <3>2. CASE i # n + 1
        BY <1>7, <1>8, <2>1, <3>2
      <3> QED
        BY <3>1, <3>2
    <2> QED
      BY <2>1
  <1>11. Bubbles'
    <2>1. \A i \in DOMAIN messages' : ~Busy(messages[i].turn)'
      <3> SUFFICES ASSUME NEW i \in DOMAIN messages' PROVE ~Busy(messages[i].turn)'
        OBVIOUS
      <3>1. PICK h \in Turns : h = messages'[i].turn
        BY <1>10
      <3>2. ~Busy(h)'
        BY <1>4
      <3> QED
        BY <3>1, <3>2 DEF Busy, Working, Ending
    <2>2. bubble' = NoBubble /\ gen'
      BY <1>1, <1>2
    <2> QED
      BY <1>10, <2>1, <2>2 DEF Bubbles, NoBubble, Grows
  <1>12. FlowsOut'
    BY <1>4 DEF FlowsOut
  <1>13. FlowsEnd'
    <2>1. \A h \in Turns : ~DoneComing(frames', h)
      BY <1>1, <1>3 DEF DoneComing, IsNotice
    <2> QED
      BY <2>1 DEF FlowsEnd, DoneComing
  <1>14. Agrees'
    <2>1. Settled(messages', turn', NoBubble) = Settled(messages, turn, NoBubble)
      <3>1. \A i \in 1 .. n : messages'[i] = messages[i] /\ turn'[messages[i].turn] = turn[messages[i].turn]
        BY <1>1, <1>7, <1>8
      <3>2. turn'[messages'[n + 1].turn].pc = "sent"
        BY <1>1, <1>7 DEF Entry
      <3>3. \A i \in DOMAIN messages' : i \in DOMAIN messages \/ i = n + 1
        BY <1>7
      <3>4. \A i \in DOMAIN messages : i \in 1 .. n /\ i \in DOMAIN messages'
        BY <1>7
      <3>5. \A i : i \in Settled(messages', turn', NoBubble) <=> i \in Settled(messages, turn, NoBubble)
        BY <3>1, <3>2, <3>3, <3>4 DEF Settled, Visible
      <3> QED
        BY <3>5
    <2>2. Agree(messages, Settled(messages, turn, NoBubble), history[cur], Stored(history[cur], frames))
      BY <1>1, <1>2, NoneFresh DEF View, Agrees
    <2>3. \A i \in Settled(messages, turn, NoBubble) : Same(messages'[i], messages[i])
      BY <1>7 DEF Settled, Visible, Same
    <2>4. Agree(messages', Settled(messages, turn, NoBubble), history[cur], Stored(history[cur], frames))
      BY <2>2, <2>3, AgreeKeep DEF Same
    <2>5. Agree(messages', Settled(messages', turn', bubble'), history'[cur'], Stored(history'[cur'], frames'))
      BY <1>1, <1>2, <2>1, <2>4 DEF NoBubble
    <2> QED
      BY <2>5 DEF Agrees, Agree, Settled, Stored, Visible, Same, Grows, DoneComing, IsAnswer, Brought, Brings, IsSystem
  <1>15. Asides'
    BY <1>1, <1>3, InOrderNone DEF Asides
  <1> QED
    BY <1>5, <1>9, <1>11, <1>12, <1>13, <1>14, <1>15 DEF View

\* As the turn begins its message is stored, as the last one of both.
LEMMA ServeView ==
  ASSUME IInv, IInv', Here, Here', Clean, Clean', Once', Numbered, View, Serve, history' # history
  PROVE  View'
  <1>0. PICK r : r = reqs[1]
    OBVIOUS
  <1>1. /\ r \in ReqRecs /\ r.turn \in Turns /\ turn[r.turn].pc = "sent" /\ Moved(turn, turn', r.turn, "run")
        /\ Logged(history, history', r.sid, Entry("server", "user", r.turn, <<>>))
        /\ UNCHANGED <<cur, messages, gen, bubble, frames, answer>>
        /\ 1 \in DOMAIN reqs /\ r.kind = "message"
    BY <1>0, ServeEffect DEF Taken
  <1>2. PICK m \in Turns : m = r.turn
    BY <1>1
  <1>3. Waits(m) /\ turn[m].sid = cur /\ cur \in Sessions /\ r.sid = cur
    <2>1. Waits(m)
      BY <1>1, <1>2 DEF Waits
    <2>2. r.sid = turn[m].sid
      BY <1>0, <1>1, <1>2 DEF IInv, Wire, WireReqs
    <2> QED
      BY <2>1, <2>2, UnderWayHere
  <1>4. /\ \A h \in Turns : Waits(h) \/ Busy(h) => h = m
        /\ \A h \in Turns : ~Busy(h) /\ ~Working(h)
    <2>1. \A h \in Turns : Waits(h) \/ Busy(h) => h = m
      BY <1>3, UnderWay
    <2>2. \A h \in Turns : ~Busy(h)
      BY <1>3, <2>1, UnderWay
    <2> QED
      BY <2>1, <2>2 DEF Busy
  <1>5. \A i \in DOMAIN frames : ~IsNotice(frames[i])
    BY <1>4, NoticeBusy DEF View
  <1>6. Heeded'
    BY <1>1, <1>5 DEF Heeded, IsNotice
  <1>7. bubble = NoBubble
    BY <1>4, EntriesAt DEF View, Bubbles
  <1>8. /\ Len(messages) \in DOMAIN messages /\ messages[Len(messages)] = Entry("client", "user", m, <<>>)
        /\ \A i \in DOMAIN messages : messages[i].turn = m => i = Len(messages)
    BY <1>3 DEF View, Asked
  <1>9. Bubbles'
    <2>1. \A i \in DOMAIN messages : messages[i].turn = m => ~IsAnswer(messages[i])
      BY <1>8 DEF IsAnswer, Entry
    <2>2. \A h \in Turns : Busy(h)' => h = m
      <3>1. \A h \in Turns : ~Ending(h)'
        BY <1>1, <1>5 DEF Ending, IsEnd, IsNotice
      <3>2. \A h \in Turns : Working(h)' => h = m
        BY <1>1, <1>2, <1>4 DEF Moved, Working
      <3> QED
        BY <3>1, <3>2 DEF Busy
    <2>3. /\ \A h \in Turns : Busy(h) => Busy(h)'
          /\ \A h \in Turns : Busy(h)' => Busy(h) \/ \A i \in DOMAIN messages : messages[i].turn = h => ~IsAnswer(messages[i])
      BY <1>4, <2>1, <2>2
    <2> QED
      BY <1>1, <2>3, BubblesKeep DEF View
  <1>10. \A h \in Turns : ~Waits(h)'
    BY <1>1, <1>2, <1>4 DEF Moved, Waits
  <1>11. Asked'
    BY <1>10 DEF Asked
  <1>12. FlowsOut'
    <2> SUFFICES ASSUME NEW h \in Turns, Working(h)' PROVE Flow(answer'[h], bubble'.text, frames')
      BY DEF FlowsOut, Flow, Carries
    <2>1. h = m
      BY <1>1, <1>2, <1>4 DEF Moved, Working
    <2>2. answer'[h] = <<>> /\ bubble'.text = <<>>
      BY <1>1, <1>2, <1>7, <2>1 DEF Numbered, NoBubble
    <2>3. \A i \in DOMAIN frames' : ~Carries(frames'[i])
      BY <1>1, <1>5 DEF Carries, IsNotice
    <2>4. DOMAIN <<>> = {} /\ Len(<<>>) = 0
      OBVIOUS
    <2>5. Flow(<<>>, <<>>, frames')
      BY <2>3, <2>4 DEF Flow
    <2> QED
      BY <2>2, <2>5
  <1>13. \A h : ~DoneComing(frames, h)
    BY <1>5 DEF DoneComing, IsNotice
  <1>14. FlowsEnd'
    BY <1>1, <1>13 DEF FlowsEnd, DoneComing
  <1>15. Agrees'
    <2>0. PICK q : q = history[cur]
      OBVIOUS
    <2>p. PICK p : p = history'[cur]
      OBVIOUS
    <2>l. Len(messages) \in Nat /\ Len(q) \in Nat
      BY <1>3, <2>0, EntriesAt
    <2>a. PICK a \in Nat : a = Len(messages)
      BY <2>l
    <2>b. PICK b \in Nat : b = Len(q) + 1
      BY <2>l
    <2>1. a = Len(messages) /\ b = Len(q) + 1 /\ b - 1 = Len(q) /\ q = history[cur] /\ p = history'[cur]
      BY <2>0, <2>p, <2>a, <2>b, <2>l
    <2>2. Added(q, p, Entry("server", "user", m, <<>>))
      BY <1>1, <1>2, <1>3, <2>1 DEF Logged
    <2>3. /\ DOMAIN q = 1 .. b - 1 /\ DOMAIN p = 1 .. b /\ p[b] = Entry("server", "user", m, <<>>)
          /\ \A j \in 1 .. b - 1 : p[j] = q[j]
      BY <2>1, <2>2 DEF Added
    <2>4. Stored(p, frames) = Stored(q, frames) \cup {b}
      <3>1. p[b].role = "user"
        BY <2>3 DEF Entry
      <3>2. \A j : j \in Stored(p, frames) <=> j \in Stored(q, frames) \/ j = b
        <4>1. \A e : ~Brought(frames, e)
          BY <1>5, InOrderNone
        <4>2. \A j \in DOMAIN p : (j \in DOMAIN q /\ p[j] = q[j]) \/ j = b
          BY <2>3
        <4>3. \A j \in DOMAIN q : j \in DOMAIN p /\ p[j] = q[j]
          BY <2>3
        <4>4. b \in DOMAIN p
          BY <2>1, <2>2 DEF Added
        <4> QED
          <5>1. b \in Stored(p, frames)
            BY <3>1, <4>1, <4>4 DEF Stored, Visible, IsAnswer
          <5>2. Stored(q, frames) \subseteq DOMAIN q /\ Stored(p, frames) \subseteq DOMAIN p
            BY DEF Stored, Visible
          <5>3. ASSUME NEW j \in DOMAIN q
                PROVE  j \in Stored(p, frames) <=> j \in Stored(q, frames)
            BY <1>13, <4>1, <4>3, <5>3 DEF Stored, Visible
          <5> QED
            BY <4>2, <5>1, <5>2, <5>3
      <3> QED
        BY <3>2
    <2>5. \A i \in DOMAIN messages : messages[i].turn \in Turns /\ ~Grows(messages[i], NoBubble) /\ i \in Nat /\ i <= a
      BY <2>1, EntriesAt
    <2>6. Settled(messages, turn', bubble) = Settled(messages, turn, bubble) \cup {a}
      <3>1. a \in DOMAIN messages /\ messages[a].role = "user" /\ messages[a].turn = m
        BY <1>8, <2>1 DEF Entry
      <3>2. turn'[m].pc = "run" /\ turn[m].pc = "sent"
        BY <1>1, <1>2 DEF Moved
      <3>3. \A i \in DOMAIN messages : i # a => turn'[messages[i].turn] = turn[messages[i].turn]
        BY <1>1, <1>2, <1>8, <2>1, <2>5 DEF Moved
      <3>4. \A i : i \in Settled(messages, turn', bubble) <=> i \in Settled(messages, turn, bubble) \/ i = a
        BY <1>7, <2>5, <3>1, <3>2, <3>3 DEF Settled, Visible
      <3> QED
        BY <3>4
    <2>7. a \notin Settled(messages, turn, bubble)
      BY <1>1, <1>2, <1>8, <2>1 DEF Settled, Entry
    <2>8. Agree(messages, Settled(messages, turn, bubble), q, Stored(q, frames))
      BY <1>3, <2>1, NoneFresh DEF View, Agrees
    <2>9. /\ Settled(messages, turn, bubble) \in SUBSET Nat
          /\ \A i \in Settled(messages, turn, bubble) : i < a
      BY <2>1, <2>5, <2>7 DEF Settled, Visible
    <2>10. /\ Stored(q, frames) \in SUBSET Nat
           /\ \A j \in Stored(q, frames) : j < b /\ p[j] = q[j]
      BY <2>3 DEF Stored, Visible
    <2>11. Same(messages[a], p[b])
      BY <1>8, <2>1, <2>3 DEF Same, Entry
    <2>12. \A j \in Stored(q, frames) : ~Alike(p[j], p[b])
      <3>1. \A i, j \in DOMAIN p : Alike(p[j], p[i]) => j = i
        BY <1>3, <2>1 DEF Once, Alike, IsSystem
      <3>2. Stored(q, frames) \subseteq DOMAIN p /\ b \in DOMAIN p
        BY <2>1, <2>3 DEF Stored, Visible
      <3> QED
        BY <2>10, <3>1, <3>2
    <2>13. Agree(messages, Settled(messages, turn, bubble) \cup {a}, p, Stored(q, frames) \cup {b})
      BY <2>8, <2>9, <2>10, <2>11, <2>12, AgreeMore
    <2>14. Agree(messages', Settled(messages', turn', bubble'), history'[cur'], Stored(history'[cur'], frames'))
      BY <1>1, <2>1, <2>4, <2>6, <2>13
    <2> QED
      BY <2>14 DEF Agrees, Agree, Settled, Stored, Visible, Same, Grows, DoneComing, IsAnswer, Brought, Brings, IsSystem
  <1>16. Asides'
    BY <1>1, <1>5, InOrderNone DEF Asides
  <1> QED
    BY <1>6, <1>9, <1>11, <1>12, <1>14, <1>15, <1>16 DEF View

\* A frame of the turn under way is heeded as well.
LEMMA HeededMore ==
  ASSUME IInv, Here, Heeded, cur' = cur, NEW m \in Turns, Busy(m), NEW f, Added(frames, frames', f),
         f.sid = cur, f.part.of = m, \A h \in Turns : Busy(h) => Busy(h)'
  PROVE  Heeded'
  <1> SUFFICES ASSUME NEW i \in DOMAIN frames', IsNotice(frames[i])'
               PROVE  frames'[i].sid = cur' /\ Busy(frames[i].part.of)'
    BY DEF Heeded
  <1>1. PICK h \in Turns : h = frames'[i].part.of /\ frames'[i].sid = cur /\ Busy(h)
    <2>1. CASE frames'[i] = f
      BY <2>1
    <2>2. CASE i \in DOMAIN frames /\ frames'[i] = frames[i]
      <3>1. IsNotice(frames[i])
        BY <2>2 DEF IsNotice
      <3> QED
        BY <2>2, <3>1, NoticeBusy
    <2> QED
      BY <2>1, <2>2 DEF Added
  <1>2. Busy(h)'
    BY <1>1
  <1> QED
    BY <1>1, <1>2 DEF Busy, Working, Ending

\* What is produced grows the answer, and a frame brings it.
LEMMA ProduceView ==
  ASSUME IInv, IInv', Here, Clean, View, Numbered, NEW m \in Turns, NEW kind \in {"text", "tool", "ask"},
         Produce(m, kind)
  PROVE  View'
  <1>p. PICK f : f = Frame(kind, turn[m].sid, Part(m, turn[m].events + 1), <<>>, FALSE)
    OBVIOUS
  <1>1. Working(m) /\ Sees(m) /\ turn[m].sid = cur
    <2>1. Working(m)
      BY ProduceEffect DEF Working
    <2> QED
      BY <2>1, UnderWayHere
  <1>2. /\ Added(frames, frames', f)
        /\ UNCHANGED <<cur, messages, gen, bubble, history>>
    BY <1>p, <1>1, ProduceEffect
  <1>3. f.kind = kind /\ f.sid = cur /\ f.part = Part(m, turn[m].events + 1) /\ f.part.of = m
    BY <1>p, <1>1 DEF Frame, Part
  <1>4. \A h \in Turns : (Waits(h)' <=> Waits(h)) /\ (Working(h)' <=> Working(h))
    BY ProduceEffect DEF Waits, Working
  <1>5. \A h \in Turns : (DoneComing(frames', h) <=> DoneComing(frames, h)) /\ (Ending(h)' <=> Ending(h))
    BY <1>2, <1>3 DEF Added, DoneComing, Ending, IsEnd
  <1>6. \A h \in Turns : Busy(h)' <=> Busy(h)
    BY <1>4, <1>5 DEF Busy
  <1>7. Heeded'
    BY <1>1, <1>2, <1>3, <1>6, HeededMore DEF View, Busy
  <1>s. SlidAsides(frames, frames') /\ TypeOK'
    BY <1>2, <1>3, AsidesAdded DEF IInv
  <1>8. Bubbles' /\ Asked' /\ Agrees' /\ Asides'
    BY <1>2, <1>4, <1>5, <1>6, <1>s, BubblesKeep, AskedKeep, AgreesKeep DEF View
  <1>9. FlowsOut'
    <2> SUFFICES ASSUME NEW h \in Turns, Working(h)' PROVE Flow(answer'[h], bubble'.text, frames')
      BY DEF FlowsOut, Flow, Carries
    <2>1. h = m
      BY <1>1, <1>4, UnderWay DEF Busy
    <2>2. Flow(answer[m], bubble.text, frames)
      BY <1>1 DEF View, FlowsOut
    <2>3. /\ frames \in Seq(FrameRecs) /\ frames' \in Seq(FrameRecs) /\ bubble.text \in Seq(Parts)
          /\ answer[m] \in Seq(Parts) /\ answer'[m] \in Seq(Parts)
      BY EntriesAt DEF IInv, TypeOK, FrameRecs
    <2>4. CASE kind = "ask"
      BY <1>2, <1>3, <2>1, <2>2, <2>3, <2>4, ProduceEffect, SlidAdded, FlowKeep DEF Tells
    <2>5. CASE kind # "ask"
      <3>1. Added(answer[m], answer'[m], f.part) /\ Carries(f)
        BY <1>3, <2>5, ProduceEffect DEF Carries
      <3>2. turn[m].events \in Nat
        BY EntriesAt DEF TurnRecs
      <3>3. f.part \in Parts
        BY <1>3, <3>2 DEF Parts, Part
      <3>4. \A i \in DOMAIN answer[m] : answer[m][i] \in Parts
        BY <2>3, ElementAt
      <3>5. \A i \in DOMAIN answer[m] : answer[m][i].nr < f.part.nr
        BY <1>3, <3>2, <3>4 DEF Numbered, Part, Parts
      <3>6. Flow(answer'[m], bubble.text, frames')
        BY <1>2, <2>2, <2>3, <3>1, <3>3, <3>5, FlowGrows
      <3> QED
        BY <1>2, <2>1, <3>6
    <2> QED
      BY <2>4, <2>5
  <1>10. ASSUME NEW h \in Turns, DoneComing(frames', h) PROVE FALSE
    <2>1. Ending(h) /\ Busy(h)
      BY <1>5, <1>10, DoneEnding
    <2> QED
      BY <1>1, <2>1, UnderWay DEF Busy
  <1>11. FlowsEnd'
    BY <1>10 DEF FlowsEnd, DoneComing
  <1> QED
    BY <1>7, <1>8, <1>9, <1>11 DEF View

\* A frame without a part brings nothing of an answer.
LEMMA FlowStill ==
  ASSUME NEW T, NEW q, NEW fs, NEW gs, NEW f, Flow(T, q, fs), Added(fs, gs, f), ~Carries(f)
  PROVE  Flow(T, q, gs)
  <1>1. \A i \in DOMAIN gs : Carries(gs[i]) => i \in DOMAIN fs /\ gs[i] = fs[i]
    BY DEF Added
  <1>2. \A i \in DOMAIN fs : i \in DOMAIN gs /\ gs[i] = fs[i]
    BY DEF Added
  <1>3. \A i \in DOMAIN gs : Carries(gs[i]) => \E p \in DOMAIN T : p > Len(q) /\ gs[i].part = T[p]
    BY <1>1 DEF Flow
  <1>4. \A p \in DOMAIN T : p > Len(q) => \E i \in DOMAIN gs : Carries(gs[i]) /\ gs[i].part = T[p]
    BY <1>2 DEF Flow
  <1>5. \A i, j \in DOMAIN gs : i < j /\ Carries(gs[i]) /\ Carries(gs[j]) => gs[i].part.nr < gs[j].part.nr
    BY <1>1 DEF Flow
  <1> QED
    BY <1>3, <1>4, <1>5 DEF Flow

\* A turn at its end: its frame is the last one, nothing is under way but it.
LEMMA EndView ==
  ASSUME IInv, IInv', Here, Clean, View, NEW m \in Turns, turn[m].pc = "run", Moved(turn, turn', m, "over"),
         NEW kind \in {"done", "error"}, NEW f, f = Frame(kind, turn[m].sid, Part(m, 0), <<>>, FALSE),
         Sees(m) => Added(frames, frames', f), UNCHANGED <<cur, messages, gen, bubble>>
  PROVE  /\ cur \in Sessions /\ turn[m].sid = cur /\ Added(frames, frames', f) /\ ~Carries(f)
         /\ SlidAsides(frames, frames') /\ Flow(answer[m], bubble.text, frames')
         /\ \A h : ~DoneComing(frames, h)
         /\ \A h : DoneComing(frames', h) <=> kind = "done" /\ h = m
         /\ \A h \in Turns : (Waits(h)' <=> Waits(h)) /\ ~Working(h)'
         /\ Heeded' /\ Bubbles' /\ Asked'
  <1>1. Working(m) /\ Sees(m) /\ turn[m].sid = cur /\ cur \in Sessions
    <2>1. Working(m)
      BY DEF Working
    <2> QED
      BY <2>1, UnderWayHere
  <1>2. Added(frames, frames', f)
    BY <1>1
  <1>3. f.kind = kind /\ f.sid = cur /\ f.part.of = m /\ IsEnd(f) /\ ~Carries(f)
    BY <1>1 DEF Frame, Part, IsEnd, Carries
  <1>4. \A h \in Turns : Waits(h) \/ Busy(h) => h = m
    BY <1>1, UnderWay DEF Busy
  <1>5. ASSUME NEW i \in DOMAIN frames, IsEnd(frames[i]) PROVE FALSE
    <2>1. PICK h \in Turns : h = frames[i].part.of
      BY <1>5, NoticeOfTurn DEF IsNotice, IsEnd
    <2>2. Ending(h)
      BY <1>5, <2>1 DEF Ending
    <2> QED
      BY <1>1, <1>4, <2>2, UnderWay DEF Busy
  <1>6. \A h : ~DoneComing(frames, h)
    BY <1>5 DEF DoneComing, IsEnd
  <1>7. \A h : DoneComing(frames', h) <=> kind = "done" /\ h = m
    BY <1>2, <1>3, <1>6 DEF DoneComing, Added
  <1>8. \A h \in Turns : (Waits(h)' <=> Waits(h)) /\ ~Working(h)'
    BY <1>1, <1>4 DEF Moved, Waits, Working, Busy
  <1>9. \A h \in Turns : Busy(h)' <=> h = m
    <2>1. Ending(m)'
      BY <1>2, <1>3 DEF Ending, Added
    <2>2. ASSUME NEW h \in Turns, Ending(h)' PROVE h = m
      BY <1>2, <1>3, <1>5, <2>2 DEF Ending, Added
    <2> QED
      BY <1>8, <2>1, <2>2 DEF Busy
  <1>10. \A h \in Turns : Busy(h)' <=> Busy(h)
    BY <1>1, <1>4, <1>9 DEF Busy
  <1>11. Heeded'
    BY <1>1, <1>2, <1>3, <1>10, HeededMore DEF View, Busy
  <1>12. Bubbles' /\ Asked'
    BY <1>8, <1>10, BubblesKeep, AskedKeep DEF View
  <1>13. Flow(answer[m], bubble.text, frames')
    <2>1. Flow(answer[m], bubble.text, frames)
      BY <1>1 DEF View, FlowsOut
    <2> QED
      BY <1>2, <1>3, <2>1, FlowStill
  <1>14. SlidAsides(frames, frames')
    BY <1>2, <1>3, AsidesAdded
  <1> QED
    BY <1>1, <1>2, <1>3, <1>6, <1>7, <1>8, <1>11, <1>12, <1>13, <1>14

LEMMA ErrorView ==
  ASSUME IInv, IInv', Here, Clean, View, NEW m \in Turns, Error(m)
  PROVE  View'
  <1>p. PICK f : f = Frame("error", turn[m].sid, Part(m, 0), <<>>, FALSE)
    OBVIOUS
  <1>1. /\ turn[m].pc = "run" /\ Moved(turn, turn', m, "over") /\ (Sees(m) => Added(frames, frames', f))
        /\ UNCHANGED <<cur, messages, gen, bubble, history>>
    BY <1>p, ErrorEffect
  <1>2. /\ \A h : ~DoneComing(frames, h) /\ ~DoneComing(frames', h)
        /\ \A h \in Turns : (Waits(h)' <=> Waits(h)) /\ ~Working(h)'
        /\ Heeded' /\ Bubbles' /\ Asked' /\ SlidAsides(frames, frames') /\ TypeOK'
    BY <1>p, <1>1, EndView DEF IInv
  <1>3. Agrees' /\ Asides'
    BY <1>1, <1>2, AgreesKeep DEF View
  <1>4. FlowsOut' /\ FlowsEnd'
    BY <1>2 DEF FlowsOut, FlowsEnd, DoneComing
  <1> QED
    BY <1>2, <1>3, <1>4 DEF View

\* As the turn is done its answer is stored, and the client will have it once
\* the end comes.
LEMMA DoneView ==
  ASSUME IInv, IInv', Here, Clean, View, Once, NEW m \in Turns, Done(m)
  PROVE  View'
  <1>p. PICK f : f = Frame("done", turn[m].sid, Part(m, 0), <<>>, FALSE)
    OBVIOUS
  <1>e. PICK e : e = Entry("server", "assistant", m, answer[m])
    OBVIOUS
  <1>1. /\ turn[m].pc = "run" /\ Moved(turn, turn', m, "over") /\ (Sees(m) => Added(frames, frames', f))
        /\ Logged(history, history', turn[m].sid, e)
        /\ UNCHANGED <<cur, messages, gen, bubble>>
    BY <1>p, <1>e, DoneEffect
  <1>2. /\ cur \in Sessions /\ turn[m].sid = cur
        /\ Flow(answer[m], bubble.text, frames')
        /\ \A h : ~DoneComing(frames, h)
        /\ \A h : DoneComing(frames', h) <=> h = m
        /\ \A h \in Turns : (Waits(h)' <=> Waits(h)) /\ ~Working(h)'
        /\ Heeded' /\ Bubbles' /\ Asked' /\ SlidAsides(frames, frames')
    BY <1>p, <1>1, EndView
  <1>3. FlowsOut'
    BY <1>2 DEF FlowsOut
  <1>q. PICK q : q = history[cur]
    OBVIOUS
  <1>r. PICK p : p = history'[cur]
    OBVIOUS
  <1>4. Added(q, p, e) /\ Len(p) = Len(q) + 1
    <2>1. Added(q, p, e)
      BY <1>1, <1>2, <1>q, <1>r DEF Logged
    <2>2. q \in Seq(Entries) /\ p \in Seq(Entries)
      BY <1>2, <1>q, <1>r, EntriesAt DEF IInv, TypeOK
    <2> QED
      BY <2>1, <2>2, AddedLen
  <1>b. PICK b \in Nat : b = Len(q) + 1
    BY <1>4 DEF Added
  <1>5. /\ Len(p) = b /\ b \in DOMAIN p /\ p[b] = e /\ b \notin DOMAIN q
        /\ \A j \in DOMAIN q : j \in DOMAIN p /\ p[j] = q[j]
        /\ \A j \in DOMAIN p : j \in DOMAIN q \/ j = b
    BY <1>4, <1>b DEF Added
  <1>6. IsAnswer(e) /\ ~IsSystem(e) /\ e.turn = m /\ e.text = answer[m]
    BY <1>e DEF IsAnswer, IsSystem, Entry
  <1>7. FlowsEnd'
    <2> SUFFICES ASSUME NEW h \in Turns, DoneComing(frames', h)
                 PROVE  /\ Len(p) \in DOMAIN p /\ IsAnswer(p[Len(p)]) /\ p[Len(p)].turn = h
                        /\ Flow(p[Len(p)].text, bubble.text, frames')
      BY <1>1, <1>r DEF FlowsEnd, DoneComing, IsAnswer, Flow, Carries
    <2>1. h = m
      BY <1>2
    <2> QED
      BY <1>2, <1>5, <1>6, <2>1
  <1>s. Stored(p, frames') = Stored(q, frames)
    <2>1. \A j \in DOMAIN q : ~ (IsAnswer(q[j]) /\ q[j].turn = m)
      BY <1>1, <1>2, <1>q DEF Once
    <2>2. \A j : Brought(frames', q[j]) <=> Brought(frames, q[j])
      BY <1>2, AsidesBrought
    <2>3. \A j : j \in Stored(p, frames') <=> j \in Stored(q, frames)
      BY <1>2, <1>5, <1>6, <2>1, <2>2 DEF Stored, Visible
    <2> QED
      BY <2>3
  <1>9. Asides'
    <2>1. frames \in Seq(FrameRecs) /\ frames' \in Seq(FrameRecs)
      BY EntriesAt DEF IInv, TypeOK, FrameRecs
    <2>2. InOrder(q, frames)
      BY <1>2, <1>q, NoneFresh DEF View, Asides
    <2>3. \A j \in DOMAIN p : IsSystem(p[j]) => j \in DOMAIN q
      BY <1>5, <1>6
    <2>4. InOrder(p, frames')
      BY <1>2, <1>5, <1>s, <2>1, <2>2, <2>3, InOrderKeep
    <2> QED
      BY <1>1, <1>r, <2>4 DEF Asides
  <1>8. Agrees'
    <2>1. Stored(p, frames') = Stored(q, frames)
      BY <1>s
    <2>2. Settled(messages, turn', bubble) = Settled(messages, turn, bubble)
      <3>1. \A i \in DOMAIN messages : turn'[messages[i].turn].pc = "sent" <=> turn[messages[i].turn].pc = "sent"
        BY <1>2, EntriesAt DEF Waits
      <3> QED
        BY <3>1 DEF Settled, Visible
    <2>3. Agree(messages, Settled(messages, turn, bubble), q, Stored(q, frames))
      BY <1>2, <1>q, NoneFresh DEF View, Agrees
    <2>4. \A j \in Stored(q, frames) : Same(p[j], q[j])
      BY <1>5 DEF Stored, Visible, Same
    <2>5. Agree(messages, Settled(messages, turn, bubble), p, Stored(q, frames))
      BY <2>3, <2>4, AgreeKeep DEF Same
    <2>6. Agree(messages', Settled(messages', turn', bubble'), history'[cur'], Stored(history'[cur'], frames'))
      BY <1>1, <1>r, <2>1, <2>2, <2>5
    <2> QED
      BY <2>6 DEF Agrees, Agree, Settled, Stored, Visible, Same, Grows, DoneComing, IsAnswer, Brought, Brings, IsSystem
  <1> QED
    BY <1>2, <1>3, <1>7, <1>8, <1>9 DEF View

\* A system message is stored, and set apart until its frame is there.
LEMMA SystemView ==
  ASSUME IInv, IInv', Here, Clean, View, Counted, NEW m \in Turns, System(m)
  PROVE  View'
  <1>w. PICK w \in Parts : w = Part(m, turn[m].events + 1)
    BY SystemEffect
  <1>p. PICK f : f = Frame("system", turn[m].sid, w, <<>>, FALSE)
    OBVIOUS
  <1>e. PICK e : e = Entry("server", "system", m, <<w>>)
    OBVIOUS
  <1>1. Working(m) /\ Sees(m) /\ turn[m].sid = cur /\ cur \in Sessions
    <2>1. Working(m)
      BY SystemEffect DEF Working
    <2> QED
      BY <2>1, UnderWayHere
  <1>2. /\ Added(frames, frames', f) /\ Logged(history, history', cur, e)
        /\ UNCHANGED <<cur, messages, gen, bubble, answer>>
    BY <1>w, <1>p, <1>e, <1>1, SystemEffect
  <1>3. f.kind = "system" /\ f.sid = cur /\ f.part = w /\ w.of = m
    BY <1>w, <1>p, <1>1 DEF Frame, Part
  <1>4. \A h \in Turns : (Waits(h)' <=> Waits(h)) /\ (Working(h)' <=> Working(h))
    BY SystemEffect DEF Waits, Working
  <1>5. \A h \in Turns : (DoneComing(frames', h) <=> DoneComing(frames, h)) /\ (Ending(h)' <=> Ending(h))
    BY <1>2, <1>3 DEF Added, DoneComing, Ending, IsEnd
  <1>6. \A h \in Turns : Busy(h)' <=> Busy(h)
    BY <1>4, <1>5 DEF Busy
  <1>7. Heeded'
    BY <1>1, <1>2, <1>3, <1>6, HeededMore DEF View, Busy
  <1>8. Bubbles' /\ Asked'
    BY <1>2, <1>4, <1>6, BubblesKeep, AskedKeep DEF View
  <1>9. FlowsOut'
    <2> SUFFICES ASSUME NEW h \in Turns, Working(h)' PROVE Flow(answer'[h], bubble'.text, frames')
      BY DEF FlowsOut, Flow, Carries
    <2>1. Flow(answer[h], bubble.text, frames)
      BY <1>4 DEF View, FlowsOut
    <2>2. ~Carries(f)
      BY <1>3 DEF Carries
    <2> QED
      BY <1>2, <2>1, <2>2, FlowStill
  <1>10. ASSUME NEW h \in Turns, DoneComing(frames', h) PROVE FALSE
    <2>1. Ending(h) /\ Busy(h)
      BY <1>5, <1>10, DoneEnding
    <2> QED
      BY <1>1, <2>1, UnderWay DEF Busy
  <1>11. FlowsEnd'
    BY <1>10 DEF FlowsEnd, DoneComing
  <1>q. PICK q : q = history[cur]
    OBVIOUS
  <1>r. PICK p : p = history'[cur]
    OBVIOUS
  <1>b. PICK b \in Nat : b = Len(q) + 1
    BY <1>2, <1>q DEF Logged, Added
  <1>12. /\ DOMAIN q = 1 .. b - 1 /\ b \in DOMAIN p /\ p[b] = e /\ b \notin DOMAIN q
         /\ \A j \in DOMAIN q : j \in DOMAIN p /\ p[j] = q[j] /\ j < b
         /\ \A j \in DOMAIN p : j \in DOMAIN q \/ j = b
    <2>1. Added(q, p, e)
      BY <1>2, <1>q, <1>r DEF Logged
    <2>2. DOMAIN q = 1 .. b - 1
      BY <1>b, <2>1 DEF Added
    <2>3. b \notin DOMAIN q /\ \A j \in DOMAIN q : j < b
      BY <2>2
    <2> QED
      BY <1>b, <2>1, <2>2, <2>3 DEF Added
  <1>13. IsSystem(e) /\ e.turn = m /\ e.text = <<w>> /\ Brings(f, e)
    BY <1>e, <1>3 DEF IsSystem, Entry, Brings
  <1>14. \A j \in DOMAIN q : ~Brings(f, q[j])
    BY <1>1, <1>3, <1>q, <1>w, NewNumber DEF Brings
  <1>15. InOrder(q, frames)
    BY <1>1, <1>q, NoneFresh DEF View, Asides
  <1>16. \A i \in DOMAIN frames : ~Brings(frames[i], e)
    <2> SUFFICES ASSUME NEW i \in DOMAIN frames, Brings(frames[i], e) PROVE FALSE
      OBVIOUS
    <2>1. frames[i].kind = "system" /\ frames[i].part.of = m /\ <<frames[i].part>> = <<w>>
      BY <1>13 DEF Brings
    <2>2. PICK c \in DOMAIN q : Brings(frames[i], q[c])
      BY <1>15, <2>1 DEF InOrder
    <2>3. Brings(f, q[c])
      BY <1>3, <2>1, <2>2 DEF Brings
    <2> QED
      BY <1>14, <2>3
  <1>17. /\ \A j \in DOMAIN q : Brought(frames', q[j]) <=> Brought(frames, q[j])
         /\ Brought(frames', e)
    BY <1>2, <1>13, <1>14 DEF Brought, Added
  <1>18. Stored(p, frames') = Stored(q, frames)
    <2>1. \A j \in DOMAIN q : q[j].turn \in Turns
      BY <1>1, <1>q, EntriesAt
    <2>2. \A j : j \in Stored(p, frames') <=> j \in Stored(q, frames)
      BY <1>5, <1>12, <1>17, <2>1 DEF Stored, Visible
    <2> QED
      BY <2>2
  <1>19. InOrder(p, frames')
    <2>k. PICK k \in Nat : k = Len(frames) + 1
      BY <1>2 DEF Added
    <2>1. /\ DOMAIN frames = 1 .. k - 1 /\ DOMAIN frames' = 1 .. k /\ frames'[k] = f
          /\ \A i \in DOMAIN frames : frames'[i] = frames[i] /\ i < k
          /\ \A i \in DOMAIN frames' : i \in DOMAIN frames \/ i = k
      BY <1>2, <2>k DEF Added
    <2>2. ASSUME NEW i \in DOMAIN frames', frames'[i].kind = "system"
          PROVE  \E c \in DOMAIN p : Brings(frames'[i], p[c])
      <3>1. CASE i = k
        BY <1>12, <1>13, <2>1, <3>1
      <3>2. CASE i # k
        <4>1. i \in DOMAIN frames /\ frames'[i] = frames[i]
          BY <2>1, <3>2
        <4>2. PICK c \in DOMAIN q : Brings(frames[i], q[c])
          BY <1>15, <2>2, <4>1 DEF InOrder
        <4> QED
          BY <1>12, <4>1, <4>2
      <3> QED
        BY <3>1, <3>2
    <2>3. ASSUME NEW i \in DOMAIN frames', NEW c \in DOMAIN p, Brings(frames'[i], p[c])
          PROVE  \/ i = k /\ c = b
                 \/ i \in DOMAIN frames /\ c \in DOMAIN q /\ Brings(frames[i], q[c])
      <3>1. CASE i = k
        BY <1>12, <1>14, <2>1, <2>3, <3>1
      <3>2. CASE i # k
        BY <1>12, <1>16, <2>1, <2>3, <3>2
      <3> QED
        BY <3>1, <3>2
    <2>4. ASSUME NEW i \in DOMAIN frames', NEW j \in DOMAIN frames', NEW c \in DOMAIN p, NEW d \in DOMAIN p,
                 i < j, Brings(frames'[i], p[c]), Brings(frames'[j], p[d])
          PROVE  c < d
      <3>1. i # k
        BY <2>1, <2>4
      <3>2. i \in DOMAIN frames /\ c \in DOMAIN q /\ Brings(frames[i], q[c])
        BY <2>3, <2>4, <3>1
      <3>3. CASE j = k /\ d = b
        BY <1>12, <3>2, <3>3
      <3>4. CASE j \in DOMAIN frames /\ d \in DOMAIN q /\ Brings(frames[j], q[d])
        BY <1>15, <2>4, <3>2, <3>4 DEF InOrder
      <3> QED
        BY <2>3, <2>4, <3>3, <3>4
    <2>5. ASSUME NEW i \in DOMAIN frames', NEW c \in DOMAIN p, Brings(frames'[i], p[c]), NEW z \in Stored(p, frames')
          PROVE  z < c
      <3>1. z \in Stored(q, frames) /\ z \in DOMAIN q
        BY <1>18 DEF Stored, Visible
      <3>2. CASE c = b
        BY <1>12, <3>1, <3>2
      <3>3. CASE i \in DOMAIN frames /\ c \in DOMAIN q /\ Brings(frames[i], q[c])
        BY <1>15, <3>1, <3>3 DEF InOrder
      <3> QED
        BY <2>3, <2>5, <3>2, <3>3
    <2> QED
      BY <2>2, <2>4, <2>5 DEF InOrder
  <1>20. Asides'
    BY <1>2, <1>r, <1>19 DEF Asides
  <1>21. Agrees'
    <2>1. Settled(messages, turn', bubble) = Settled(messages, turn, bubble)
      <3>1. \A i \in DOMAIN messages : turn'[messages[i].turn].pc = "sent" <=> turn[messages[i].turn].pc = "sent"
        BY <1>4, EntriesAt DEF Waits
      <3> QED
        BY <3>1 DEF Settled, Visible
    <2>2. Agree(messages, Settled(messages, turn, bubble), q, Stored(q, frames))
      BY <1>1, <1>q, NoneFresh DEF View, Agrees
    <2>3. \A j \in Stored(q, frames) : Same(p[j], q[j])
      BY <1>12 DEF Stored, Visible, Same
    <2>4. Agree(messages, Settled(messages, turn, bubble), p, Stored(q, frames))
      BY <2>2, <2>3, AgreeKeep DEF Same
    <2>5. Agree(messages', Settled(messages', turn', bubble'), history'[cur'], Stored(history'[cur'], frames'))
      BY <1>2, <1>r, <1>18, <2>1, <2>4
    <2> QED
      BY <2>5 DEF Agrees, Agree, Settled, Stored, Visible, Same, Grows, DoneComing, IsAnswer, Brought, Brings, IsSystem
  <1> QED
    BY <1>7, <1>8, <1>9, <1>11, <1>20, <1>21 DEF View

\* It is shown behind all the others, and is the first of those set apart.
LEMMA OnSystemView ==
  ASSUME IInv, IInv', Here, Clean, Clean', Once, View, OnSystem
  PROVE  View'
  <1>w. PICK w \in Parts : w = frames[1].part
    BY OnSystemEffect
  <1>m. PICK m \in Turns : m = w.of
    BY DEF Parts
  <1>e. PICK e : e = Entry("client", "system", m, <<w>>)
    OBVIOUS
  <1>1. /\ Taken(frames, frames') /\ 1 \in DOMAIN frames /\ frames[1].kind = "system"
        /\ IsNotice(frames[1]) /\ ~IsEnd(frames[1]) /\ ~Carries(frames[1])
    BY OnSystemEffect DEF Taken, IsNotice, IsEnd, Carries
  <1>2. /\ Busy(m) /\ gen /\ frames[1].sid = cur /\ cur \in Sessions
        /\ \A h \in Turns : Waits(h) \/ Busy(h) => h = m
    BY <1>1, <1>w, <1>m, NoticeBusy DEF View
  <1>3. /\ Added(messages, messages', e) /\ bubble = NoBubble
        /\ UNCHANGED <<cur, gen, bubble, turn, answer, history>>
    <2>1. Hears(frames[1]) /\ "aside" \notin trouble'
      BY <1>2 DEF Hears, Clean
    <2> QED
      BY <1>w, <1>m, <1>e, <2>1, OnSystemEffect
  <1>4. \A h \in Turns : ~Waits(h)
    BY <1>2, UnderWay
  <1>5. \A h \in Turns : ~Waits(h)' /\ (Working(h)' <=> Working(h))
    BY <1>3, <1>4 DEF Waits, Working
  <1>6. \A h : (Ending(h)' <=> Ending(h)) /\ (DoneComing(frames', h) <=> DoneComing(frames, h))
    BY <1>1 DEF Taken, Ending, DoneComing, IsEnd
  <1>7. \A h \in Turns : Busy(h)' <=> Busy(h)
    BY <1>5, <1>6 DEF Busy
  <1>8. Heeded'
    BY <1>1, <1>3, <1>7, FromTaken, HeededKeep DEF View
  <1>9. Asked'
    BY <1>5 DEF Asked
  <1>10. e.role = "system" /\ e.turn = m /\ e.text = <<w>> /\ ~IsAnswer(e) /\ IsSystem(e)
    BY <1>e DEF Entry, IsAnswer, IsSystem
  <1>11. frames \in Seq(FrameRecs) /\ frames' \in Seq(FrameRecs)
    BY EntriesAt DEF IInv, TypeOK, FrameRecs
  <1>12. FlowsOut'
    <2> SUFFICES ASSUME NEW h \in Turns, Working(h)' PROVE Flow(answer'[h], bubble'.text, frames')
      BY DEF FlowsOut, Flow, Carries
    <2>1. Flow(answer[h], bubble.text, frames)
      BY <1>5 DEF View, FlowsOut
    <2> QED
      BY <1>1, <1>3, <1>11, <2>1, FlowPasses
  <1>q. PICK q : q = history[cur]
    OBVIOUS
  <1>13. FlowsEnd'
    <2> SUFFICES ASSUME NEW h \in Turns, DoneComing(frames', h)
                 PROVE  /\ Len(q) \in DOMAIN q /\ IsAnswer(q[Len(q)]) /\ q[Len(q)].turn = h
                        /\ Flow(q[Len(q)].text, bubble.text, frames')
      BY <1>3, <1>q DEF FlowsEnd, DoneComing, IsAnswer, Flow, Carries
    <2>1. /\ Len(q) \in DOMAIN q /\ IsAnswer(q[Len(q)]) /\ q[Len(q)].turn = h
          /\ Flow(q[Len(q)].text, bubble.text, frames)
      BY <1>6, <1>q DEF View, FlowsEnd
    <2>2. PICK T : T = q[Len(q)].text
      OBVIOUS
    <2>3. Flow(T, bubble.text, frames')
      BY <1>1, <1>11, <2>1, <2>2, FlowPasses
    <2> QED
      BY <2>1, <2>2, <2>3
  <1>a. PICK a \in Nat : a = Len(messages) + 1
    BY <1>3 DEF Added
  <1>14. /\ DOMAIN messages = 1 .. a - 1 /\ a \in DOMAIN messages' /\ messages'[a] = e
         /\ \A i \in DOMAIN messages : i \in DOMAIN messages' /\ messages'[i] = messages[i] /\ i < a
         /\ \A i \in DOMAIN messages' : i \in DOMAIN messages \/ i = a
    <2>1. DOMAIN messages = 1 .. a - 1
      BY <1>3, <1>a DEF Added
    <2>2. \A i \in DOMAIN messages : i < a
      BY <2>1
    <2> QED
      BY <1>3, <1>a, <2>1, <2>2 DEF Added
  <1>15. \A i \in DOMAIN messages' : ~Grows(messages'[i], NoBubble)
    <2>1. \A i \in DOMAIN messages : ~Grows(messages[i], NoBubble)
      BY EntriesAt
    <2> QED
      BY <1>10, <1>14, <2>1 DEF Grows
  <1>16. Bubbles'
    <2> SUFFICES ASSUME NEW i \in DOMAIN messages', IsAnswer(messages'[i]), Busy(messages[i].turn)' PROVE FALSE
      BY <1>2, <1>3, <1>15 DEF Bubbles, IsAnswer, Grows, NoBubble
    <2>1. i \in DOMAIN messages /\ messages'[i] = messages[i]
      BY <1>10, <1>14
    <2>2. PICK h \in Turns : h = messages[i].turn
      BY <2>1, EntriesAt
    <2>3. Busy(h)'
      BY <2>1, <2>2 DEF Busy, Working, Ending
    <2>4. Busy(h)
      BY <1>7, <2>3
    <2> QED
      BY <1>3, <2>1, <2>2, <2>4 DEF View, Bubbles
  <1>17. InOrder(q, frames) /\ Agree(messages, Settled(messages, turn, NoBubble), q, Stored(q, frames))
    BY <1>2, <1>3, <1>q, NoneFresh DEF View, Agrees, Asides
  <1>18. PICK b \in DOMAIN q : Brings(frames[1], q[b])
    BY <1>1, <1>17 DEF InOrder
  <1>19. /\ b \in Nat /\ DOMAIN q \subseteq Nat /\ IsSystem(q[b]) /\ q[b].turn = m /\ q[b].text = <<w>>
         /\ \A i, j \in DOMAIN q : Alike(q[i], q[j]) => i = j
    <2>1. DOMAIN q = 1 .. Len(q)
      BY <1>2, <1>q, EntriesAt
    <2> QED
      BY <1>2, <1>q, <1>18, <1>w, <1>m, <2>1 DEF Brings, Once
  <1>20. <<w>> # <<>>
    OBVIOUS
  <1>21. /\ \A i \in DOMAIN frames' : i \in Nat /\ i + 1 \in DOMAIN frames /\ frames'[i] = frames[i + 1] /\ 1 < i + 1
         /\ \A i \in DOMAIN frames : i # 1 => i - 1 \in DOMAIN frames' /\ frames'[i - 1] = frames[i]
    BY <1>1 DEF Taken
  <1>22. ~Brought(frames', q[b])
    <2> SUFFICES ASSUME NEW i \in DOMAIN frames', Brings(frames'[i], q[b]) PROVE FALSE
      BY DEF Brought
    <2>1. b < b
      BY <1>1, <1>17, <1>18, <1>21 DEF InOrder
    <2> QED
      BY <1>19, <2>1
  <1>23. \A j \in DOMAIN q : j # b => (Brought(frames', q[j]) <=> Brought(frames, q[j]))
    <2> SUFFICES ASSUME NEW j \in DOMAIN q, j # b PROVE Brought(frames', q[j]) <=> Brought(frames, q[j])
      OBVIOUS
    <2>1. ~Brings(frames[1], q[j])
      BY <1>18, <1>19 DEF Brings, Alike, IsSystem
    <2> QED
      BY <1>21, <2>1 DEF Brought
  <1>24. Stored(q, frames') = Stored(q, frames) \cup {b}
    <2>1. b \in Visible(q) /\ ~IsAnswer(q[b])
      BY <1>19, <1>20 DEF Visible, IsAnswer, IsSystem
    <2>2. \A j : j \in Stored(q, frames') <=> j \in Stored(q, frames) \/ j = b
      BY <1>6, <1>22, <1>23, <2>1 DEF Stored, Visible
    <2> QED
      BY <2>2
  <1>25. \A k \in Stored(q, frames) : k < b /\ k \in DOMAIN q
    BY <1>1, <1>17, <1>18 DEF InOrder, Stored, Visible
  <1>26. Asides'
    <2>1. ASSUME NEW i \in DOMAIN frames', frames'[i].kind = "system"
          PROVE  \E c \in DOMAIN q : Brings(frames'[i], q[c])
      BY <1>17, <1>21, <2>1 DEF InOrder
    <2>2. ASSUME NEW i \in DOMAIN frames', NEW j \in DOMAIN frames', NEW c \in DOMAIN q, NEW d \in DOMAIN q,
                 i < j, Brings(frames'[i], q[c]), Brings(frames'[j], q[d])
          PROVE  c < d
      <3>1. i + 1 < j + 1
        BY <1>21, <2>2
      <3> QED
        BY <1>17, <1>21, <2>2, <3>1 DEF InOrder
    <2>3. ASSUME NEW i \in DOMAIN frames', NEW c \in DOMAIN q, Brings(frames'[i], q[c]), NEW z \in Stored(q, frames')
          PROVE  z < c
      <3>1. CASE z = b
        BY <1>1, <1>17, <1>18, <1>21, <2>3, <3>1 DEF InOrder
      <3>2. CASE z \in Stored(q, frames)
        BY <1>17, <1>21, <2>3, <3>2 DEF InOrder
      <3> QED
        BY <1>24, <3>1, <3>2
    <2>4. InOrder(q, frames')
      BY <2>1, <2>2, <2>3 DEF InOrder
    <2> QED
      BY <1>3, <1>q, <2>4 DEF Asides
  <1>27. Agrees'
    <2>1. Settled(messages', turn, NoBubble) = Settled(messages, turn, NoBubble) \cup {a}
      <3>1. a \in Visible(messages') /\ turn[messages'[a].turn].pc # "sent" /\ ~Grows(messages'[a], NoBubble)
        BY <1>4, <1>10, <1>14, <1>15, <1>20 DEF Visible, Waits
      <3>2. \A i : i \in Settled(messages', turn, NoBubble) <=> i \in Settled(messages, turn, NoBubble) \/ i = a
        BY <1>14, <3>1 DEF Settled, Visible
      <3> QED
        BY <3>2
    <2>p. PICK P \in SUBSET Nat : P = Settled(messages, turn, NoBubble) /\ \A i \in P : i < a /\ i \in DOMAIN messages
      <3>1. Settled(messages, turn, NoBubble) \subseteq DOMAIN messages
        BY DEF Settled, Visible
      <3>2. DOMAIN messages \subseteq Nat
        BY <1>14
      <3> QED
        BY <1>14, <3>1, <3>2
    <2>r. PICK Q \in SUBSET Nat : Q = Stored(q, frames)
      BY <1>19, <1>25
    <2>2. \A i \in P : Same(messages'[i], messages[i])
      BY <1>14, <2>p DEF Same
    <2>3. Agree(messages', P, q, Q)
      BY <1>17, <2>2, <2>p, <2>r, AgreeKeep DEF Same
    <2>4. Same(messages'[a], q[b])
      BY <1>10, <1>14, <1>19 DEF Same, IsSystem
    <2>5. \A j \in Q : j < b /\ ~Alike(q[j], q[b])
      BY <1>19, <1>25, <2>r
    <2>6. Agree(messages', P \cup {a}, q, Q \cup {b})
      BY <1>19, <2>3, <2>4, <2>5, <2>p, AgreeMore
    <2>7. Agree(messages', Settled(messages', turn', bubble'), history'[cur'], Stored(history'[cur'], frames'))
      BY <1>3, <1>q, <1>24, <2>1, <2>6, <2>p, <2>r DEF NoBubble
    <2> QED
      BY <2>7 DEF Agrees, Agree, Settled, Stored, Visible, Same, Grows, DoneComing, IsAnswer, Brought, Brings, IsSystem
  <1> QED
    BY <1>8, <1>9, <1>12, <1>13, <1>16, <1>26, <1>27 DEF View

\* A text or a tool call for the answer under construction: that of turn m,
\* and then the last message.
Grown(m, p, a) ==
  /\ bubble'.turn = m /\ bubble' # NoBubble /\ bubble'.text # <<>>
  /\ bubble'.text \in Seq(Parts) /\ Added(bubble.text, bubble'.text, p)
  /\ a = Len(messages') /\ a \in DOMAIN messages'
  /\ Grows(messages'[a], bubble') /\ messages'[a].text = bubble'.text
  /\ \A i \in DOMAIN messages' : Grows(messages'[i], bubble') => i = a
  /\ \A i : i \in DOMAIN messages' /\ i # a <=> i \in DOMAIN messages /\ ~Grows(messages[i], bubble)
  /\ \A i \in DOMAIN messages : i # a => Same(messages'[i], messages[i])

LEMMA GrownStarted ==
  ASSUME IInv, IInv', Bubbles, NEW m \in Turns, Busy(m), NEW p, p.of = m, Started(p)
  PROVE  \E a : Grown(m, p, a)
  <1>n. PICK n : n = Len(messages)
    OBVIOUS
  <1>l. PICK l \in Seq(Parts) : /\ DOMAIN l = {1} /\ l[1] = p /\ bubble' = [turn |-> m, text |-> l]
                                /\ Added(messages, messages', Entry("client", "assistant", m, l))
    BY DEF Started
  <1>e. PICK e : e = Entry("client", "assistant", m, l)
    OBVIOUS
  <1>1. /\ n \in Nat /\ DOMAIN messages = 1 .. n /\ DOMAIN messages' = 1 .. n + 1 /\ Len(messages') = n + 1
        /\ \A i \in DOMAIN messages : messages'[i] = messages[i]
        /\ messages'[n + 1] = e
    <2>1. messages \in Seq(Entries) /\ messages' \in Seq(Entries)
      BY EntriesAt DEF IInv, TypeOK
    <2>2. Added(messages, messages', e)
      BY <1>l, <1>e
    <2>3. Len(messages') = n + 1
      BY <1>n, <2>1, <2>2, AddedLen
    <2> QED
      BY <1>n, <2>2, <2>3 DEF Added
  <1>2. bubble = NoBubble /\ bubble.text = <<>> /\ bubble'.turn = m /\ bubble'.text = l
    BY <1>l DEF Started, NoBubble
  <1>3. bubble' # NoBubble
    BY <1>2, NoneFresh DEF NoBubble
  <1>4. l # <<>> /\ Added(<<>>, l, p)
    <2>z. PICK z : z = <<>>
      OBVIOUS
    <2>1. DOMAIN z = {} /\ Len(z) = 0 /\ Len(z) + 1 = 1
      BY <2>z
    <2>2. 1 .. Len(z) = {} /\ 1 .. Len(z) + 1 = {1} /\ Len(z) \in Nat
      BY <2>1
    <2>3. Added(z, l, p)
      BY <1>l, <2>1, <2>2 DEF Added
    <2>4. l # z
      BY <1>l, <2>1
    <2> QED
      BY <2>z, <2>3, <2>4
  <1>5. e.by = "client" /\ e.role = "assistant" /\ e.turn = m /\ e.text = l
    BY <1>e DEF Entry
  <1>6. \A i \in DOMAIN messages : ~ (IsAnswer(messages[i]) /\ messages[i].turn = m)
    BY <1>2 DEF Bubbles
  <1>7. \A i \in DOMAIN messages : ~Grows(messages[i], bubble)
    BY <1>2, EntriesAt
  <1>8. \A i \in DOMAIN messages' : Grows(messages'[i], bubble') => i = n + 1
    <2>1. \A i \in DOMAIN messages' : i \in DOMAIN messages \/ i = n + 1
      BY <1>1
    <2> QED
      BY <1>1, <1>2, <1>6, <2>1 DEF Grows, IsAnswer
  <1>9. \A i : i \in DOMAIN messages' /\ i # n + 1 <=> i \in DOMAIN messages
    BY <1>1
  <1>10. Grows(messages'[n + 1], bubble') /\ messages'[n + 1].text = bubble'.text
    BY <1>1, <1>2, <1>5 DEF Grows
  <1>11. Grown(m, p, n + 1)
    BY <1>1, <1>2, <1>3, <1>4, <1>7, <1>8, <1>9, <1>10, <1>l DEF Grown, Same
  <1> QED
    BY <1>11

LEMMA GrownLonger ==
  ASSUME IInv, IInv', Here, Bubbles, NEW m \in Turns, Busy(m), NEW p, Longer(p)
  PROVE  \E a : Grown(m, p, a)
  <1>n. PICK n : n = Len(messages)
    OBVIOUS
  <1>1. bubble.turn \in Turns /\ bubble # NoBubble
    BY NoneFresh DEF Longer, NoBubble
  <1>2. /\ Busy(bubble.turn) /\ n \in DOMAIN messages /\ Grows(messages[n], bubble)
        /\ \A i \in DOMAIN messages : Grows(messages[i], bubble) => i = n
    BY <1>1, <1>n DEF Bubbles
  <1>3. bubble.turn = m /\ bubble'.turn = m
    <2>1. bubble.turn = m
      BY <1>1, <1>2, UnderWay
    <2> QED
      BY <2>1 DEF Longer
  <1>4. Len(messages') = n /\ DOMAIN messages' = DOMAIN messages
    <2>1. messages \in Seq(Entries) /\ messages' \in Seq(Entries)
      BY EntriesAt DEF IInv, TypeOK
    <2>2. DOMAIN messages' = DOMAIN messages
      BY DEF Longer, Reshown
    <2> QED
      BY <1>n, <2>1, <2>2, ReshownLen
  <1>5. bubble' # NoBubble
    BY <1>3, NoneFresh DEF NoBubble
  <1>6. bubble'.text \in Seq(Parts) /\ Added(bubble.text, bubble'.text, p)
    <2>1. IInv' => bubble' \in [turn : Turns, text : Seq(Parts)] \cup {NoBubble}
      BY DEF IInv, TypeOK
    <2> QED
      BY <1>5, <2>1 DEF Longer
  <1>7. bubble'.text # <<>>
    <2>1. DOMAIN <<>> = {}
      OBVIOUS
    <2> QED
      BY <1>6, <2>1 DEF Added
  <1>8. \A i \in DOMAIN messages : Grows(messages'[i], bubble') <=> Grows(messages[i], bubble)
    BY <1>3 DEF Longer, Reshown, Grows
  <1>9. messages'[n].text = bubble'.text
    BY <1>2, <1>3 DEF Longer, Reshown, Grows
  <1>10. \A i \in DOMAIN messages : i # n => Same(messages'[i], messages[i])
    BY <1>2, <1>3 DEF Longer, Reshown, Grows, Same
  <1>11. Grown(m, p, n)
    BY <1>2, <1>3, <1>4, <1>5, <1>6, <1>7, <1>8, <1>9, <1>10 DEF Grown
  <1> QED
    BY <1>11

LEMMA GrownView ==
  ASSUME IInv, IInv', Here, Clean, View, Taken(frames, frames'), Carries(frames[1]),
         UNCHANGED <<cur, gen, turn, answer, history>>,
         Started(frames[1].part) \/ Longer(frames[1].part)
  PROVE  View'
  <1>m. PICK m : m = frames[1].part.of
    OBVIOUS
  <1>p. PICK p : p = frames[1].part
    OBVIOUS
  <1>1. 1 \in DOMAIN frames /\ IsNotice(frames[1]) /\ ~IsEnd(frames[1])
    BY DEF Taken, IsNotice, Carries, IsEnd
  <1>2. m \in Turns /\ Busy(m) /\ gen /\ cur \in Sessions /\ \A h \in Turns : Waits(h) \/ Busy(h) => h = m
    BY <1>1, <1>m, NoticeBusy DEF View
  <1>3. \A h \in Turns : ~Waits(h)
    BY <1>2, UnderWay
  <1>4. \A h \in Turns : ~Waits(h)' /\ (Working(h)' <=> Working(h))
    BY <1>3 DEF Waits, Working
  <1>5. \A h : (Ending(h)' <=> Ending(h)) /\ (DoneComing(frames', h) <=> DoneComing(frames, h))
    BY <1>1 DEF Taken, Ending, DoneComing, IsEnd, Carries
  <1>6. \A h \in Turns : Busy(h)' <=> Busy(h)
    BY <1>4, <1>5 DEF Busy
  <1>7. Heeded'
    BY <1>6, FromTaken, HeededKeep DEF View
  <1>8. Asked'
    BY <1>4 DEF Asked
  <1>9. PICK a : Grown(m, p, a)
    BY <1>2, <1>m, <1>p, GrownStarted, GrownLonger DEF View
  <1>10. Bubbles'
    <2>1. Busy(m)'
      BY <1>2, <1>6
    <2>2. Busy(bubble.turn)'
      BY <1>9, <2>1 DEF Grown, Busy, Working, Ending
    <2> QED
      BY <1>2, <1>9, <2>2 DEF Grown, Bubbles, Grows, NoBubble
  <1>11. /\ frames \in Seq(FrameRecs) /\ frames' \in Seq(FrameRecs) /\ bubble.text \in Seq(Parts)
         /\ bubble'.text \in Seq(Parts)
    BY <1>9, EntriesAt DEF Grown, IInv, TypeOK, FrameRecs
  <1>12. ASSUME NEW T \in Seq(Parts), Flow(T, bubble.text, frames)
         PROVE  Flow(T, bubble'.text, frames')
    BY <1>9, <1>11, <1>12, <1>p, FlowTakes DEF Grown
  <1>13. FlowsOut'
    <2> SUFFICES ASSUME NEW h \in Turns, Working(h)' PROVE Flow(answer'[h], bubble'.text, frames')
      BY DEF FlowsOut, Flow, Carries
    <2>1. Flow(answer[h], bubble.text, frames) /\ answer[h] \in Seq(Parts)
      BY <1>4, EntriesAt DEF View, FlowsOut
    <2> QED
      BY <1>12, <2>1
  <1>14. FlowsEnd'
    <2>1. PICK q : q = history[cur]
      OBVIOUS
    <2> SUFFICES ASSUME NEW h \in Turns, DoneComing(frames', h)
                 PROVE  /\ Len(q) \in DOMAIN q /\ IsAnswer(q[Len(q)]) /\ q[Len(q)].turn = h
                        /\ Flow(q[Len(q)].text, bubble'.text, frames')
      BY <2>1 DEF FlowsEnd, DoneComing, IsAnswer, Flow, Carries
    <2>2. /\ Len(q) \in DOMAIN q /\ IsAnswer(q[Len(q)]) /\ q[Len(q)].turn = h
          /\ Flow(q[Len(q)].text, bubble.text, frames)
      BY <1>5, <2>1 DEF View, FlowsEnd
    <2>3. q[Len(q)] \in Entries
      BY <1>2, <2>1, <2>2, EntriesAt
    <2>4. q[Len(q)].text \in Seq(Parts)
      BY <2>3 DEF Entries
    <2> QED
      BY <1>12, <2>2, <2>4
  <1>s. Stored(history[cur], frames') = Stored(history[cur], frames) /\ SlidAsides(frames, frames')
    <2>1. SlidAsides(frames, frames')
      BY AsidesTaken DEF Carries
    <2> QED
      BY <1>5, <2>1, AsidesBrought DEF Stored
  <1>16. Asides'
    BY <1>2, <1>11, <1>s, InOrderKeep DEF View, Asides
  <1>15. Agrees'
    <2>q. PICK q : q = history[cur]
      OBVIOUS
    <2>1. Settled(messages', turn, bubble') = Settled(messages, turn, bubble)
      <3>1. \A i \in Settled(messages', turn, bubble') : i \in DOMAIN messages' /\ i # a
        BY <1>9 DEF Settled, Visible, Grown
      <3>2. \A i \in Settled(messages, turn, bubble) : i \in DOMAIN messages' /\ i # a
        BY <1>9 DEF Settled, Visible, Grown
      <3>3. \A i \in DOMAIN messages' : i # a =>
              /\ i \in DOMAIN messages /\ ~Grows(messages[i], bubble) /\ ~Grows(messages'[i], bubble')
              /\ Same(messages'[i], messages[i])
        BY <1>9 DEF Grown
      <3>4. \A i \in DOMAIN messages' : i # a =>
              (i \in Settled(messages', turn, bubble') <=> i \in Settled(messages, turn, bubble))
        BY <3>3 DEF Settled, Visible, Same
      <3> QED
        BY <3>1, <3>2, <3>4
    <2>2. Stored(q, frames') = Stored(q, frames)
      BY <1>s, <2>q
    <2>3. Agree(messages, Settled(messages, turn, bubble), q, Stored(q, frames))
      BY <1>2, <2>q, NoneFresh DEF View, Agrees
    <2>4. \A i \in Settled(messages, turn, bubble) : Same(messages'[i], messages[i])
      BY <1>9 DEF Settled, Visible, Grown
    <2>5. Agree(messages', Settled(messages, turn, bubble), q, Stored(q, frames))
      BY <2>3, <2>4, AgreeKeep DEF Same
    <2>6. Agree(messages', Settled(messages', turn', bubble'), history'[cur'], Stored(history'[cur'], frames'))
      BY <2>q, <2>1, <2>2, <2>5
    <2> QED
      BY <2>6 DEF Agrees, Agree, Settled, Stored, Visible, Same, Grows, DoneComing, IsAnswer, Brought, Brings, IsSystem
  <1> QED
    BY <1>7, <1>8, <1>10, <1>13, <1>14, <1>15, <1>16 DEF View

LEMMA OnTextView ==
  ASSUME IInv, IInv', Here, Clean, View, OnText \/ OnTool, Clean'
  PROVE  View'
  <1>1. /\ Taken(frames, frames') /\ frames[1].kind \in {"text", "tool"}
        /\ UNCHANGED <<cur, gen, turn, answer, history>>
    BY OnTextEffect, OnToolEffect
  <1>2. Carries(frames[1]) /\ IsNotice(frames[1]) /\ 1 \in DOMAIN frames
    BY <1>1 DEF Carries, IsNotice, Taken
  <1>3. Hears(frames[1])
    BY <1>2, NoticeBusy DEF View, Hears
  <1>4. "partial" \notin trouble'
    BY DEF Clean
  <1>5. Started(frames[1].part) \/ Longer(frames[1].part)
    BY <1>3, <1>4, OnTextEffect, OnToolEffect
  <1> QED
    BY <1>1, <1>2, <1>5, GrownView

\* The end: what is done is what the store has; an error is no answer at all.
LEMMA OnEndView ==
  ASSUME IInv, IInv', Here, Here', Clean, Clean', Once, View, OnEnd
  PROVE  View'
  <1>0. PICK f : f = frames[1]
    OBVIOUS
  <1>1. /\ Taken(frames, frames') /\ 1 \in DOMAIN frames /\ IsEnd(f) /\ IsNotice(f)
        /\ UNCHANGED <<cur, messages, turn, answer, history>>
    BY <1>0, OnEndEffect DEF Taken, IsEnd, IsNotice
  <1>m. PICK m : m = f.part.of
    OBVIOUS
  <1>2. m \in Turns /\ f.sid = cur /\ cur \in Sessions /\ \A h \in Turns : Waits(h) \/ Busy(h) => h = m
    BY <1>0, <1>1, <1>m, NoticeBusy DEF View
  <1>3. Hears(f)
    BY <1>2 DEF Hears
  <1>4. ~gen' /\ bubble' = NoBubble /\ (f.kind = "error" => bubble = NoBubble)
    <2>1. "partial" \notin trouble'
      BY DEF Clean
    <2> QED
      BY <1>0, <1>1, <1>3, <2>1, OnEndEffect DEF IsEnd
  <1>5. Heeded' /\ Bubbles' /\ Asked' /\ FlowsOut' /\ FlowsEnd' /\ Asides'
    BY <1>4, IdleNext DEF NoBubble
  <1>q. PICK q : q = history[cur]
    OBVIOUS
  <1>6. Settled(messages', turn', bubble') = Visible(messages) /\ Stored(history'[cur'], frames') = Visible(q)
    BY <1>1, <1>2, <1>4, <1>q, IdleSetsNext DEF NoBubble
  <1>7. /\ turn[m].pc = "over" /\ \A j \in DOMAIN frames : j > 1 => ~IsNotice(frames[j])
    BY <1>0, <1>1, <1>m DEF IInv, Single, EndLast
  <1>8. \A j \in DOMAIN frames : j # 1 => ~IsNotice(frames[j])
    BY <1>1, <1>7 DEF Taken
  <1>9. \A h \in Turns : ~Waits(h)
    BY <1>2, <1>7 DEF Waits
  <1>10. \A h : DoneComing(frames, h) <=> f.kind = "done" /\ h = m
    BY <1>0, <1>1, <1>8, <1>m DEF DoneComing, IsNotice
  <1>n. \A h : ~Brought(frames, h)
    BY <1>0, <1>1, <1>8 DEF Brought, Brings, IsNotice, IsEnd
  <1>11. Settled(messages, turn, bubble) = {i \in Visible(messages) : ~Grows(messages[i], bubble)}
    <2>1. \A i \in DOMAIN messages : turn[messages[i].turn].pc # "sent"
      BY <1>9, EntriesAt DEF Waits
    <2> QED
      BY <2>1 DEF Settled, Visible
  <1>12. Agree(messages, Settled(messages, turn, bubble), q, Stored(q, frames))
    BY <1>2, <1>q, NoneFresh DEF View, Agrees
  <1>13. Agree(messages, Visible(messages), q, Visible(q))
    <2>1. CASE f.kind = "error"
      <3>1. Stored(q, frames) = Visible(q)
        BY <1>n, <1>10, <2>1 DEF Stored
      <3>2. \A i \in DOMAIN messages : ~Grows(messages[i], bubble)
        BY <1>4, <2>1, EntriesAt
      <3>3. Settled(messages, turn, bubble) = Visible(messages)
        BY <1>11, <3>2 DEF Visible
      <3> QED
        BY <1>12, <3>1, <3>3
    <2>2. CASE f.kind # "error"
      <3>1. f.kind = "done" /\ DoneComing(frames, m)
        BY <1>1, <1>10, <2>2 DEF IsEnd
      <3>l. Len(messages) \in Nat /\ Len(q) \in Nat /\ DOMAIN q = 1 .. Len(q) /\ DOMAIN messages = 1 .. Len(messages)
        BY <1>2, <1>q, EntriesAt
      <3>a. PICK a \in Nat : a = Len(messages)
        BY <3>l
      <3>b. PICK b \in Nat : b = Len(q)
        BY <3>l
      <3>2. /\ b \in DOMAIN q /\ IsAnswer(q[b]) /\ q[b].turn = m /\ Flow(q[b].text, bubble.text, frames)
        BY <1>2, <1>q, <3>1, <3>b DEF View, FlowsEnd
      <3>3. bubble.text = q[b].text
        <4>1. \A i \in DOMAIN frames : ~Carries(frames[i])
          BY <1>0, <1>8, <3>1 DEF Carries, IsNotice
        <4>2. q[b] \in Entries
          BY <1>2, <1>q, <3>2, EntriesAt
        <4>3. q[b].text \in Seq(Parts) /\ bubble.text \in Seq(Parts)
          BY <4>2, EntriesAt DEF Entries
        <4> QED
          BY <3>2, <4>1, <4>3, FlowEnds
      <3>4. \A i, j \in DOMAIN q : Alike(q[i], q[j]) => i = j
        BY <1>2, <1>q DEF Once
      <3>5. Stored(q, frames) = Visible(q) \ {b}
        <4>1. \A j \in DOMAIN q : IsAnswer(q[j]) /\ q[j].turn = m => j = b
          BY <3>2, <3>4 DEF IsAnswer, Alike, IsSystem
        <4> QED
          BY <1>n, <1>10, <3>1, <3>2, <4>1 DEF Stored, Visible
      <3>6. CASE bubble = NoBubble
        <4>1. q[b].text = <<>> /\ b \notin Visible(q)
          BY <3>2, <3>3, <3>6 DEF NoBubble, Visible, IsAnswer
        <4>2. Stored(q, frames) = Visible(q)
          BY <3>5, <4>1
        <4>3. \A i \in DOMAIN messages : ~Grows(messages[i], bubble)
          BY <3>6, EntriesAt
        <4>4. Settled(messages, turn, bubble) = Visible(messages)
          BY <1>11, <4>3 DEF Visible
        <4> QED
          BY <1>12, <4>2, <4>4
      <3>7. CASE bubble # NoBubble
        <4>1. /\ Busy(bubble.turn) /\ bubble.turn \in Turns /\ bubble.text # <<>> /\ a \in DOMAIN messages
              /\ Grows(messages[a], bubble) /\ messages[a].text = bubble.text
              /\ \A i \in DOMAIN messages : Grows(messages[i], bubble) => i = a
          BY <3>7, <3>a, EntriesAt DEF View, Bubbles
        <4>2. bubble.turn = m
          BY <1>2, <4>1
        <4>3. Same(messages[a], q[b]) /\ a \in Visible(messages) /\ b \in Visible(q)
          BY <3>2, <3>3, <4>1, <4>2 DEF Same, Grows, IsAnswer, Visible
        <4>4. Settled(messages, turn, bubble) = Visible(messages) \ {a}
          BY <1>11, <4>1 DEF Visible
        <4>5. Visible(messages) \ {a} \in SUBSET Nat /\ \A i \in Visible(messages) \ {a} : i < a
          BY <3>l, <3>a DEF Visible
        <4>6. Visible(q) \ {b} \in SUBSET Nat /\ \A j \in Visible(q) \ {b} : j < b
          BY <3>l, <3>b DEF Visible
        <4>7. \A j \in Visible(q) \ {b} : ~Alike(q[j], q[b])
          BY <3>2, <3>4 DEF Visible
        <4>8. Agree(messages, Visible(messages) \ {a}, q, Visible(q) \ {b})
          BY <1>12, <3>5, <4>4
        <4>p. PICK P \in SUBSET Nat : P = Visible(messages) \ {a}
          BY <4>5
        <4>r. PICK Q \in SUBSET Nat : Q = Visible(q) \ {b}
          BY <4>6
        <4>9. Agree(messages, P \cup {a}, q, Q \cup {b})
          BY <4>3, <4>5, <4>6, <4>7, <4>8, <4>p, <4>r, AgreeMore
        <4>10. P \cup {a} = Visible(messages) /\ Q \cup {b} = Visible(q)
          BY <4>3, <4>p, <4>r
        <4> QED
          BY <4>9, <4>10
      <3> QED
        BY <3>6, <3>7
    <2> QED
      BY <2>1, <2>2
  <1>14. Agree(messages', Settled(messages', turn', bubble'), history'[cur'], Stored(history'[cur'], frames'))
    BY <1>1, <1>6, <1>13, <1>q
  <1> QED
    BY <1>5, <1>14 DEF View, Agrees, Agree, Settled, Stored, Visible, Same, Grows, DoneComing, IsAnswer, Brought, Brings, IsSystem

-----------------------------------------------------------------------------
(* The view: all of it.                                                    *)

LEMMA ViewStep ==
  ASSUME IInv, IInv', [Next]_vars, Clean, Clean', Once, Once', Numbered, Counted, Here, Here', Fetched, Synced, View
  PROVE  View'
  <1>0. TypeOK'
    BY TypeStep
  <1>1. CASE \/ UNCHANGED vars
             \/ (\E s \in Sessions : Select(s)) \/ Respond \/ Closing \/ OnClose \/ Reopen
             \/ ServeReply \/ (\E k \in Socks : SyncServed(k) \/ OnSynced(k)) \/ OnAnswered \/ OnAsk
    BY <1>0, <1>1, StillView
  <1>2. CASE Serve
    BY <1>0, <1>2, StillView, ServeView
  <1>3. CASE \E m \in Turns : Send(m)
    BY <1>3, SendView
  <1>4. CASE Logout
    BY <1>4, LogoutView
  <1>5. CASE OnAttached
    BY <1>5, OnAttachedView
  <1>6. CASE \E m \in Turns : PostServed(m) \/ PostFails(m)
    <2>1. PICK m \in Turns : turn[m].pc = "sent" /\ turn[m].src = 0
      BY <1>6, PostServedEffect, PostFailsEffect
    <2>2. nr = 0 /\ nr \in Socks
      BY <2>1 DEF Here, Waits, IInv, TypeOK
    <2> QED
      BY <2>2 DEF Socks
  <1>7. CASE \E m \in Turns : Silent(m)
    <2>1. "untold" \in trouble'
      BY <1>7, SilentEffect
    <2> QED
      BY <2>1 DEF Clean
  <1>8. CASE \E m \in Turns : Done(m)
    BY <1>8, DoneView
  <1>9. CASE \E m \in Turns : Error(m)
    BY <1>9, ErrorView
  <1>10. CASE \E m \in Turns : \E kind \in {"text", "tool", "ask"} : Produce(m, kind)
    BY <1>10, ProduceView
  <1>11. CASE OnText \/ OnTool
    BY <1>11, OnTextView
  <1>s. CASE OnSystem \/ \E m \in Turns : System(m)
    BY <1>s, OnSystemView, SystemView
  <1>12. CASE OnEnd
    BY <1>12, OnEndView
  <1> QED
    BY <1>1, <1>2, <1>3, <1>4, <1>5, <1>6, <1>7, <1>8, <1>9, <1>10, <1>11, <1>s, <1>12
    DEF Next, User, Socket, Server, Client

LEMMA CalmStep ==
  ASSUME IInv, IInv', [Next]_vars, Once, Once', Numbered, Counted, Clean => Calm
  PROVE  (Clean => Calm)'
  <1> SUFFICES ASSUME Clean' PROVE Calm'
    BY DEF Clean
  <1>1. Clean
    BY TroubleStep DEF Clean
  <1>2. Here /\ Fetched /\ Synced /\ View
    BY <1>1 DEF Calm
  <1>3. Here'
    BY <1>1, <1>2, HereStep
  <1>4. Fetched' /\ Synced'
    BY <1>1, <1>2, FetchedStep, SyncedStep
  <1>5. View'
    BY <1>1, <1>2, <1>3, ViewStep
  <1> QED
    BY <1>3, <1>4, <1>5 DEF Calm

LEMMA InitCalm == Init => Once /\ Numbered /\ Counted /\ Calm
  <1> SUFFICES ASSUME Init PROVE Once /\ Numbered /\ Counted /\ Calm
    OBVIOUS
  <1>0. DOMAIN <<>> = {}
    OBVIOUS
  <1>1. /\ DOMAIN messages = {} /\ DOMAIN frames = {} /\ cur = None /\ ~gen /\ bubble = NoBubble
        /\ serving.kind = "none"
        /\ \A s \in Sessions : DOMAIN history[s] = {}
        /\ \A k \in Socks : sync[k].pc = "none"
    BY <1>0 DEF Init, NoSync, NoRequest, Request
  <1>2. \A m \in Turns : answer[m] = <<>> /\ DOMAIN answer[m] = {} /\ ~Waits(m) /\ ~Working(m) /\ ~Ending(m)
    BY <1>0, <1>1 DEF Init, Waits, Working, Ending
  <1>3. Once /\ Numbered /\ Counted
    BY <1>1, <1>2 DEF Once, Numbered, Counted
  <1>4. Here /\ Fetched /\ Synced
    BY <1>1, <1>2 DEF Here, Fetched, Synced, Even
  <1>5. Heeded /\ Bubbles /\ Asked /\ FlowsOut /\ FlowsEnd /\ Agrees /\ Asides
    BY <1>1, <1>2 DEF Heeded, Bubbles, Asked, FlowsOut, FlowsEnd, DoneComing, Agrees, Asides
  <1> QED
    BY <1>3, <1>4, <1>5 DEF Calm, View

\* All of it holds throughout.
THEOREM CalmInvariance == Spec => []JInv
  <1>1. Init => JInv
    BY InitInv, InitCalm DEF JInv
  <1>2. JInv /\ [Next]_vars => JInv'
    <2> SUFFICES ASSUME JInv, [Next]_vars PROVE JInv'
      OBVIOUS
    <2>1. IInv /\ Once /\ Numbered /\ Counted /\ (Clean => Calm)
      BY DEF JInv
    <2>2. IInv'
      BY <2>1, NextInv
    <2>3. Once' /\ Numbered' /\ Counted'
      BY <2>1, OnceStep, NumberedStep, CountedStep
    <2>4. (Clean => Calm)'
      BY <2>1, <2>2, <2>3, CalmStep
    <2> QED
      BY <2>2, <2>3, <2>4 DEF JInv
  <1> QED
    BY <1>1, <1>2, PTL DEF Spec

\* Once nothing is under way, what was put together from texts, tool calls and
\* system messages, attached and synced is what the store holds, in order and
\* without doubles, unless one of the named causes has disturbed it
\* (wsStore.ts:97-225, 393-435, 458-496, 577-616).
THEOREM ViewAgrees == Spec => []ViewIsHistory
  <1>1. JInv => ViewIsHistory
    <2> SUFFICES ASSUME JInv, Clean, AtRest, cur # None
                 PROVE  Agree(messages, Visible(messages), history[cur], Visible(history[cur]))
      BY DEF ViewIsHistory, Clean
    <2>1. IInv /\ Here /\ Bubbles /\ Agrees
      BY DEF JInv, Calm, View
    <2>2. Untroubled /\ "left" \notin trouble
      BY CleanOnes
    <2>3. DOMAIN reqs = {} /\ DOMAIN frames = {} /\ sock = "open"
      BY DEF AtRest
    <2>4. ASSUME NEW m \in Turns, turn[m].src = nr, turn[m].pc \in {"run", "ask"} PROVE FALSE
      <3>1. turn[m].sid = cur
        BY <2>1, <2>2, <2>3, <2>4 DEF IInv, Stays, StaysActive, Active
      <3> QED
        BY <2>4, <3>1 DEF AtRest
    <2>5. ~gen
      BY <2>1, <2>2, <2>3, <2>4 DEF IInv, Marked
    <2>6. bubble = NoBubble
      BY <2>1, <2>5 DEF Bubbles
    <2>7. cur \in Sessions
      BY <2>1, EntriesAt
    <2>8. /\ Settled(messages, turn, bubble) = Visible(messages)
          /\ Stored(history[cur], frames) = Visible(history[cur])
      BY <2>1, <2>5, <2>6, <2>7, IdleSets
    <2> QED
      BY <2>1, <2>8 DEF Agrees
  <1> QED
    BY <1>1, CalmInvariance, PTL
====
