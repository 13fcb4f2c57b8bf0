------------------------- MODULE SessionStoreProofs -------------------------
(***************************************************************************)
(* Acknowledged messages are kept, never doubled, and the store implements *)
(* the durable log, for any sessions, messages, writers and arrays.        *)
(***************************************************************************)
EXTENDS SessionStore, SequenceTheorems, TLAPS

\* Backing arrays are not shared between sessions.
Disjoint ==
  /\ \A s, t \in Sessions : s # t /\ histories[s].arr # NoArray => histories[s].arr # histories[t].arr
  /\ \A w \in Writers, s \in Sessions :
       wr[w].sid # s /\ wr[w].slice.arr # NoArray => wr[w].slice.arr # histories[s].arr
  /\ \A w, v \in Writers :
       wr[w].sid # wr[v].sid /\ wr[w].slice.arr # NoArray => wr[w].slice.arr # wr[v].slice.arr

\* An idle writer has no locals, and nobody writes while the process is down.
Idling == \A w \in Writers : /\ wr[w].pc = "idle" <=> wr[w].sid = NoSession
                             /\ wr[w].pc = "idle" => wr[w] = IdleWriter
                             /\ ~up => wr[w].pc = "idle"

\* An id no call was made with yet has left no trace.
Unknown ==
  \A s \in Sessions : s \notin known =>
    /\ On(s) = {} /\ log[s] = <<>> /\ hist[s] = NoFile /\ histories[s] = NilSlice

\* What memory and disk hold when call w on session s is at each step.
Phase(w, s) ==
  LET r  == wr[w]
      l  == log[s]
      l1 == Append(log[s], r.msg)
      M  == Content(histories[s])
      D  == Loaded(hist[s]) IN
  /\ r.msg = NoMsg => l = <<>>
  /\ r.pc = "history" => r.msg = NoMsg /\ D = l /\ M = l
  /\ r.pc = "append" => r.msg # NoMsg /\ D = l /\ M = l /\ r.slice = histories[s]
  /\ r.pc = "touch" => r.msg # NoMsg /\ D = l /\ M = l1 /\ r.slice = histories[s]
  /\ r.pc \in {"meta", "metawrite"} =>
       /\ D = l
       /\ r.msg = NoMsg => M = l
       /\ r.msg # NoMsg => M = l1 /\ r.slice = histories[s]
  /\ r.pc = "metawrite" => meta[s] = "empty"
  /\ r.pc = "save" => r.msg # NoMsg /\ D = l /\ M = l1 /\ meta[s] = "ok" /\ r.slice = histories[s]
  /\ r.pc = "savewrite" => r.msg # NoMsg /\ hist[s] = EmptyFile /\ M = l1 /\ r.data = l1 /\ meta[s] = "ok"
  /\ r.pc = "return" => r.msg # NoMsg /\ D = l1 /\ M = l1 /\ meta[s] = "ok"

\* One call at a time, in one of its phases; between calls nothing differs;
\* without meta.json there is no history on disk.
KeptAt(s) ==
  s \notin tainted =>
    /\ \A w, v \in On(s) : w = v
    /\ \A w \in On(s) : Phase(w, s)
    /\ On(s) = {} => /\ Restored(s) = log[s] /\ Loaded(hist[s]) = log[s]
                     /\ up => Content(histories[s]) = log[s]
    /\ meta[s] = "none" => hist[s].state # "ok"
    /\ hist[s].state # "mixed"

Kept == \A s \in Sessions : KeptAt(s)

IInv == TypeOK /\ Disjoint /\ Idling /\ Unknown /\ Kept
-----------------------------------------------------------------------------
(* Slices.                                                                 *)

\* A slice within its array, and what it holds, for given array contents.
Within(sl, c) == sl.arr \in Arrays => sl.len <= Len(c[sl.arr])
ContentIn(sl, c) == IF sl.arr = NoArray THEN <<>> ELSE SubSeq(c[sl.arr], 1, sl.len)

LEMMA PrefixType ==
  ASSUME NEW q \in Seq(Msgs), NEW n \in Nat, n <= Len(q)
  PROVE  /\ SubSeq(q, 1, n) \in Seq(Msgs)
         /\ Len(SubSeq(q, 1, n)) = n
         /\ \A i \in 1 .. n : SubSeq(q, 1, n)[i] = q[i]
<1>1. \A i \in 1 .. n : q[i] \in Msgs
  BY ElementOfSeq
<1> QED BY <1>1, SubSeqProperties

LEMMA ContentType ==
  ASSUME NEW c \in [Arrays -> Seq(Msgs)], NEW sl \in SliceType, Within(sl, c)
  PROVE  /\ ContentIn(sl, c) \in Seq(Msgs)
         /\ sl.arr # NoArray => Len(ContentIn(sl, c)) = sl.len
<1>1. CASE sl.arr = NoArray
  BY <1>1 DEF ContentIn
<1>2. CASE sl.arr # NoArray
  BY <1>2, PrefixType DEF ContentIn, SliceType, Within
<1> QED BY <1>1, <1>2

LEMMA PutProperties ==
  ASSUME NEW q \in Seq(Msgs), NEW m \in Msgs, NEW k \in Nat \ {0}, k <= Len(q) + 1
  PROVE  /\ Put(q, k, m) \in Seq(Msgs)
         /\ Len(Put(q, k, m)) = IF k <= Len(q) THEN Len(q) ELSE k
         /\ Put(q, k, m)[k] = m
         /\ \A i \in 1 .. k - 1 : Put(q, k, m)[i] = q[i]
<1>1. CASE k <= Len(q)
  BY <1>1, ExceptSeq DEF Put
<1>2. CASE k = Len(q) + 1
  BY <1>2, LenProperties DEF Put
<1> QED BY <1>1, <1>2, LenProperties

\* append keeps what the slice held, adds the message at the end, and does not
\* disturb a slice of another array.
LEMMA SliceAppend ==
  ASSUME TypeOK, NEW sl \in SliceType, NEW m \in Msgs, NEW a \in Arrays,
         SliceOK(sl),
         AppendTo(sl, m, [arr |-> a, len |-> sl.len + 1])
  PROVE  /\ cells' \in [Arrays -> Seq(Msgs)] /\ cap' \in [Arrays -> Nat]
         /\ \A b \in Arrays \ {a} : cells'[b] = cells[b] /\ cap'[b] = cap[b]
         /\ a = sl.arr \/ a \notin Live
         /\ a = sl.arr => Len(cells[a]) <= Len(cells'[a])
         /\ sl.len + 1 <= Len(cells'[a]) /\ Len(cells'[a]) <= cap'[a]
         /\ ContentIn([arr |-> a, len |-> sl.len + 1], cells') = Append(ContentIn(sl, cells), m)
<1> DEFINE new == [arr |-> a, len |-> sl.len + 1]
<1> USE NoneFresh
<1>1. /\ sl.len \in Nat /\ sl.arr \in Arrays \cup {NoArray}
      /\ cells \in [Arrays -> Seq(Msgs)] /\ cap \in [Arrays -> Nat]
      /\ ContentIn(sl, cells) \in Seq(Msgs)
      /\ sl.arr # NoArray => Len(ContentIn(sl, cells)) = sl.len
      /\ sl.arr = NoArray => sl.len = 0
      /\ sl.arr # NoArray => sl.len <= Len(cells[sl.arr]) /\ Len(cells[sl.arr]) <= cap[sl.arr]
  BY ContentType DEF SliceType, SliceOK, TypeOK, Within
<1>2. CASE sl.arr # NoArray /\ sl.len < cap[sl.arr]
  <2>1. /\ a = sl.arr /\ a \in Arrays /\ cap' = cap
        /\ cells' = [cells EXCEPT ![a] = Put(cells[a], sl.len + 1, m)]
    BY <1>1, <1>2 DEF AppendTo
  <2>2. sl.len + 1 \in Nat \ {0} /\ sl.len + 1 <= Len(cells[a]) + 1 /\ cells[a] \in Seq(Msgs)
    BY <1>1, <2>1 DEF Within
  <2> DEFINE q == Put(cells[a], sl.len + 1, m)
  <2>3. /\ q \in Seq(Msgs) /\ q[sl.len + 1] = m
        /\ Len(q) = IF sl.len + 1 <= Len(cells[a]) THEN Len(cells[a]) ELSE sl.len + 1
        /\ \A i \in 1 .. sl.len : q[i] = cells[a][i]
    BY <1>1, <2>2, PutProperties
  <2>4. cells'[a] = q
    BY <1>1, <2>1
  <2> HIDE DEF q
  <2>5. Len(q) \in Nat /\ Len(cells[a]) \in Nat /\ sl.len <= Len(cells[a]) /\ cap[a] \in Nat
    BY <1>1, <2>1, <2>2, <2>3, LenProperties DEF Within
  <2>6. sl.len + 1 <= Len(q) /\ Len(q) <= cap[a] /\ Len(cells[a]) <= Len(q)
    BY <1>1, <1>2, <2>1, <2>3, <2>5
  <2>7. SubSeq(q, 1, sl.len + 1) = Append(SubSeq(cells[a], 1, sl.len), m)
    <3> DEFINE x == SubSeq(q, 1, sl.len + 1)
               y == SubSeq(cells[a], 1, sl.len)
    <3>1. x \in Seq(Msgs) /\ Len(x) = sl.len + 1 /\ \A i \in 1 .. sl.len + 1 : x[i] = q[i]
      BY <1>1, <2>3, <2>6, PrefixType
    <3>2. y \in Seq(Msgs) /\ Len(y) = sl.len /\ \A i \in 1 .. sl.len : y[i] = cells[a][i]
      BY <1>1, <2>2, <2>5, PrefixType
    <3> HIDE DEF x, y
    <3>3. /\ Append(y, m) \in Seq(Msgs) /\ Len(Append(y, m)) = sl.len + 1
          /\ \A i \in 1 .. sl.len + 1 : Append(y, m)[i] = IF i = sl.len + 1 THEN m ELSE y[i]
      BY <1>1, <3>2
    <3>4. \A i \in 1 .. Len(x) : x[i] = Append(y, m)[i]
      BY <1>1, <2>3, <3>1, <3>2, <3>3
    <3>5. x = Append(y, m)
      BY <3>1, <3>3, <3>4, SeqEqual
    <3> QED BY <3>5 DEF x, y
  <2>8. ContentIn(new, cells') = Append(ContentIn(sl, cells), m)
    BY <1>2, <2>1, <2>4, <2>7 DEF ContentIn
  <2> QED BY <1>1, <2>1, <2>3, <2>4, <2>6, <2>8
<1>3. CASE ~(sl.arr # NoArray /\ sl.len < cap[sl.arr])
  <2> DEFINE q == Append(ContentIn(sl, cells), m)
  <2>1. PICK room \in 0 .. 1 : /\ a \in Arrays \ Live
                              /\ cells' = [cells EXCEPT ![a] = q]
                              /\ cap' = [cap EXCEPT ![a] = sl.len + 1 + room]
    BY <1>3 DEF AppendTo, ContentIn, Content
  <2>2. q \in Seq(Msgs) /\ Len(q) = sl.len + 1
    <3>1. Len(ContentIn(sl, cells)) = sl.len
      BY <1>1 DEF ContentIn
    <3> QED BY <1>1, <3>1
  <2> HIDE DEF q
  <2>3. cells'[a] = q /\ cap'[a] = sl.len + 1 + room
    BY <1>1, <2>1
  <2>4. SubSeq(q, 1, sl.len + 1) = q
    BY <2>2, SubSeqFull
  <2>5. ContentIn(new, cells') = Append(ContentIn(sl, cells), m)
    BY <2>3, <2>4 DEF ContentIn, q
  <2>6. /\ cells' \in [Arrays -> Seq(Msgs)] /\ cap' \in [Arrays -> Nat]
        /\ \A b \in Arrays \ {a} : cells'[b] = cells[b] /\ cap'[b] = cap[b]
    BY <1>1, <2>1, <2>2
  <2>7. sl.len + 1 <= Len(cells'[a]) /\ Len(cells'[a]) <= cap'[a]
    BY <1>1, <2>2, <2>3
  <2>8. a = sl.arr => Len(cells[a]) <= Len(cells'[a])
    BY <1>1, <1>3, <2>2, <2>3, LenProperties
  <2> QED BY <2>1, <2>5, <2>6, <2>7, <2>8
<1> QED BY <1>2, <1>3

-----------------------------------------------------------------------------
(* Type correctness.                                                       *)

LEMMA FileTypes ==
  /\ NoFile \in FileType /\ EmptyFile \in FileType /\ MixedFile \in FileType
  /\ \A h \in Seq(Msgs) : File(h) \in FileType
<1>1. <<>> \in Seq(Msgs)
  OBVIOUS
<1>2. \A h \in Seq(Msgs), x \in FileStates : [state |-> x, val |-> h] \in FileType
  BY DEF FileType
<1> QED BY <1>1, <1>2 DEF NoFile, EmptyFile, MixedFile, File, FileStates

LEMMA IdleType == IdleWriter \in WriterType /\ WriterOK(IdleWriter) /\ NilSlice \in SliceType
<1>1. <<>> \in Seq(Msgs)
  OBVIOUS
<1> QED BY <1>1, NoneFresh DEF WriterOK, IdleWriter, WriterType, NilSlice, SliceType, SliceOK

LEMMA InitType == Init => TypeOK
<1> SUFFICES ASSUME Init PROVE TypeOK
  OBVIOUS
<1>1. <<>> \in Seq(Msgs) /\ Len(<<>>) = 0
  OBVIOUS
<1>2. /\ up \in BOOLEAN /\ sessions \in SUBSET Sessions
      /\ cells \in [Arrays -> Seq(Msgs)] /\ cap \in [Arrays -> Nat]
      /\ \A a \in Arrays : Len(cells[a]) <= cap[a]
      /\ log \in [Sessions -> Seq(Msgs)]
      /\ sent \in SUBSET Msgs /\ known \in SUBSET Sessions /\ tainted \in SUBSET Sessions
  BY <1>1 DEF Init
<1>3. meta \in [Sessions -> FileStates] /\ hist \in [Sessions -> FileType]
  BY FileTypes DEF Init, FileStates
<1>4. wr \in [Writers -> WriterType] /\ \A w \in Writers : WriterOK(wr[w])
  BY IdleType DEF Init
<1>5. histories \in [Sessions -> SliceType] /\ \A s \in Sessions : SliceOK(histories[s])
  BY IdleType, NoneFresh DEF Init, SliceOK, NilSlice
<1> QED BY <1>2, <1>3, <1>4, <1>5 DEF TypeOK

\* A step of one writer that leaves the arrays alone.
LEMMA WriterFrame ==
  ASSUME TypeOK, NEW w \in Writers, NEW r \in WriterType,
         wr' = [wr EXCEPT ![w] = r], WriterOK(r), UNCHANGED <<cells, cap>>
  PROVE  /\ wr' \in [Writers -> WriterType]
         /\ \A v \in Writers : WriterOK(wr[v])'
         /\ wr'[w] = r /\ \A v \in Writers \ {w} : wr'[v] = wr[v]
<1>1. /\ wr \in [Writers -> WriterType] /\ \A v \in Writers : WriterOK(wr[v])
  BY DEF TypeOK
<1>2. \A v \in Writers : wr'[v] = IF v = w THEN r ELSE wr[v]
  BY <1>1
<1>3. \A v \in Writers : WriterOK(wr[v])'
  BY <1>1, <1>2 DEF WriterOK, SliceOK
<1> QED BY <1>1, <1>2, <1>3

\* The same, for the parts of TypeOK a step of a writer may disturb.
LEMMA FrameType ==
  ASSUME TypeOK, NEW w \in Writers, NEW r \in WriterType,
         wr' = [wr EXCEPT ![w] = r], WriterOK(r), UNCHANGED <<cells, cap>>,
         up' \in BOOLEAN, sessions' \in SUBSET Sessions,
         histories' \in [Sessions -> SliceType], \A s \in Sessions : SliceOK(histories'[s]),
         meta' \in [Sessions -> FileStates],
         hist' \in [Sessions -> FileType],
         sent' \in SUBSET Msgs, known' \in SUBSET Sessions,
         log' \in [Sessions -> Seq(Msgs)], tainted' \in SUBSET Sessions
  PROVE  TypeOK'
<1>1. /\ wr' \in [Writers -> WriterType]
      /\ \A v \in Writers : WriterOK(wr[v])'
  BY WriterFrame
<1>2. \A s \in Sessions : SliceOK(histories[s])'
  BY DEF SliceOK
<1>3. /\ cells' \in [Arrays -> Seq(Msgs)] /\ cap' \in [Arrays -> Nat]
      /\ \A a \in Arrays : Len(cells'[a]) <= cap'[a]
  BY DEF TypeOK
<1> QED BY <1>1, <1>2, <1>3 DEF TypeOK

LEMMA StepType ==
  ASSUME TypeOK, NEW w \in Writers, Step(w)
  PROVE  TypeOK'
<1> USE NoneFresh
<1>w. /\ wr[w] \in WriterType /\ WriterOK(wr[w]) /\ wr \in [Writers -> WriterType]
      /\ IdleWriter \in WriterType /\ WriterOK(IdleWriter)
      /\ wr[w].pc # "idle" => wr[w].sid \in Sessions
  BY IdleType DEF TypeOK, WriterOK
<1>1. CASE CreateHistory(w)
  <2> DEFINE r == [wr[w] EXCEPT !.pc = "meta"]
  <2>1. r \in WriterType /\ WriterOK(r)
    BY <1>1, <1>w DEF CreateHistory, WriterType, WriterOK
  <2>2. histories' \in [Sessions -> SliceType] /\ \A s \in Sessions : SliceOK(histories'[s])
    BY <1>1, <1>w DEF CreateHistory, TypeOK, NilSlice, SliceType, SliceOK
  <2>3. wr' = [wr EXCEPT ![w] = r] /\ UNCHANGED <<up, sessions, cells, cap, diskVars, ghostVars>>
    BY <1>1 DEF CreateHistory, Goto
  <2> HIDE DEF r
  <2> QED BY <2>1, <2>2, <2>3, FrameType DEF TypeOK, diskVars, ghostVars
<1>2. CASE AddStore(w)
  <2>1. PICK sl \in SliceType, s \in Sessions, m \in Msgs :
               sl = wr[w].slice /\ s = wr[w].sid /\ m = wr[w].msg
    BY <1>2, <1>w DEF AddStore, WriterOK, WriterType
  <2>2. PICK a \in Arrays :
               /\ AppendTo(sl, m, [arr |-> a, len |-> sl.len + 1])
               /\ histories' = [histories EXCEPT ![s] = [arr |-> a, len |-> sl.len + 1]]
               /\ wr' = [wr EXCEPT ![w] = [wr[w] EXCEPT !.pc = "touch", !.slice = [arr |-> a, len |-> sl.len + 1]]]
    BY <1>2, <2>1 DEF AddStore
  <2> DEFINE new == [arr |-> a, len |-> sl.len + 1]
             r == [wr[w] EXCEPT !.pc = "touch", !.slice = new]
  <2>3. new \in SliceType /\ SliceOK(sl) /\ UNCHANGED <<up, sessions, diskVars, ghostVars>>
    BY <1>2, <1>w, <2>1 DEF AddStore, WriterOK, SliceType
  <2>4. /\ cells' \in [Arrays -> Seq(Msgs)] /\ cap' \in [Arrays -> Nat]
        /\ \A b \in Arrays \ {a} : cells'[b] = cells[b] /\ cap'[b] = cap[b]
        /\ a = sl.arr \/ a \notin Live
        /\ a = sl.arr => Len(cells[a]) <= Len(cells'[a])
        /\ new.len <= Len(cells'[a]) /\ Len(cells'[a]) <= cap'[a]
    BY <2>2, <2>3, SliceAppend
  <2>5. \A b \in Arrays : Len(cells'[b]) <= cap'[b]
    BY <2>4 DEF TypeOK
  <2>6. ASSUME NEW x \in SliceType, SliceOK(x), x.arr \in Live
        PROVE  SliceOK(x)'
    <3>1. CASE x.arr = a
      <4>1. Len(cells[a]) <= Len(cells'[a]) /\ x.len <= Len(cells[a])
        BY <2>4, <2>6, <3>1 DEF SliceOK
      <4>2. Len(cells[a]) \in Nat /\ Len(cells'[a]) \in Nat /\ x.len \in Nat
        BY <2>4, LenProperties DEF TypeOK, SliceType
      <4> QED BY <3>1, <4>1, <4>2 DEF SliceOK
    <3>2. CASE x.arr # a
      BY <2>4, <2>6, <3>2 DEF SliceOK, SliceType
    <3> QED BY <3>1, <3>2
  <2>7. SliceOK(new)'
    BY <2>4 DEF SliceOK
  <2> HIDE DEF new
  <2>8. \A t \in Sessions : histories'[t] \in SliceType /\ SliceOK(histories[t])'
    <3> SUFFICES ASSUME NEW t \in Sessions PROVE histories'[t] \in SliceType /\ SliceOK(histories[t])'
      OBVIOUS
    <3>1. histories'[t] = IF t = s THEN new ELSE histories[t]
      BY <2>2 DEF TypeOK, new
    <3>2. histories[t] \in SliceType /\ SliceOK(histories[t]) /\ histories[t].arr \in Live
      BY DEF TypeOK, Live
    <3>3. CASE t = s
      BY <2>3, <2>7, <3>1, <3>3 DEF SliceOK
    <3>4. CASE t # s
      <4>1. PICK x \in SliceType : x = histories[t]
        BY <3>2
      <4>2. SliceOK(x)'
        BY <2>6, <3>2, <4>1
      <4> QED BY <3>1, <3>4, <4>1, <4>2 DEF SliceOK
    <3> QED BY <3>3, <3>4
  <2>9. \A v \in Writers : wr'[v] \in WriterType /\ WriterOK(wr[v])'
    <3> SUFFICES ASSUME NEW v \in Writers PROVE wr'[v] \in WriterType /\ WriterOK(wr[v])'
      OBVIOUS
    <3>1. wr'[v] = IF v = w THEN r ELSE wr[v]
      BY <1>w, <2>2 DEF new
    <3>2. wr[v] \in WriterType /\ WriterOK(wr[v]) /\ wr[v].slice.arr \in Live
      BY DEF TypeOK, Live
    <3>3. CASE v = w
      <4>1. r \in WriterType /\ r.sid = s /\ r.msg = m /\ r.slice = new
        BY <1>w, <2>1, <2>3 DEF WriterType
      <4> QED BY <2>7, <3>1, <3>3, <4>1 DEF WriterOK, SliceOK
    <3>4. CASE v # w
      <4>1. PICK x \in SliceType : x = wr[v].slice
        BY <3>2 DEF WriterType
      <4>2. SliceOK(x)'
        BY <2>6, <3>2, <4>1 DEF WriterOK
      <4> QED BY <3>1, <3>2, <3>4, <4>1, <4>2 DEF SliceOK, WriterOK
    <3> QED BY <3>3, <3>4
  <2>10. wr' \in [Writers -> WriterType] /\ histories' \in [Sessions -> SliceType]
    BY <1>w, <2>2, <2>8, <2>9 DEF TypeOK
  <2> QED BY <2>3, <2>4, <2>5, <2>8, <2>9, <2>10 DEF TypeOK, diskVars, ghostVars
<1>3. CASE AddTouch(w)
  <2> DEFINE r == [wr[w] EXCEPT !.pc = IF wr[w].sid \in sessions THEN "meta" ELSE "save"]
  <2>1. r \in WriterType /\ WriterOK(r)
    BY <1>3, <1>w DEF AddTouch, WriterType, WriterOK
  <2>2. /\ wr' = [wr EXCEPT ![w] = r] /\ UNCHANGED <<up, memVars, diskVars, sent, known, log>>
        /\ wr[w].pc = "touch"
        /\ tainted' = tainted \/ tainted' = tainted \cup {wr[w].sid}
    BY <1>3 DEF AddTouch, Goto, TaintIf
  <2> HIDE DEF r
  <2>3. tainted' \in SUBSET Sessions
    BY <2>2, <1>w DEF TypeOK
  <2> QED BY <2>1, <2>2, <2>3, FrameType DEF TypeOK, memVars, diskVars
<1>4. CASE MetaOpen(w)
  <2> DEFINE r == [wr[w] EXCEPT !.pc = "metawrite"]
  <2>1. r \in WriterType /\ WriterOK(r)
    BY <1>w, <1>4 DEF MetaOpen, WriterType, WriterOK
  <2>2. wr' = [wr EXCEPT ![w] = r] /\ UNCHANGED <<up, memVars, hist, ghostVars>>
    BY <1>4 DEF MetaOpen, Goto
  <2>3. meta' \in [Sessions -> FileStates]
    BY <1>4 DEF MetaOpen, TypeOK, FileStates
  <2> HIDE DEF r
  <2> QED BY <2>1, <2>2, <2>3, FrameType DEF TypeOK, memVars, ghostVars
<1>5. CASE MetaWrite(w)
  <2> DEFINE r == IF wr[w].msg = NoMsg THEN IdleWriter ELSE [wr[w] EXCEPT !.pc = "save"]
  <2>1. r \in WriterType /\ WriterOK(r)
    BY <1>w, <1>5 DEF MetaWrite, WriterType, WriterOK
  <2>2. wr' = [wr EXCEPT ![w] = r] /\ UNCHANGED <<up, memVars, hist, ghostVars>>
    BY <1>5 DEF MetaWrite, AfterMeta
  <2>3. meta' \in [Sessions -> FileStates]
    BY <1>5 DEF MetaWrite, MetaWritten, TypeOK, FileStates
  <2> HIDE DEF r
  <2> QED BY <2>1, <2>2, <2>3, FrameType DEF TypeOK, memVars, ghostVars
<1>6. CASE HistoryOpen(w)
  <2> DEFINE r == [wr[w] EXCEPT !.pc = "savewrite", !.data = Content(wr[w].slice)]
  <2>1. r \in WriterType /\ WriterOK(r)
    <3>1. Content(wr[w].slice) \in Seq(Msgs)
      BY <1>w, ContentType DEF TypeOK, WriterOK, WriterType, SliceOK, Within, Content, ContentIn
    <3> HIDE DEF Content
    <3> QED BY <3>1, <1>w, <1>6 DEF HistoryOpen, WriterType, WriterOK
  <2>2. wr' = [wr EXCEPT ![w] = r] /\ UNCHANGED <<up, memVars, meta, ghostVars>>
    BY <1>6 DEF HistoryOpen
  <2>3. hist' \in [Sessions -> FileType]
    BY <1>6, FileTypes DEF HistoryOpen, TypeOK
  <2> HIDE DEF r
  <2> QED BY <2>1, <2>2, <2>3, FrameType DEF TypeOK, memVars, ghostVars
<1>7. CASE HistoryWrite(w)
  <2> DEFINE r == [wr[w] EXCEPT !.pc = "return"]
  <2>1. r \in WriterType /\ WriterOK(r)
    BY <1>w, <1>7 DEF HistoryWrite, WriterType, WriterOK
  <2>2. wr' = [wr EXCEPT ![w] = r] /\ UNCHANGED <<up, memVars, meta, ghostVars>>
    BY <1>7 DEF HistoryWrite, Goto
  <2>3. hist' \in [Sessions -> FileType]
    <3>1. PICK f \in Written(hist[wr[w].sid], wr[w].data) : hist' = [hist EXCEPT ![wr[w].sid] = f]
      BY <1>7 DEF HistoryWrite
    <3>2. f \in {File(wr[w].data), MixedFile}
      BY <3>1 DEF Written
    <3>3. f \in FileType
      BY <3>2, <1>w, FileTypes DEF WriterType
    <3> QED BY <3>1, <3>3 DEF TypeOK
  <2> HIDE DEF r
  <2> QED BY <2>1, <2>2, <2>3, FrameType DEF TypeOK, memVars, ghostVars
<1>8. CASE AddReturn(w)
  <2>1. /\ wr' = [wr EXCEPT ![w] = IdleWriter]
        /\ UNCHANGED <<up, memVars, diskVars, sent, known, tainted>>
        /\ log' = [log EXCEPT ![wr[w].sid] = Append(@, wr[w].msg)]
        /\ wr[w].pc = "return"
    BY <1>8 DEF AddReturn
  <2>2. log' \in [Sessions -> Seq(Msgs)]
    BY <2>1, <1>w DEF TypeOK, WriterOK
  <2> QED BY <1>w, <2>1, <2>2, FrameType DEF TypeOK, memVars, diskVars
<1>9. CASE MetaFails(w)
  <2> DEFINE r == IF wr[w].msg = NoMsg THEN IdleWriter ELSE [wr[w] EXCEPT !.pc = "save"]
  <2>1. r \in WriterType /\ WriterOK(r)
    BY <1>w, <1>9 DEF MetaFails, WriterType, WriterOK
  <2>2. /\ wr' = [wr EXCEPT ![w] = r] /\ UNCHANGED <<up, memVars, diskVars, sent, known, log>>
        /\ tainted' = tainted \cup {wr[w].sid} /\ wr[w].pc # "idle"
    BY <1>9 DEF MetaFails, AfterMeta, TaintIf
  <2> HIDE DEF r
  <2>3. tainted' \in SUBSET Sessions
    BY <2>2, <1>w DEF TypeOK
  <2> QED BY <2>1, <2>2, <2>3, FrameType DEF TypeOK, memVars, diskVars
<1>10. CASE HistoryFails(w)
  <2> DEFINE r == [wr[w] EXCEPT !.pc = "return"]
  <2>1. r \in WriterType /\ WriterOK(r)
    BY <1>w, <1>10 DEF HistoryFails, WriterType, WriterOK
  <2>2. /\ wr' = [wr EXCEPT ![w] = r] /\ UNCHANGED <<up, memVars, diskVars, sent, known, log>>
        /\ tainted' = tainted \cup {wr[w].sid} /\ wr[w].pc # "idle"
    BY <1>10 DEF HistoryFails, Goto, TaintIf
  <2> HIDE DEF r
  <2>3. tainted' \in SUBSET Sessions
    BY <2>2, <1>w DEF TypeOK
  <2> QED BY <2>1, <2>2, <2>3, FrameType DEF TypeOK, memVars, diskVars
<1> QED BY <1>1, <1>2, <1>3, <1>4, <1>5, <1>6, <1>7, <1>8, <1>9, <1>10 DEF Step

LEMMA NextType == TypeOK /\ Idling /\ [Next]_vars => TypeOK'
<1> SUFFICES ASSUME TypeOK, Idling, [Next]_vars PROVE TypeOK'
  OBVIOUS
<1> USE NoneFresh
<1>0. IdleWriter \in WriterType /\ WriterOK(IdleWriter) /\ NilSlice \in SliceType
  BY IdleType
<1>1. ASSUME NEW w \in Writers, Step(w) PROVE TypeOK'
  BY <1>1, StepType
<1>2. ASSUME NEW w \in Writers, NEW s \in Sessions, CreateSession(w, s) PROVE TypeOK'
  <2> DEFINE r == [IdleWriter EXCEPT !.pc = "history", !.sid = s]
  <2>1. r \in WriterType /\ WriterOK(r)
    BY <1>0 DEF IdleWriter, WriterType, WriterOK
  <2>2. /\ wr' = [wr EXCEPT ![w] = r] /\ UNCHANGED <<up, histories, cells, cap, diskVars, sent, log>>
        /\ sessions' = sessions \cup {s} /\ known' = known \cup {s}
        /\ tainted' = tainted \/ tainted' = tainted \cup {s}
    BY <1>2 DEF CreateSession, TaintIf
  <2> HIDE DEF r
  <2> QED BY <2>1, <2>2, FrameType DEF TypeOK, diskVars
<1>3. ASSUME NEW w \in Writers, NEW s \in Sessions, NEW m \in Msgs, AddLoad(w, s, m) PROVE TypeOK'
  <2> DEFINE r == [IdleWriter EXCEPT !.pc = "append", !.sid = s, !.msg = m, !.slice = histories[s]]
  <2>1. r \in WriterType /\ WriterOK(r)
    BY <1>0 DEF IdleWriter, WriterType, WriterOK, TypeOK
  <2>2. /\ wr' = [wr EXCEPT ![w] = r] /\ UNCHANGED <<up, memVars, diskVars, log>>
        /\ sent' = sent \cup {m} /\ known' = known \cup {s}
        /\ tainted' = tainted \/ tainted' = tainted \cup {s}
    BY <1>3 DEF AddLoad, TaintIf
  <2> HIDE DEF r
  <2> QED BY <2>1, <2>2, FrameType DEF TypeOK, diskVars, memVars
<1>4. \A s \in Sessions : Loaded(hist[s]) \in Seq(Msgs)
  BY DEF TypeOK, Loaded, FileType
<1>5. CASE Crash
  <2>1. /\ up' = FALSE /\ sessions' = {}
        /\ histories' = [s \in Sessions |-> NilSlice]
        /\ wr' = [w \in Writers |-> IdleWriter]
        /\ tainted' = tainted \cup {s \in Sessions : Unreadable(s)}
        /\ log' = [s \in Sessions |-> IF s \in tainted' THEN log[s] ELSE Loaded(hist[s])]
        /\ UNCHANGED <<cells, cap, diskVars, sent, known>>
    BY <1>5 DEF Crash
  <2>2. log' \in [Sessions -> Seq(Msgs)]
    BY <1>4, <2>1 DEF TypeOK
  <2>3. tainted' \in SUBSET Sessions
    BY <2>1 DEF TypeOK
  <2>4. wr' \in [Writers -> WriterType] /\ histories' \in [Sessions -> SliceType]
    BY <1>0, <2>1
  <2>5. \A w \in Writers : WriterOK(wr[w])'
    BY <1>0, <2>1 DEF WriterOK, IdleWriter, NilSlice, SliceOK
  <2>6. \A s \in Sessions : SliceOK(histories[s])'
    BY <2>1 DEF NilSlice, SliceOK
  <2> QED BY <2>1, <2>2, <2>3, <2>4, <2>5, <2>6 DEF TypeOK, diskVars
<1>6. CASE Restart
  <2>1. \A s \in Sessions : Restored(s) \in Seq(Msgs) /\ Len(Restored(s)) \in Nat
    BY <1>4, LenProperties DEF Restored
  <2> DEFINE old == {s \in Sessions : Restored(s) # <<>>}
  <2>2. /\ up' = TRUE /\ sessions' = {s \in Sessions : meta[s] = "ok"} 
        /\ UNCHANGED <<diskVars, wr, ghostVars>>
    BY <1>6 DEF Restart
  <2>3. PICK at \in [old -> Arrays] :
          /\ \A s, t \in old : s # t => at[s] # at[t]
          /\ histories' = [s \in Sessions |->
                            IF s \in old THEN [arr |-> at[s], len |-> Len(Restored(s))] ELSE NilSlice]
          /\ cells' = [a \in Arrays |->
                        IF \E s \in old : at[s] = a
                          THEN Restored(CHOOSE s \in old : at[s] = a) ELSE <<>>]
          /\ \E room \in 0 .. 1 : cap' = [a \in Arrays |-> Len(cells'[a]) + room]
    BY <1>6 DEF Restart
  <2>4. \A s \in old : cells'[at[s]] = Restored(s)
    <3> SUFFICES ASSUME NEW s \in old PROVE cells'[at[s]] = Restored(s)
      OBVIOUS
    <3>1. \A t \in old : at[t] = at[s] => t = s
      BY <2>3
    <3>2. (CHOOSE t \in old : at[t] = at[s]) = s
      BY <3>1
    <3> QED BY <2>3, <3>2
  <2>5. cells' \in [Arrays -> Seq(Msgs)]
    <3> SUFFICES ASSUME NEW a \in Arrays PROVE cells'[a] \in Seq(Msgs)
      BY <2>3
    <3>1. CASE \E s \in old : at[s] = a
      BY <2>1, <2>4, <3>1
    <3>2. CASE ~ \E s \in old : at[s] = a
      BY <2>3, <3>2
    <3> QED BY <3>1, <3>2
  <2>6. cap' \in [Arrays -> Nat] /\ \A a \in Arrays : Len(cells'[a]) <= cap'[a]
    <3>1. \A a \in Arrays : Len(cells'[a]) \in Nat
      BY <2>5, LenProperties
    <3> QED BY <2>3, <3>1
  <2>7. histories' \in [Sessions -> SliceType] /\ \A s \in Sessions : SliceOK(histories[s])'
    <3> DEFINE n == [s \in old |-> Len(Restored(s))]
    <3>0. n \in [old -> Nat] /\ \A s \in old : n[s] = Len(Restored(s))
      BY <2>1
    <3>1. \A s \in old : histories'[s] = [arr |-> at[s], len |-> n[s]] /\ at[s] \in Arrays
      BY <2>3
    <3>2. \A s \in Sessions \ old : histories'[s] = NilSlice
      BY <2>3
    <3>3. \A s \in Sessions : histories'[s] \in SliceType
      <4>1. \A s \in old : histories'[s] \in SliceType
        <5> HIDE DEF n, old
        <5>1. \A s \in old : n[s] \in Nat /\ at[s] \in Arrays
          BY <3>0
        <5>2. \A s \in old : [arr |-> at[s], len |-> n[s]] \in SliceType
          BY <5>1 DEF SliceType
        <5> QED BY <3>1, <5>2
      <4> QED BY <1>0, <3>2, <4>1
    <3>4. \A s \in Sessions : SliceOK(histories[s])'
      <4>1. \A s \in old : SliceOK(histories[s])'
        <5> SUFFICES ASSUME NEW s \in old PROVE SliceOK(histories[s])'
          OBVIOUS
        <5>1. /\ histories'[s].arr = at[s] /\ at[s] # NoArray
              /\ histories'[s].len = n[s] /\ n[s] \in Nat
          <6> HIDE DEF n, old
          <6>1. n[s] \in Nat /\ at[s] \in Arrays
            BY <3>0
          <6>2. histories'[s] = [arr |-> at[s], len |-> n[s]]
            BY <3>1
          <6> QED BY <6>1, <6>2
        <5>2. cells'[histories'[s].arr] = Restored(s)
          BY <2>4, <5>1
        <5>3. histories'[s].len <= Len(cells'[histories'[s].arr])
          BY <3>0, <5>1, <5>2
        <5> QED BY <5>1, <5>3 DEF SliceOK
      <4>2. \A s \in Sessions \ old : SliceOK(histories[s])'
        BY <3>2 DEF SliceOK, NilSlice
      <4> QED BY <4>1, <4>2
    <3> QED BY <2>3, <3>3, <3>4
  <2>8. \A w \in Writers : WriterOK(wr[w])'
    <3>1. \A w \in Writers : wr'[w] = IdleWriter
      BY <1>6, <2>2 DEF Restart, Idling
    <3> QED BY <1>0, <3>1 DEF WriterOK, IdleWriter, NilSlice, SliceOK
  <2> HIDE DEF old
  <2> QED BY <2>2, <2>5, <2>6, <2>7, <2>8 DEF TypeOK, diskVars, ghostVars
<1>7. CASE UNCHANGED vars
  BY <1>7 DEF TypeOK, vars, memVars, diskVars, ghostVars, WriterOK, SliceOK
<1> QED BY <1>1, <1>2, <1>3, <1>5, <1>6, <1>7 DEF Next

-----------------------------------------------------------------------------
(* A step of a call leaves the other calls and the other sessions alone.   *)

LEMMA StepFrame ==
  ASSUME TypeOK, Idling, NEW w \in Writers, Step(w)
  PROVE  /\ up /\ up' = up /\ known' = known
         /\ wr[w].sid \in Sessions
         /\ \A v \in Writers \ {w} : wr'[v] = wr[v]
         /\ (wr'[w].pc # "idle" /\ wr'[w].sid = wr[w].sid) \/ wr'[w] = IdleWriter
         /\ tainted \subseteq tainted'
         /\ \A t \in Sessions \ {wr[w].sid} :
              /\ histories'[t] = histories[t] /\ log'[t] = log[t]
              /\ meta'[t] = meta[t] /\ hist'[t] = hist[t]
<1>w. /\ wr \in [Writers -> WriterType] /\ wr[w].sid \in Sessions /\ up
      /\ histories \in [Sessions -> SliceType] /\ log \in [Sessions -> Seq(Msgs)]
      /\ meta \in [Sessions -> FileStates] /\ hist \in [Sessions -> FileType]
  <2>1. wr[w].pc # "idle"
    BY DEF Step, CreateHistory, AddStore, AddTouch, MetaOpen, MetaWrite, HistoryOpen,
           HistoryWrite, AddReturn, MetaFails, HistoryFails
  <2> QED BY <2>1 DEF TypeOK, WriterOK, Idling
<1>0. \A r : wr' = [wr EXCEPT ![w] = r] => wr'[w] = r /\ \A v \in Writers \ {w} : wr'[v] = wr[v]
  BY <1>w
<1>1. CASE CreateHistory(w)
  <2>1. /\ wr' = [wr EXCEPT ![w] = [wr[w] EXCEPT !.pc = "meta"]]
        /\ histories' = [histories EXCEPT ![wr[w].sid] = NilSlice]
        /\ UNCHANGED <<up, sessions, cells, cap, diskVars, ghostVars>>
    BY <1>1 DEF CreateHistory, Goto
  <2> QED BY <1>w, <1>0, <2>1 DEF WriterType, diskVars, ghostVars
<1>2. CASE AddStore(w)
  <2>1. PICK a \in Arrays :
          LET new == [arr |-> a, len |-> wr[w].slice.len + 1] IN
          /\ wr' = [wr EXCEPT ![w] = [wr[w] EXCEPT !.pc = "touch", !.slice = new]]
          /\ histories' = [histories EXCEPT ![wr[w].sid] = new]
    BY <1>2 DEF AddStore
  <2>2. UNCHANGED <<up, sessions, diskVars, ghostVars>>
    BY <1>2 DEF AddStore
  <2> QED BY <1>w, <1>0, <2>1, <2>2 DEF WriterType, diskVars, ghostVars
<1>3. CASE AddTouch(w)
  <2>1. PICK l \in {"meta", "save"} : wr' = [wr EXCEPT ![w] = [wr[w] EXCEPT !.pc = l]]
    BY <1>3 DEF AddTouch, Goto
  <2>2. UNCHANGED <<up, memVars, diskVars, sent, known, log>> /\ tainted \subseteq tainted'
    BY <1>3 DEF AddTouch, TaintIf
  <2> QED BY <1>w, <1>0, <2>1, <2>2 DEF WriterType, diskVars, memVars
<1>4. CASE MetaOpen(w)
  <2>1. /\ wr' = [wr EXCEPT ![w] = [wr[w] EXCEPT !.pc = "metawrite"]]
        /\ meta' = [meta EXCEPT ![wr[w].sid] = "empty"]
        /\ UNCHANGED <<up, memVars, hist, ghostVars>>
    BY <1>4 DEF MetaOpen, Goto
  <2> QED BY <1>w, <1>0, <2>1 DEF WriterType, memVars, ghostVars
<1>5. CASE MetaWrite(w)
  <2>1. /\ \/ wr' = [wr EXCEPT ![w] = IdleWriter]
           \/ wr' = [wr EXCEPT ![w] = [wr[w] EXCEPT !.pc = "save"]]
        /\ \E f : meta' = [meta EXCEPT ![wr[w].sid] = f]
        /\ UNCHANGED <<up, memVars, hist, ghostVars>>
    BY <1>5 DEF MetaWrite, AfterMeta
  <2> QED BY <1>w, <1>0, <2>1 DEF WriterType, memVars, ghostVars
<1>6. CASE HistoryOpen(w)
  <2>1. /\ wr' = [wr EXCEPT ![w] = [wr[w] EXCEPT !.pc = "savewrite", !.data = Content(wr[w].slice)]]
        /\ hist' = [hist EXCEPT ![wr[w].sid] = EmptyFile]
        /\ UNCHANGED <<up, memVars, meta, ghostVars>>
    BY <1>6 DEF HistoryOpen
  <2> QED BY <1>w, <1>0, <2>1 DEF WriterType, memVars, ghostVars
<1>7. CASE HistoryWrite(w)
  <2>1. /\ wr' = [wr EXCEPT ![w] = [wr[w] EXCEPT !.pc = "return"]]
        /\ \E f : hist' = [hist EXCEPT ![wr[w].sid] = f]
        /\ UNCHANGED <<up, memVars, meta, ghostVars>>
    BY <1>7 DEF HistoryWrite, Goto
  <2> QED BY <1>w, <1>0, <2>1 DEF WriterType, memVars, ghostVars
<1>8. CASE AddReturn(w)
  <2>1. /\ wr' = [wr EXCEPT ![w] = IdleWriter]
        /\ log' = [log EXCEPT ![wr[w].sid] = Append(@, wr[w].msg)]
        /\ UNCHANGED <<up, memVars, diskVars, sent, known, tainted>>
    BY <1>8 DEF AddReturn
  <2> QED BY <1>w, <1>0, <2>1 DEF memVars, diskVars
<1>9. CASE MetaFails(w)
  <2>1. /\ \/ wr' = [wr EXCEPT ![w] = IdleWriter]
           \/ wr' = [wr EXCEPT ![w] = [wr[w] EXCEPT !.pc = "save"]]
        /\ tainted \subseteq tainted'
        /\ UNCHANGED <<up, memVars, diskVars, sent, known, log>>
    BY <1>9 DEF MetaFails, AfterMeta, TaintIf
  <2> QED BY <1>w, <1>0, <2>1 DEF WriterType, memVars, diskVars
<1>10. CASE HistoryFails(w)
  <2>1. /\ wr' = [wr EXCEPT ![w] = [wr[w] EXCEPT !.pc = "return"]]
        /\ tainted \subseteq tainted'
        /\ UNCHANGED <<up, memVars, diskVars, sent, known, log>>
    BY <1>10 DEF HistoryFails, Goto, TaintIf
  <2> QED BY <1>w, <1>0, <2>1 DEF WriterType, memVars, diskVars
<1> QED BY <1>1, <1>2, <1>3, <1>4, <1>5, <1>6, <1>7, <1>8, <1>9, <1>10 DEF Step

\* The arrays a step of a call touches, and the slices it moves, are its
\* session's own.
LEMMA StepSlices ==
  ASSUME TypeOK, Idling, NEW w \in Writers, Step(w)
  PROVE  /\ \/ wr'[w].slice.arr = NoArray
            \/ wr'[w].slice.arr = wr[w].slice.arr
            \/ wr'[w].slice.arr \notin Live
         /\ histories'[wr[w].sid].arr \in {histories[wr[w].sid].arr, NoArray, wr'[w].slice.arr}
         /\ histories'[wr[w].sid].arr # histories[wr[w].sid].arr =>
              histories'[wr[w].sid].arr = NoArray \/ wr'[w].sid = wr[w].sid
         /\ \A b \in Arrays : b \in Live /\ b # wr[w].slice.arr => cells'[b] = cells[b]
<1>w. /\ wr \in [Writers -> WriterType] /\ wr[w] \in WriterType
      /\ wr[w].sid \in Sessions /\ histories \in [Sessions -> SliceType]
  BY StepFrame DEF TypeOK
<1>1. CASE CreateHistory(w)
  <2>1. /\ wr' = [wr EXCEPT ![w] = [wr[w] EXCEPT !.pc = "meta"]]
        /\ histories' = [histories EXCEPT ![wr[w].sid] = NilSlice] /\ cells' = cells
    BY <1>1 DEF CreateHistory, Goto
  <2> QED BY <1>w, <2>1 DEF WriterType, NilSlice
<1>2. CASE AddStore(w)
  <2>1. PICK sl \in SliceType, m \in Msgs : sl = wr[w].slice /\ m = wr[w].msg /\ SliceOK(sl)
    BY <1>2 DEF AddStore, TypeOK, WriterOK, WriterType
  <2>2. PICK a \in Arrays :
          /\ AppendTo(sl, m, [arr |-> a, len |-> sl.len + 1])
          /\ wr' = [wr EXCEPT ![w] = [wr[w] EXCEPT !.pc = "touch", !.slice = [arr |-> a, len |-> sl.len + 1]]]
          /\ histories' = [histories EXCEPT ![wr[w].sid] = [arr |-> a, len |-> sl.len + 1]]
    BY <1>2, <2>1 DEF AddStore
  <2>3. /\ \A b \in Arrays \ {a} : cells'[b] = cells[b]
        /\ a = sl.arr \/ a \notin Live
    BY <2>1, <2>2, SliceAppend
  <2>4. /\ wr'[w].slice.arr = a /\ wr'[w].sid = wr[w].sid
        /\ histories'[wr[w].sid].arr = a
    BY <1>w, <2>2 DEF WriterType
  <2> QED BY <2>1, <2>3, <2>4
<1>3. CASE ~CreateHistory(w) /\ ~AddStore(w)
  <2>1. histories' = histories /\ cells' = cells
    BY <1>3 DEF Step, AddTouch, MetaOpen, MetaWrite, HistoryOpen,
           HistoryWrite, AddReturn, MetaFails, HistoryFails, memVars
  <2>2. wr'[w] = IdleWriter \/ wr'[w].slice = wr[w].slice
    <3>1. CASE AddTouch(w) \/ MetaOpen(w) \/ HistoryWrite(w) \/ HistoryFails(w)
      <4>1. PICK l : wr' = [wr EXCEPT ![w] = [wr[w] EXCEPT !.pc = l]]
        BY <3>1 DEF AddTouch, MetaOpen, HistoryWrite, HistoryFails, Goto
      <4> QED BY <1>w, <4>1 DEF WriterType
    <3>2. CASE HistoryOpen(w)
      BY <1>w, <3>2 DEF HistoryOpen, WriterType
    <3>3. CASE AddReturn(w)
      BY <1>w, <3>3 DEF AddReturn
    <3>4. CASE MetaWrite(w) \/ MetaFails(w)
      <4>1. \/ wr' = [wr EXCEPT ![w] = IdleWriter]
            \/ wr' = [wr EXCEPT ![w] = [wr[w] EXCEPT !.pc = "save"]]
        BY <3>4 DEF MetaWrite, MetaFails, AfterMeta
      <4> QED BY <1>w, <4>1 DEF WriterType
    <3> QED BY <1>3, <3>1, <3>2, <3>3, <3>4 DEF Step
  <2>3. wr'[w].slice.arr \in {wr[w].slice.arr, NoArray}
    BY <2>2 DEF IdleWriter, NilSlice
  <2> QED BY <2>1, <2>3
<1> QED BY <1>1, <1>2, <1>3

LEMMA StepDisjoint ==
  ASSUME TypeOK, Idling, Disjoint, NEW w \in Writers, Step(w)
  PROVE  Disjoint'
<1> DEFINE s == wr[w].sid
<1> USE NoneFresh
<1>1. /\ \A v \in Writers \ {w} : wr'[v] = wr[v]
      /\ wr'[w].sid = s \/ wr'[w] = IdleWriter
      /\ s \in Sessions
      /\ \A t \in Sessions \ {s} : histories'[t] = histories[t]
  BY StepFrame
<1>2. /\ \/ wr'[w].slice.arr = NoArray
         \/ wr'[w].slice.arr = wr[w].slice.arr
         \/ wr'[w].slice.arr \notin Live
      /\ histories'[s].arr \in {histories[s].arr, NoArray, wr'[w].slice.arr}
      /\ histories'[s].arr # histories[s].arr => histories'[s].arr = NoArray \/ wr'[w].sid = s
  BY StepSlices
<1>3. \A v \in Writers : wr[v].slice.arr \in Live
  BY DEF Live
<1>4. \A t \in Sessions : histories[t].arr \in Live
  BY DEF Live
<1>5. wr'[w].slice.arr # NoArray => wr'[w].sid = s
  BY <1>1 DEF IdleWriter, NilSlice
<1> HIDE DEF s
<1>6. \A t \in Sessions \ {s} : wr'[w].slice.arr # NoArray => wr'[w].slice.arr # histories[t].arr
  BY <1>2, <1>4 DEF Disjoint, s
<1>7. \A v \in Writers \ {w} : wr[v].sid # s /\ wr[v].slice.arr # NoArray => wr[v].slice.arr # wr'[w].slice.arr
  BY <1>2, <1>3 DEF Disjoint, s
<1>8. \A t \in Sessions \ {s} : histories'[s].arr # NoArray => histories'[s].arr # histories[t].arr
  BY <1>1, <1>2, <1>6 DEF Disjoint
<1>9. \A v \in Writers \ {w} : wr[v].sid # s /\ wr[v].slice.arr # NoArray => wr[v].slice.arr # histories'[s].arr
  BY <1>1, <1>2, <1>7 DEF Disjoint
<1>10. \A x, y \in Sessions : x # y /\ histories'[x].arr # NoArray => histories'[x].arr # histories'[y].arr
  BY <1>1, <1>8 DEF Disjoint
<1>11. \A v \in Writers, t \in Sessions :
         wr'[v].sid # t /\ wr'[v].slice.arr # NoArray => wr'[v].slice.arr # histories'[t].arr
  BY <1>1, <1>5, <1>6, <1>9 DEF Disjoint
<1>12. \A u, v \in Writers :
         wr'[u].sid # wr'[v].sid /\ wr'[u].slice.arr # NoArray => wr'[u].slice.arr # wr'[v].slice.arr
  BY <1>1, <1>5, <1>7 DEF Disjoint
<1> QED BY <1>10, <1>11, <1>12 DEF Disjoint

LEMMA StepIdling ==
  ASSUME TypeOK, Idling, Unknown, NEW w \in Writers, Step(w)
  PROVE  Idling' /\ Unknown'
<1> USE NoneFresh
<1>1. /\ up /\ up' = up /\ known' = known
      /\ wr[w].sid \in Sessions
      /\ \A v \in Writers \ {w} : wr'[v] = wr[v]
      /\ (wr'[w].pc # "idle" /\ wr'[w].sid = wr[w].sid) \/ wr'[w] = IdleWriter
      /\ \A t \in Sessions \ {wr[w].sid} :
           /\ histories'[t] = histories[t] /\ log'[t] = log[t] /\ hist'[t] = hist[t]
  BY StepFrame
<1>2. Idling'
  BY <1>1 DEF Idling, IdleWriter
<1>3. wr[w].sid \in known
  BY <1>1 DEF Unknown, On
<1>4. Unknown'
  BY <1>1, <1>3 DEF Unknown, On, IdleWriter
<1> QED BY <1>2, <1>4

\* The slice of a session another call works on keeps its content.
LEMMA StepContent ==
  ASSUME TypeOK, Idling, Disjoint, NEW w \in Writers, Step(w),
         NEW t \in Sessions, t # wr[w].sid
  PROVE  Content(histories[t])' = Content(histories[t])
<1> USE NoneFresh
<1>1. histories'[t] = histories[t]
  BY StepFrame
<1>2. CASE histories[t].arr = NoArray
  BY <1>1, <1>2 DEF Content
<1>3. CASE histories[t].arr # NoArray
  <2>1. histories[t].arr \in Arrays /\ histories[t].arr \in Live
    BY <1>3 DEF TypeOK, SliceType, Live
  <2>2. histories[t].arr # wr[w].slice.arr
    BY <1>3 DEF Disjoint
  <2>3. cells'[histories[t].arr] = cells[histories[t].arr]
    BY <2>1, <2>2, StepSlices
  <2> QED BY <1>1, <2>3 DEF Content
<1> QED BY <1>2, <1>3

\* A session another call works on is left as it was.
LEMMA StepOther ==
  ASSUME TypeOK, Idling, Disjoint, NEW w \in Writers, Step(w),
         NEW t \in Sessions, t # wr[w].sid, KeptAt(t)
  PROVE  KeptAt(t)'
<1> USE NoneFresh
<1>1. /\ up' = up
      /\ \A v \in Writers \ {w} : wr'[v] = wr[v]
      /\ wr'[w].sid = wr[w].sid \/ wr'[w] = IdleWriter
      /\ tainted \subseteq tainted'
      /\ histories'[t] = histories[t] /\ log'[t] = log[t]
      /\ meta'[t] = meta[t] /\ hist'[t] = hist[t]
  BY StepFrame
<1>2. On(t)' = On(t) /\ \A v \in On(t) : wr'[v] = wr[v]
  BY <1>1 DEF On, IdleWriter
<1>3. Content(histories[t])' = Content(histories[t])
  BY StepContent
<1>4. \A v \in On(t) : Phase(v, t) => Phase(v, t)'
  BY <1>1, <1>2, <1>3 DEF Phase
<1>5. Restored(t)' = Restored(t) /\ Loaded(hist[t])' = Loaded(hist[t])
  BY <1>1 DEF Restored
<1> QED BY <1>1, <1>2, <1>3, <1>4, <1>5 DEF KeptAt

\* A call without overlap goes from one of its phases to the next.
LEMMA StepSelf ==
  ASSUME TypeOK, Idling, NEW w \in Writers, Step(w), KeptAt(wr[w].sid)
  PROVE  \A s \in Sessions : s = wr[w].sid => KeptAt(s)'
<1> USE NoneFresh
<1> SUFFICES ASSUME NEW s \in Sessions, s = wr[w].sid, s \notin tainted'
             PROVE  KeptAt(s)'
  BY DEF KeptAt
<1>1. /\ up' = up /\ s \notin tainted
      /\ \A v \in Writers \ {w} : wr'[v] = wr[v]
      /\ wr \in [Writers -> WriterType] /\ histories \in [Sessions -> SliceType]
      /\ meta \in [Sessions -> FileStates] /\ hist \in [Sessions -> FileType]
      /\ log \in [Sessions -> Seq(Msgs)]
  BY StepFrame DEF TypeOK
<1>2. /\ On(s) = {w} /\ Phase(w, s)
      /\ meta[s] = "none" => hist[s].state # "ok"
      /\ hist[s].state # "mixed"
  BY <1>1 DEF KeptAt, On
<1>3. ASSUME wr'[w].sid = s, Phase(w, s)', meta'[s] = "none" => hist'[s].state # "ok", hist'[s].state # "mixed"
      PROVE  KeptAt(s)'
  <2>1. On(s)' = {w}
    BY <1>1, <1>2, <1>3 DEF On
  <2> QED BY <1>3, <2>1 DEF KeptAt
<1>4. ASSUME wr'[w] = IdleWriter, Restored(s)' = log'[s], Loaded(hist[s])' = log'[s],
             Content(histories[s])' = log'[s], meta'[s] = "none" => hist'[s].state # "ok", hist'[s].state # "mixed"
      PROVE  KeptAt(s)'
  <2>1. \A v \in Writers \ {w} : wr[v].sid # s
    BY <1>2 DEF On
  <2>2. wr'[w].sid # s
    BY <1>4 DEF IdleWriter
  <2>3. On(s)' = {}
    BY <1>1, <2>1, <2>2 DEF On
  <2> QED BY <1>4, <2>3 DEF KeptAt
<1>5. UNCHANGED memVars => Content(histories[s])' = Content(histories[s])
  BY DEF memVars, Content
<1>6. ~MetaFails(w) /\ ~HistoryFails(w)
  BY DEF MetaFails, HistoryFails, TaintIf
<1>11. CASE CreateHistory(w)
  <2>1. /\ wr[w].pc = "history" /\ wr' = [wr EXCEPT ![w] = [wr[w] EXCEPT !.pc = "meta"]]
        /\ histories' = [histories EXCEPT ![s] = NilSlice]
        /\ UNCHANGED <<diskVars, ghostVars>>
    BY <1>11 DEF CreateHistory, Goto
  <2>2. wr'[w].pc = "meta" /\ wr'[w].sid = s /\ wr'[w].msg = NoMsg
    BY <1>1, <1>2, <2>1 DEF WriterType, Phase
  <2>3. Content(histories[s])' = <<>>
    BY <1>1, <2>1 DEF Content, NilSlice
  <2>4. Phase(w, s)'
    BY <1>2, <2>1, <2>2, <2>3 DEF Phase, diskVars, ghostVars
  <2> QED BY <1>2, <1>3, <2>1, <2>2, <2>4 DEF diskVars
<1>12. CASE AddStore(w)
  <2>1. PICK sl \in SliceType, m \in Msgs : sl = wr[w].slice /\ m = wr[w].msg /\ SliceOK(sl)
    BY <1>12 DEF AddStore, TypeOK, WriterOK, WriterType
  <2> DEFINE grown(a) == [arr |-> a, len |-> wr[w].slice.len + 1]
  <2>a. PICK a \in Arrays :
          /\ AppendTo(wr[w].slice, wr[w].msg, grown(a))
          /\ wr' = [wr EXCEPT ![w] = [wr[w] EXCEPT !.pc = "touch", !.slice = grown(a)]]
          /\ histories' = [histories EXCEPT ![wr[w].sid] = grown(a)]
    BY <1>12 DEF AddStore
  <2>2. /\ AppendTo(sl, m, [arr |-> a, len |-> sl.len + 1])
        /\ wr' = [wr EXCEPT ![w] = [wr[w] EXCEPT !.pc = "touch", !.slice = [arr |-> a, len |-> sl.len + 1]]]
        /\ histories' = [histories EXCEPT ![s] = [arr |-> a, len |-> sl.len + 1]]
    BY <2>1, <2>a
  <2>3. wr[w].pc = "append" /\ UNCHANGED <<up, sessions, diskVars, ghostVars>>
    BY <1>12 DEF AddStore
  <2> DEFINE new == [arr |-> a, len |-> sl.len + 1]
  <2>4. ContentIn(new, cells') = Append(ContentIn(sl, cells), m)
    BY <2>1, <2>2, SliceAppend
  <2>5. ContentIn(sl, cells) = log[s] /\ Loaded(hist[s]) = log[s]
    BY <1>2, <2>1, <2>3 DEF Phase, Content, ContentIn
  <2>6. histories'[s] = new
    BY <1>1, <2>2
  <2>7. wr'[w].pc = "touch" /\ wr'[w].sid = s /\ wr'[w].msg = m /\ wr'[w].slice = new
    BY <1>1, <2>1, <2>2 DEF WriterType
  <2> HIDE DEF new
  <2>8. Content(histories[s])' = Append(log[s], m)
    BY <2>4, <2>5, <2>6 DEF Content, ContentIn
  <2>9. Phase(w, s)'
    BY <2>3, <2>5, <2>6, <2>7, <2>8 DEF Phase, diskVars, ghostVars
  <2> QED BY <1>2, <1>3, <2>3, <2>7, <2>9 DEF diskVars
<1>13. CASE AddTouch(w)
  <2>1. /\ wr[w].pc = "touch" /\ wr' = [wr EXCEPT ![w] = [wr[w] EXCEPT !.pc = "meta"]]
        /\ UNCHANGED <<up, memVars, diskVars, sent, known, log>>
    BY <1>13 DEF AddTouch, Goto, TaintIf
  <2>2. /\ wr'[w].pc = "meta" /\ wr'[w].sid = s
        /\ wr'[w].msg = wr[w].msg /\ wr'[w].slice = wr[w].slice
    BY <1>1, <2>1 DEF WriterType
  <2>3. Phase(w, s)'
    BY <1>2, <1>5, <2>1, <2>2 DEF Phase, diskVars, memVars
  <2> QED BY <1>2, <1>3, <2>1, <2>2, <2>3 DEF diskVars
<1>14. CASE MetaOpen(w)
  <2>1. /\ wr[w].pc = "meta" /\ wr' = [wr EXCEPT ![w] = [wr[w] EXCEPT !.pc = "metawrite"]]
        /\ meta' = [meta EXCEPT ![s] = "empty"]
        /\ UNCHANGED <<up, memVars, hist, ghostVars>>
    BY <1>14 DEF MetaOpen, Goto
  <2>2. /\ wr'[w].pc = "metawrite" /\ wr'[w].sid = s /\ meta'[s] = "empty"
        /\ wr'[w].msg = wr[w].msg /\ wr'[w].slice = wr[w].slice
    BY <1>1, <2>1 DEF WriterType
  <2>3. Phase(w, s)'
    BY <1>2, <1>5, <2>1, <2>2 DEF Phase, ghostVars, memVars
  <2> QED BY <1>2, <1>3, <2>1, <2>2, <2>3
<1>15. CASE MetaWrite(w)
  <2>1. /\ wr[w].pc = "metawrite"
        /\ wr' = [wr EXCEPT ![w] = IF wr[w].msg = NoMsg THEN IdleWriter ELSE [wr[w] EXCEPT !.pc = "save"]]
        /\ UNCHANGED <<up, memVars, hist, ghostVars>>
    BY <1>15 DEF MetaWrite, AfterMeta
  <2>2. meta'[s] = "ok"
    BY <1>1, <1>2, <1>15, <2>1 DEF MetaWrite, MetaWritten, Phase
  <2>3. CASE wr[w].msg = NoMsg
    <3>1. wr'[w] = IdleWriter
      BY <1>1, <2>1, <2>3
    <3>2. Restored(s)' = log'[s] /\ Loaded(hist[s])' = log'[s] /\ Content(histories[s])' = log'[s]
      BY <1>2, <1>5, <2>1, <2>2, <2>3 DEF Phase, Restored, ghostVars, memVars
    <3> QED BY <1>2, <1>4, <2>1, <2>2, <3>1, <3>2
  <2>4. CASE wr[w].msg # NoMsg
    <3>1. /\ wr'[w].pc = "save" /\ wr'[w].sid = s
          /\ wr'[w].msg = wr[w].msg /\ wr'[w].slice = wr[w].slice
      BY <1>1, <2>1, <2>4 DEF WriterType
    <3>2. Phase(w, s)'
      BY <1>2, <1>5, <2>1, <2>2, <2>4, <3>1 DEF Phase, ghostVars, memVars
    <3> QED BY <1>2, <1>3, <2>1, <2>2, <3>1, <3>2
  <2> QED BY <2>3, <2>4
<1>16. CASE HistoryOpen(w)
  <2>1. /\ wr[w].pc = "save"
        /\ wr' = [wr EXCEPT ![w] = [wr[w] EXCEPT !.pc = "savewrite", !.data = Content(wr[w].slice)]]
        /\ hist' = [hist EXCEPT ![s] = EmptyFile]
        /\ UNCHANGED <<up, memVars, meta, ghostVars>>
    BY <1>16 DEF HistoryOpen
  <2>2. /\ wr'[w].pc = "savewrite" /\ wr'[w].sid = s /\ hist'[s] = EmptyFile
        /\ wr'[w].msg = wr[w].msg /\ wr'[w].data = Content(wr[w].slice)
    BY <1>1, <2>1 DEF WriterType
  <2>3. Phase(w, s)'
    BY <1>2, <1>5, <2>1, <2>2 DEF Phase, ghostVars, memVars
  <2>4. hist'[s].state = "empty"
    BY <2>2 DEF EmptyFile
  <2> QED BY <1>3, <2>2, <2>3, <2>4
<1>17. CASE HistoryWrite(w)
  <2>1. /\ wr[w].pc = "savewrite" /\ wr' = [wr EXCEPT ![w] = [wr[w] EXCEPT !.pc = "return"]]
        /\ UNCHANGED <<up, memVars, meta, ghostVars>>
    BY <1>17 DEF HistoryWrite, Goto
  <2>2. /\ wr'[w].pc = "return" /\ wr'[w].sid = s /\ wr'[w].msg = wr[w].msg
    BY <1>1, <2>1 DEF WriterType
  <2>3. hist[s].state = "empty" /\ wr[w].data = Append(log[s], wr[w].msg) /\ meta[s] = "ok"
    BY <1>2, <2>1 DEF Phase, EmptyFile
  <2>4. PICK f \in Written(hist[s], wr[w].data) : hist' = [hist EXCEPT ![s] = f]
    BY <1>17 DEF HistoryWrite
  <2>5. hist'[s] = File(wr[w].data)
    BY <1>1, <2>3, <2>4 DEF Written
  <2>6. Loaded(hist[s])' = Append(log[s], wr[w].msg) /\ hist'[s].state = "ok"
    BY <2>3, <2>5 DEF Loaded, File
  <2>7. Phase(w, s)'
    BY <1>2, <1>5, <2>1, <2>2, <2>3, <2>6 DEF Phase, ghostVars, memVars
  <2> QED BY <1>3, <2>1, <2>2, <2>3, <2>6, <2>7
<1>18. CASE AddReturn(w)
  <2>1. /\ wr[w].pc = "return" /\ wr' = [wr EXCEPT ![w] = IdleWriter]
        /\ log' = [log EXCEPT ![s] = Append(@, wr[w].msg)]
        /\ UNCHANGED <<up, memVars, diskVars, sent, known, tainted>>
    BY <1>18 DEF AddReturn
  <2>2. wr'[w] = IdleWriter /\ log'[s] = Append(log[s], wr[w].msg)
    BY <1>1, <2>1
  <2>3. Restored(s)' = log'[s] /\ Loaded(hist[s])' = log'[s] /\ Content(histories[s])' = log'[s]
    BY <1>2, <1>5, <2>1, <2>2 DEF Phase, Restored, diskVars
  <2> QED BY <1>2, <1>4, <2>1, <2>2, <2>3 DEF diskVars
<1> QED BY <1>6, <1>11, <1>12, <1>13, <1>14, <1>15, <1>16, <1>17, <1>18 DEF Step

-----------------------------------------------------------------------------
(* A call begins.                                                          *)

\* Writer w, which was idle, enters a call on s with locals r.
LEMMA BeginFrame ==
  ASSUME IInv, NEW w \in Writers, NEW s \in Sessions, NEW r \in WriterType,
         wr[w].pc = "idle", up, r.sid = s, r.pc # "idle",
         r.slice = NilSlice \/ r.slice = histories[s],
         wr' = [wr EXCEPT ![w] = r], known' = known \cup {s},
         UNCHANGED <<up, histories, cells, cap, diskVars, log>>,
         tainted' = IF On(s) # {} THEN tainted \cup {s} ELSE tainted,
         s \notin tainted' => Phase(w, s)'
  PROVE  Disjoint' /\ Idling' /\ Unknown' /\ Kept'
<1> USE NoneFresh
<1>1. /\ \A v \in Writers : wr'[v] = IF v = w THEN r ELSE wr[v]
      /\ wr[w] = IdleWriter /\ TypeOK
      /\ histories' = histories /\ cells' = cells /\ hist' = hist /\ meta' = meta
  BY DEF IInv, TypeOK, Idling, diskVars
<1>2. Disjoint'
  BY <1>1 DEF IInv, Disjoint, NilSlice
<1>3. Idling'
  BY <1>1 DEF IInv, Idling
<1>4. \A t \in Sessions \ {s} : On(t)' = On(t) /\ w \notin On(t)
  BY <1>1 DEF On, IdleWriter
<1>5. Unknown'
  BY <1>1, <1>4 DEF IInv, Unknown
<1>6. On(s)' = On(s) \cup {w}
  BY <1>1 DEF On
<1>7. \A t \in Sessions : /\ Content(histories[t])' = Content(histories[t])
                          /\ Restored(t)' = Restored(t) /\ Loaded(hist[t])' = Loaded(hist[t])
  BY <1>1 DEF Content, Restored
<1>8. \A t \in Sessions \ {s} : KeptAt(t)'
  <2> SUFFICES ASSUME NEW t \in Sessions \ {s} PROVE KeptAt(t)'
    OBVIOUS
  <2>1. KeptAt(t) /\ \A v \in On(t) : wr'[v] = wr[v]
    BY <1>1, <1>4 DEF IInv, Kept, On
  <2>2. \A v \in On(t) : Phase(v, t) => Phase(v, t)'
    BY <1>1, <1>7, <2>1 DEF Phase
  <2>3. t \in tainted => t \in tainted'
    OBVIOUS
  <2> QED BY <1>1, <1>4, <1>7, <2>1, <2>2, <2>3 DEF KeptAt
<1>9. KeptAt(s)'
  <2> SUFFICES ASSUME s \notin tainted' PROVE KeptAt(s)'
    BY DEF KeptAt
  <2>1. On(s)' = {w} /\ s \notin tainted
    BY <1>6
  <2>2. (meta[s] = "none" => hist[s].state # "ok") /\ hist[s].state # "mixed"
    BY <2>1 DEF IInv, Kept, KeptAt
  <2> QED BY <1>1, <2>1, <2>2 DEF KeptAt
<1> QED BY <1>2, <1>3, <1>5, <1>8, <1>9 DEF Kept

LEMMA BeginCreate ==
  ASSUME IInv, NEW w \in Writers, NEW s \in Sessions, CreateSession(w, s)
  PROVE  Disjoint' /\ Idling' /\ Unknown' /\ Kept'
<1> DEFINE r == [IdleWriter EXCEPT !.pc = "history", !.sid = s]
<1>1. /\ r \in WriterType /\ r.sid = s /\ r.pc = "history" /\ r.slice = NilSlice /\ r.msg = NoMsg
  BY IdleType DEF IdleWriter, WriterType
<1>2. /\ wr' = [wr EXCEPT ![w] = r] /\ UNCHANGED <<up, histories, cells, cap, diskVars, log>>
      /\ known' = known \cup {s} /\ up /\ wr[w].pc = "idle"
      /\ tainted' = IF On(s) # {} THEN tainted \cup {s} ELSE tainted
  BY DEF CreateSession, TaintIf
<1>3. log[s] = <<>> /\ hist[s] = NoFile /\ histories[s] = NilSlice
  BY DEF IInv, Unknown, CreateSession
<1> HIDE DEF r
<1>4. wr'[w] = r
  BY <1>2 DEF IInv, TypeOK
<1>5. Phase(w, s)'
  BY <1>1, <1>2, <1>3, <1>4 DEF Phase, Loaded, NoFile, diskVars, Content, NilSlice
<1> QED BY <1>1, <1>2, <1>5, BeginFrame

LEMMA BeginAdd ==
  ASSUME IInv, NEW w \in Writers, NEW s \in Sessions, NEW m \in Msgs, AddLoad(w, s, m)
  PROVE  Disjoint' /\ Idling' /\ Unknown' /\ Kept'
<1> DEFINE r == [IdleWriter EXCEPT !.pc = "append", !.sid = s, !.msg = m, !.slice = histories[s]]
<1>1. /\ r \in WriterType /\ r.sid = s /\ r.pc = "append" /\ r.slice = histories[s] /\ r.msg = m
  BY IdleType DEF IdleWriter, WriterType, IInv, TypeOK
<1>2. /\ wr' = [wr EXCEPT ![w] = r] /\ UNCHANGED <<up, histories, cells, cap, diskVars, log>>
      /\ known' = known \cup {s} /\ up /\ wr[w].pc = "idle"
      /\ tainted' = IF On(s) # {} THEN tainted \cup {s} ELSE tainted
  BY DEF AddLoad, TaintIf, memVars
<1> HIDE DEF r
<1>3. wr'[w] = r
  BY <1>2 DEF IInv, TypeOK
<1>4. ASSUME s \notin tainted' PROVE Phase(w, s)'
  <2>1. On(s) = {} /\ s \notin tainted
    BY <1>2, <1>4
  <2>2. Loaded(hist[s]) = log[s] /\ Content(histories[s]) = log[s]
    BY <1>2, <2>1 DEF IInv, Kept, KeptAt
  <2>3. Content(histories[s])' = Content(histories[s])
    BY <1>2 DEF Content
  <2> QED BY <1>1, <1>2, <1>3, <2>2, <2>3, NoneFresh DEF Phase, diskVars
<1> QED BY <1>1, <1>2, <1>4, BeginFrame

-----------------------------------------------------------------------------
(* Crash and restart.                                                      *)

LEMMA CrashKeeps ==
  ASSUME IInv, Crash
  PROVE  Disjoint' /\ Idling' /\ Unknown' /\ Kept'
<1> USE NoneFresh
<1>1. /\ up' = FALSE
      /\ \A s \in Sessions : histories'[s] = NilSlice
      /\ \A w \in Writers : wr'[w] = IdleWriter
      /\ tainted' = tainted \cup {s \in Sessions : Unreadable(s)}
      /\ \A s \in Sessions : log'[s] = IF s \in tainted' THEN log[s] ELSE Loaded(hist[s])
      /\ hist' = hist /\ meta' = meta /\ known' = known
  BY DEF Crash, diskVars
<1>2. Disjoint' /\ Idling'
  BY <1>1 DEF Disjoint, Idling, NilSlice, IdleWriter
<1>3. \A s \in Sessions : On(s)' = {}
  BY <1>1 DEF On, IdleWriter
<1>4. Unknown'
  BY <1>1, <1>3 DEF IInv, Unknown, Loaded, NoFile
<1>5. ASSUME NEW s \in Sessions, s \notin tainted' PROVE KeptAt(s)'
  <2>1. /\ s \notin tainted /\ meta[s] \in {"none", "ok"}
        /\ meta[s] = "none" => hist[s].state # "ok"
        /\ hist[s].state # "mixed"
    BY <1>1, <1>5 DEF IInv, TypeOK, FileStates, Unreadable, Kept, KeptAt
  <2>2. log'[s] = Loaded(hist[s])
    BY <1>1, <1>5
  <2>3. Restored(s)' = log'[s] /\ Loaded(hist[s])' = log'[s]
    BY <1>1, <2>1, <2>2 DEF Restored, Loaded
  <2> QED BY <1>1, <1>3, <2>1, <2>3 DEF KeptAt
<1> QED BY <1>2, <1>4, <1>5 DEF Kept, KeptAt

LEMMA RestartKeeps ==
  ASSUME IInv, Restart
  PROVE  Disjoint' /\ Idling' /\ Unknown' /\ Kept'
<1> USE NoneFresh
<1> DEFINE old == {s \in Sessions : Restored(s) # <<>>}
<1>1. /\ up' = TRUE /\ ~up /\ wr' = wr /\ hist' = hist /\ meta' = meta
      /\ known' = known /\ log' = log /\ tainted' = tainted
  BY DEF Restart, diskVars, ghostVars
<1>2. PICK at \in [old -> Arrays] :
        /\ \A s, t \in old : s # t => at[s] # at[t]
        /\ histories' = [s \in Sessions |->
                          IF s \in old THEN [arr |-> at[s], len |-> Len(Restored(s))] ELSE NilSlice]
        /\ cells' = [a \in Arrays |->
                      IF \E s \in old : at[s] = a
                        THEN Restored(CHOOSE s \in old : at[s] = a) ELSE <<>>]
  BY DEF Restart
<1>3. \A s \in old : cells'[at[s]] = Restored(s)
  <2> SUFFICES ASSUME NEW s \in old PROVE cells'[at[s]] = Restored(s)
    OBVIOUS
  <2>1. \A t \in old : at[t] = at[s] => t = s
    BY <1>2
  <2>2. (CHOOSE t \in old : at[t] = at[s]) = s
    BY <2>1
  <2> QED BY <1>2, <2>2
<1>4. /\ \A s \in old : histories'[s].arr = at[s] /\ histories'[s].len = Len(Restored(s)) /\ at[s] \in Arrays
      /\ \A s \in Sessions \ old : histories'[s] = NilSlice
  BY <1>2
<1>5. \A w \in Writers : wr[w] = IdleWriter
  BY <1>1 DEF IInv, Idling
<1>6. ASSUME NEW s \in Sessions PROVE Content(histories[s])' = Restored(s)
  <2>1. CASE s \in old
    <3>1. Restored(s) \in Seq(Msgs)
      BY DEF IInv, TypeOK, Restored, Loaded, FileType
    <3>2. SubSeq(Restored(s), 1, Len(Restored(s))) = Restored(s)
      BY <3>1, SubSeqFull
    <3> QED BY <1>3, <1>4, <2>1, <3>2 DEF Content
  <2>2. CASE s \notin old
    BY <1>4, <2>2 DEF Content, NilSlice
  <2> QED BY <2>1, <2>2
<1> HIDE DEF old
<1>7. \A s \in Sessions : s \notin known => Restored(s) = <<>>
  BY DEF IInv, Unknown, Restored, Loaded, NoFile
<1>8. \A s \in Sessions : On(s)' = On(s) /\ On(s) = {}
  BY <1>1, <1>5 DEF On, IdleWriter
<1>9. Disjoint' /\ Idling'
  BY <1>1, <1>2, <1>4, <1>5 DEF Disjoint, Idling, NilSlice, IdleWriter
<1>10. Unknown'
  <2>1. \A s \in Sessions : s \notin known => histories'[s] = NilSlice
    BY <1>4, <1>7 DEF old
  <2> QED BY <1>1, <1>8, <2>1 DEF IInv, Unknown
<1>11. \A s \in Sessions : KeptAt(s)'
  <2>1. \A s \in Sessions : Restored(s)' = Restored(s) /\ Loaded(hist[s])' = Loaded(hist[s])
    BY <1>1 DEF Restored
  <2> QED BY <1>1, <1>6, <1>8, <2>1 DEF IInv, Kept, KeptAt
<1> QED BY <1>9, <1>10, <1>11 DEF Kept

-----------------------------------------------------------------------------
(* The theorems.                                                           *)

\* The invariant holds at the start and every step of the store, whatever
\* calls overlap, whichever save fails, crash and restart included, keeps it.
THEOREM Inductive == Spec => []IInv
<1>1. Init => IInv
  <2> SUFFICES ASSUME Init PROVE IInv
    OBVIOUS
  <2>1. TypeOK
    BY InitType
  <2>2. \A s \in Sessions : On(s) = {}
    BY NoneFresh DEF Init, On, IdleWriter
  <2>3. Disjoint /\ Idling /\ Unknown
    BY <2>2 DEF Init, Disjoint, Idling, Unknown, IdleWriter, NilSlice
  <2>4. ASSUME NEW s \in Sessions PROVE KeptAt(s)
    <3>1. Content(histories[s]) = <<>> /\ Loaded(hist[s]) = <<>> /\ log[s] = <<>>
      BY DEF Init, Content, NilSlice, Loaded, NoFile
    <3> QED BY <2>2, <3>1 DEF KeptAt, Init, Restored, NoFile
  <2> QED BY <2>1, <2>3, <2>4 DEF IInv, Kept
<1>2. IInv /\ [Next]_vars => IInv'
  <2> SUFFICES ASSUME IInv, [Next]_vars PROVE IInv'
    OBVIOUS
  <2>0. TypeOK /\ Disjoint /\ Idling /\ Unknown /\ Kept
    BY DEF IInv
  <2>1. TypeOK'
    BY <2>0, NextType
  <2>2. ASSUME NEW w \in Writers, Step(w)
        PROVE  Disjoint' /\ Idling' /\ Unknown' /\ Kept'
    <3>1. Disjoint' /\ Idling' /\ Unknown'
      BY <2>0, <2>2, StepDisjoint, StepIdling
    <3>2. ASSUME NEW s \in Sessions PROVE KeptAt(s)'
      <4>1. CASE s = wr[w].sid
        BY <2>0, <2>2, <4>1, StepSelf DEF Kept
      <4>2. CASE s # wr[w].sid
        BY <2>0, <2>2, <4>2, StepOther DEF Kept
      <4> QED BY <4>1, <4>2
    <3> QED BY <3>1, <3>2 DEF Kept
  <2>3. CASE UNCHANGED vars
    <3>1. \A s \in Sessions : /\ Content(histories[s])' = Content(histories[s])
                              /\ Restored(s)' = Restored(s) /\ On(s)' = On(s)
      BY <2>3 DEF vars, memVars, diskVars, Content, Restored, On
    <3>2. \A s \in Sessions : \A w \in On(s) : Phase(w, s) => Phase(w, s)'
      BY <2>3, <3>1 DEF vars, memVars, diskVars, ghostVars, Phase
    <3>3. Kept'
      BY <2>0, <2>3, <3>1, <3>2 DEF vars, memVars, diskVars, ghostVars, Kept, KeptAt
    <3> QED BY <2>0, <2>1, <2>3, <3>1, <3>3
            DEF vars, memVars, diskVars, ghostVars, Disjoint, Idling, Unknown, IInv
  <2> QED BY <2>1, <2>2, <2>3, BeginCreate, BeginAdd, CrashKeeps, RestartKeeps DEF IInv, Next
<1> QED BY <1>1, <1>2, PTL DEF Spec

\* Histories, files and the writers' locals have their types; no slice reaches
\* beyond its array (store.go:121-139).
THEOREM TypeCorrect == Spec => []TypeOK
<1>1. IInv => TypeOK
  BY DEF IInv
<1> QED BY <1>1, Inductive, PTL

\* Between calls memory and disk hold what AddMessage acknowledged, in order,
\* for a session that met none of the causes of loss (store.go:121-139).
THEOREM AckedKept == Spec => []AckedIsKept
<1>1. IInv => AckedIsKept
  BY DEF IInv, Kept, KeptAt, AckedIsKept
<1> QED BY <1>1, Inductive, PTL

\* In a readable history file only the message on its way may be there or not
\* (store.go:137-138, 231-243).
THEOREM AtMostOneAtRisk == Spec => []OneMessageAtRisk
<1>1. IInv => OneMessageAtRisk
  <2> SUFFICES ASSUME IInv, NEW s \in Sessions, s \notin tainted, ~Unreadable(s)
               PROVE  Loaded(hist[s]) \in {log[s]} \cup {Append(log[s], wr[w].msg) : w \in On(s)}
    BY DEF OneMessageAtRisk
  <2>1. CASE On(s) = {}
    BY <2>1 DEF IInv, Kept, KeptAt
  <2>2. CASE On(s) # {}
    <3>1. PICK w \in On(s) : Phase(w, s)
      BY <2>2 DEF IInv, Kept, KeptAt
    <3>2. w \in Writers /\ wr[w] \in WriterType /\ wr[w].sid = s /\ wr[w].pc # "idle"
      BY <3>1, NoneFresh DEF On, IInv, TypeOK, Idling
    <3>3. hist[s] # EmptyFile
      BY DEF Unreadable, EmptyFile
    <3>4. Loaded(hist[s]) = log[s] \/ Loaded(hist[s]) = Append(log[s], wr[w].msg)
      BY <3>1, <3>2, <3>3 DEF Phase, WriterType
    <3> QED BY <3>1, <3>4
  <2> QED BY <2>1, <2>2
<1> QED BY <1>1, Inductive, PTL

-----------------------------------------------------------------------------
(* No message is doubled.                                                  *)

\* Each message of q occurs once and was sent; q does not hold m.
Single(q, S) == IsInjective(q) /\ \A i \in DOMAIN q : q[i] \in S
Lacks(q, m)  == \A i \in DOMAIN q : q[i] # m

\* Arrays, files and what is about to be written to a file are free of doubles.
OnceEach ==
  /\ \A a \in Arrays : Single(cells[a], sent)
  /\ \A s \in Sessions : Single(hist[s].val, sent)
  /\ \A w \in Writers : Single(wr[w].data, sent)

\* A message that is about to be appended is in no array, not even in one that
\* only another writer knows, and nobody else is about to append it.
Unstored ==
  \A w \in Writers : wr[w].pc = "append" =>
    /\ wr[w].msg \in sent
    /\ \A a \in Arrays : Lacks(cells[a], wr[w].msg)
    /\ \A v \in Writers : v # w /\ wr[v].pc = "append" => wr[v].msg # wr[w].msg

Fresh == OnceEach /\ Unstored

LEMMA SingleAppend ==
  ASSUME NEW q \in Seq(Msgs), NEW m \in Msgs, NEW S, Single(q, S), Lacks(q, m), m \in S
  PROVE  Single(Append(q, m), S)
<1>1. /\ DOMAIN q = 1 .. Len(q) /\ DOMAIN Append(q, m) = 1 .. Len(q) + 1 /\ Len(q) \in Nat
      /\ \A i \in 1 .. Len(q) + 1 : Append(q, m)[i] = IF i = Len(q) + 1 THEN m ELSE q[i]
  OBVIOUS
<1>2. PICK p : p = Append(q, m)
  OBVIOUS
<1> QED BY <1>1, <1>2 DEF Single, Lacks, IsInjective

LEMMA SinglePut ==
  ASSUME NEW q \in Seq(Msgs), NEW m \in Msgs, NEW S, Single(q, S), Lacks(q, m), m \in S,
         NEW k \in Nat \ {0}, k <= Len(q) + 1
  PROVE  Single(Put(q, k, m), S)
<1>1. CASE k <= Len(q)
  <2>1. DOMAIN q = 1 .. Len(q) /\ DOMAIN Put(q, k, m) = DOMAIN q /\ k \in DOMAIN q
    BY <1>1 DEF Put
  <2>2. \A i \in DOMAIN q : Put(q, k, m)[i] = IF i = k THEN m ELSE q[i]
    BY <1>1 DEF Put
  <2> QED BY <2>1, <2>2 DEF Single, Lacks, IsInjective
<1>2. CASE k = Len(q) + 1
  BY <1>2, SingleAppend, LenProperties DEF Put
<1> QED BY <1>1, <1>2, LenProperties

LEMMA SinglePrefix ==
  ASSUME NEW q \in Seq(Msgs), NEW S, Single(q, S), NEW n \in Nat, n <= Len(q)
  PROVE  /\ Single(SubSeq(q, 1, n), S)
         /\ \A m : Lacks(q, m) => Lacks(SubSeq(q, 1, n), m)
<1>1. PICK p \in Seq(Msgs) : p = SubSeq(q, 1, n)
  BY PrefixType
<1>2. Len(p) = n /\ \A i \in 1 .. n : p[i] = q[i]
  BY <1>1, PrefixType
<1>3. DOMAIN p = 1 .. n /\ DOMAIN q = 1 .. Len(q) /\ 1 .. n \subseteq 1 .. Len(q)
  BY <1>2
<1> QED BY <1>1, <1>2, <1>3 DEF Single, Lacks, IsInjective

LEMMA SingleEmpty == \A S : Single(<<>>, S)
<1>1. DOMAIN <<>> = {}
  OBVIOUS
<1> QED BY <1>1 DEF Single, IsInjective

LEMMA SingleContent ==
  ASSUME TypeOK, OnceEach, NEW sl \in SliceType, SliceOK(sl)
  PROVE  /\ Single(Content(sl), sent) /\ Content(sl) \in Seq(Msgs)
         /\ \A m : (\A a \in Arrays : Lacks(cells[a], m)) => Lacks(Content(sl), m)
<1>1. CASE sl.arr = NoArray
  <2>1. DOMAIN <<>> = {} /\ <<>> \in Seq(Msgs)
    OBVIOUS
  <2> QED BY <1>1, <2>1, SingleEmpty DEF Content, Lacks
<1>2. CASE sl.arr # NoArray
  <2>1. PICK q \in Seq(Msgs), n \in Nat : q = cells[sl.arr] /\ n = sl.len /\ sl.arr \in Arrays
    BY <1>2 DEF TypeOK, SliceType
  <2>2. Single(q, sent) /\ n <= Len(q)
    BY <1>2, <2>1 DEF OnceEach, SliceOK
  <2> QED BY <1>2, <2>1, <2>2, SinglePrefix, PrefixType DEF Content
<1> QED BY <1>1, <1>2

\* A step that neither sends nor appends.
LEMMA FreshFrame ==
  ASSUME Fresh, cells' = cells, sent' = sent,
         \A s \in Sessions : Single(hist'[s].val, sent),
         \A v \in Writers : Single(wr'[v].data, sent),
         \A v \in Writers : wr'[v].pc = "append" => wr[v].pc = "append" /\ wr'[v].msg = wr[v].msg
  PROVE  Fresh'
<1>1. OnceEach'
  BY DEF Fresh, OnceEach
<1>2. Unstored'
  BY DEF Fresh, Unstored
<1> QED BY <1>1, <1>2 DEF Fresh

LEMMA FreshInit == Init => Fresh
BY SingleEmpty DEF Init, Fresh, OnceEach, Unstored, NoFile, IdleWriter

\* The one step that stores a message in an array.
LEMMA FreshStore ==
  ASSUME TypeOK, Fresh, NEW w \in Writers, AddStore(w)
  PROVE  Fresh'
<1> USE NoneFresh
<1>1. PICK sl \in SliceType, s \in Sessions, m \in Msgs :
             sl = wr[w].slice /\ s = wr[w].sid /\ m = wr[w].msg /\ SliceOK(sl)
  BY DEF AddStore, WriterOK, WriterType, TypeOK
<1>2. PICK a \in Arrays :
             /\ AppendTo(sl, m, [arr |-> a, len |-> sl.len + 1])
             /\ wr' = [wr EXCEPT ![w] = [wr[w] EXCEPT !.pc = "touch", !.slice = [arr |-> a, len |-> sl.len + 1]]]
             /\ hist' = hist /\ sent' = sent
  BY <1>1 DEF AddStore, diskVars, ghostVars
<1>3. /\ wr \in [Writers -> WriterType] /\ cells \in [Arrays -> Seq(Msgs)] /\ sl.len \in Nat
      /\ sl.arr \in Arrays \cup {NoArray} /\ wr[w].pc = "append"
  BY <1>1 DEF TypeOK, SliceType, AddStore
<1>4. /\ m \in sent /\ \A b \in Arrays : Lacks(cells[b], m) /\ Single(cells[b], sent)
      /\ \A v \in Writers : v # w /\ wr[v].pc = "append" => wr[v].msg # m
  BY <1>1, <1>3 DEF Fresh, OnceEach, Unstored
<1>5. /\ Single(Content(sl), sent) /\ Content(sl) \in Seq(Msgs) /\ Lacks(Content(sl), m)
  BY <1>1, <1>4, SingleContent DEF Fresh
<1>6. \A b \in Arrays : /\ Single(cells'[b], sent)
                        /\ \A x : x # m /\ (\A c \in Arrays : Lacks(cells[c], x)) => Lacks(cells'[b], x)
  <2>1. CASE sl.arr # NoArray /\ sl.len < cap[sl.arr]
    <3>1. cells' = [cells EXCEPT ![sl.arr] = Put(cells[sl.arr], sl.len + 1, m)] /\ sl.arr \in Arrays
      BY <1>2, <1>3, <2>1 DEF AppendTo
    <3>2. PICK q \in Seq(Msgs), k \in Nat \ {0} :
                 q = cells[sl.arr] /\ k = sl.len + 1 /\ k <= Len(q) + 1
      BY <1>1, <1>3, <2>1 DEF SliceOK
    <3>3. Single(Put(q, k, m), sent)
      BY <1>4, <2>1, <3>1, <3>2, SinglePut
    <3>4. \A x : x # m /\ Lacks(q, x) => Lacks(Put(q, k, m), x)
      <4>1. CASE k <= Len(q)
        BY <4>1 DEF Put, Lacks
      <4>2. CASE k = Len(q) + 1
        <5>1. /\ DOMAIN q = 1 .. Len(q) /\ DOMAIN Append(q, m) = 1 .. Len(q) + 1 /\ Len(q) \in Nat
              /\ \A i \in 1 .. Len(q) + 1 : Append(q, m)[i] = IF i = Len(q) + 1 THEN m ELSE q[i]
          OBVIOUS
        <5> QED BY <4>2, <5>1 DEF Put, Lacks
      <4> QED BY <3>2, <4>1, <4>2, LenProperties
    <3> QED BY <1>3, <1>4, <3>1, <3>2, <3>3, <3>4
  <2>2. CASE ~(sl.arr # NoArray /\ sl.len < cap[sl.arr])
    <3>1. PICK q \in Seq(Msgs) : q = Content(sl)
      BY <1>5
    <3>2. cells' = [cells EXCEPT ![a] = Append(q, m)]
      BY <1>2, <2>2, <3>1 DEF AppendTo
    <3>3. Single(Append(q, m), sent)
      BY <1>4, <1>5, <3>1, SingleAppend
    <3>4. \A x : x # m /\ Lacks(q, x) => Lacks(Append(q, m), x)
      <4>1. /\ DOMAIN q = 1 .. Len(q) /\ DOMAIN Append(q, m) = 1 .. Len(q) + 1 /\ Len(q) \in Nat
            /\ \A i \in 1 .. Len(q) + 1 : Append(q, m)[i] = IF i = Len(q) + 1 THEN m ELSE q[i]
        OBVIOUS
      <4> QED BY <4>1 DEF Lacks
    <3>5. \A x : (\A c \in Arrays : Lacks(cells[c], x)) => Lacks(q, x)
      BY <1>1, <3>1, SingleContent DEF Fresh
    <3> QED BY <1>3, <1>4, <3>2, <3>3, <3>4, <3>5
  <2> QED BY <2>1, <2>2
<1>7. \A v \in Writers : /\ wr'[v].data = wr[v].data
                         /\ wr'[v].pc = "append" => v # w /\ wr[v].pc = "append" /\ wr'[v].msg = wr[v].msg
  BY <1>2, <1>3 DEF WriterType
<1>8. OnceEach'
  BY <1>2, <1>6, <1>7 DEF Fresh, OnceEach
<1>9. Unstored'
  BY <1>2, <1>4, <1>6, <1>7 DEF Fresh, Unstored
<1> QED BY <1>8, <1>9 DEF Fresh

\* Files take what a slice held, or nothing.
LEMMA FreshStep ==
  ASSUME TypeOK, Fresh, NEW w \in Writers, Step(w)
  PROVE  Fresh'
<1>w. /\ wr \in [Writers -> WriterType] /\ wr[w] \in WriterType /\ hist \in [Sessions -> FileType]
      /\ \A v \in Writers : Single(wr[v].data, sent)
      /\ \A s \in Sessions : Single(hist[s].val, sent)
      /\ IdleWriter \in WriterType /\ Single(IdleWriter.data, sent) /\ IdleWriter.pc = "idle"
      /\ SliceOK(wr[w].slice) /\ wr[w].slice \in SliceType
  BY IdleType, SingleEmpty DEF TypeOK, Fresh, OnceEach, IdleWriter, WriterOK, WriterType
<1>1. CASE CreateHistory(w)
  BY <1>1, <1>w, FreshFrame DEF CreateHistory, Goto, diskVars, ghostVars, WriterType
<1>2. CASE AddStore(w)
  BY <1>2, FreshStore
<1>3. CASE AddTouch(w)
  <2>1. \A v \in Writers : Single(wr'[v].data, sent) /\ (wr'[v].pc = "append" => wr'[v] = wr[v])
    BY <1>3, <1>w DEF AddTouch, Goto, WriterType
  <2> QED BY <1>3, <1>w, <2>1, FreshFrame DEF AddTouch, diskVars, memVars
<1>4. CASE MetaOpen(w)
  BY <1>4, <1>w, FreshFrame DEF MetaOpen, Goto, memVars, ghostVars, WriterType
<1>5. ASSUME wr' = [wr EXCEPT ![w] = IF wr[w].msg = NoMsg THEN IdleWriter ELSE [wr[w] EXCEPT !.pc = "save"]],
             UNCHANGED <<cells, hist, sent>>
      PROVE  Fresh'
  <2>1. \A v \in Writers : Single(wr'[v].data, sent) /\ (wr'[v].pc = "append" => wr'[v] = wr[v])
    BY <1>5, <1>w DEF WriterType
  <2> QED BY <1>5, <1>w, <2>1, FreshFrame
<1>6. CASE MetaWrite(w)
  BY <1>5, <1>6 DEF MetaWrite, AfterMeta, memVars, ghostVars
<1>7. CASE HistoryOpen(w)
  <2>1. Single(Content(wr[w].slice), sent)
    BY <1>w, SingleContent DEF Fresh
  <2>2. /\ hist' = [hist EXCEPT ![wr[w].sid] = EmptyFile] /\ UNCHANGED <<cells, sent>>
        /\ wr' = [wr EXCEPT ![w] = [wr[w] EXCEPT !.pc = "savewrite", !.data = Content(wr[w].slice)]]
    BY <1>7 DEF HistoryOpen, memVars, ghostVars
  <2>3. \A s \in Sessions : Single(hist'[s].val, sent)
    BY <1>w, <2>2, SingleEmpty DEF EmptyFile
  <2>4. \A v \in Writers : Single(wr'[v].data, sent) /\ (wr'[v].pc = "append" => wr'[v] = wr[v])
    BY <1>w, <2>1, <2>2 DEF WriterType
  <2> QED BY <2>2, <2>3, <2>4, FreshFrame
<1>8. CASE HistoryWrite(w)
  <2>1. PICK f \in Written(hist[wr[w].sid], wr[w].data) : hist' = [hist EXCEPT ![wr[w].sid] = f]
    BY <1>8 DEF HistoryWrite
  <2>2. Single(f.val, sent)
    BY <1>w, <2>1, SingleEmpty DEF Written, File, MixedFile
  <2>3. \A s \in Sessions : Single(hist'[s].val, sent)
    BY <1>w, <2>1, <2>2
  <2>4. wr' = [wr EXCEPT ![w].pc = "return"] /\ UNCHANGED <<cells, sent>>
    BY <1>8 DEF HistoryWrite, Goto, memVars, ghostVars
  <2>5. \A v \in Writers : wr'[v].data = wr[v].data /\ (wr'[v].pc = "append" => wr'[v] = wr[v])
    BY <1>w, <2>4 DEF WriterType
  <2> QED BY <1>w, <2>3, <2>4, <2>5, FreshFrame
<1>9. CASE AddReturn(w)
  <2>1. \A v \in Writers : Single(wr'[v].data, sent) /\ (wr'[v].pc = "append" => wr'[v] = wr[v])
    BY <1>9, <1>w DEF AddReturn
  <2> QED BY <1>9, <1>w, <2>1, FreshFrame DEF AddReturn, memVars, diskVars
<1>10. CASE MetaFails(w)
  BY <1>5, <1>10 DEF MetaFails, AfterMeta, memVars, diskVars
<1>11. CASE HistoryFails(w)
  BY <1>11, <1>w, FreshFrame DEF HistoryFails, Goto, memVars, diskVars, WriterType
<1> QED BY <1>1, <1>2, <1>3, <1>4, <1>6, <1>7, <1>8, <1>9, <1>10, <1>11 DEF Step

LEMMA FreshBegin ==
  ASSUME TypeOK, Fresh, NEW w \in Writers, NEW s \in Sessions
  PROVE  /\ CreateSession(w, s) => Fresh'
         /\ \A m \in Msgs : AddLoad(w, s, m) => Fresh'
<1>w. /\ wr \in [Writers -> WriterType]
      /\ \A v \in Writers : Single(wr[v].data, sent)
      /\ IdleWriter \in WriterType /\ \A S : Single(IdleWriter.data, S)
  BY IdleType, SingleEmpty DEF TypeOK, Fresh, OnceEach, IdleWriter
<1>1. ASSUME CreateSession(w, s) PROVE Fresh'
  <2>1. \A v \in Writers : Single(wr'[v].data, sent) /\ (wr'[v].pc = "append" => wr'[v] = wr[v])
    BY <1>1, <1>w DEF CreateSession, WriterType
  <2>2. UNCHANGED <<cells, hist, sent>>
    BY <1>1 DEF CreateSession, diskVars
  <2> QED BY <2>1, <2>2, FreshFrame DEF Fresh, OnceEach
<1>2. ASSUME NEW m \in Msgs, AddLoad(w, s, m) PROVE Fresh'
  <2>1. /\ sent' = sent \cup {m} /\ m \notin sent /\ UNCHANGED <<cells, hist>>
        /\ wr' = [wr EXCEPT ![w] = [IdleWriter EXCEPT !.pc = "append", !.sid = s, !.msg = m,
                                                      !.slice = histories[s]]]
    BY <1>2 DEF AddLoad, memVars, diskVars
  <2>2. \A v \in Writers : /\ Single(wr'[v].data, sent)
                           /\ v # w => wr'[v] = wr[v]
                           /\ v = w => wr'[v].msg = m
    BY <1>w, <2>1 DEF WriterType
  <2>3. \A q : Single(q, sent) => Single(q, sent') /\ Lacks(q, m)
    BY <2>1 DEF Single, Lacks
  <2>4. OnceEach'
    BY <2>1, <2>2, <2>3 DEF Fresh, OnceEach
  <2>5. Unstored'
    BY <2>1, <2>2, <2>3 DEF Fresh, OnceEach, Unstored
  <2> QED BY <2>4, <2>5 DEF Fresh
<1> QED BY <1>1, <1>2

LEMMA FreshAcrossCrash ==
  ASSUME TypeOK, Fresh, Crash \/ Restart, Idling
  PROVE  Fresh'
<1>1. CASE Crash
  BY <1>1, SingleEmpty, FreshFrame DEF Crash, diskVars, Fresh, OnceEach, IdleWriter
<1>2. CASE Restart
  <2>1. \A s \in Sessions : Single(Restored(s), sent)
    BY SingleEmpty DEF Restored, Loaded, Fresh, OnceEach
  <2> DEFINE old == {s \in Sessions : Restored(s) # <<>>}
  <2>2. PICK at \in [old -> Arrays] :
               cells' = [a \in Arrays |->
                           IF \E s \in old : at[s] = a
                             THEN Restored(CHOOSE s \in old : at[s] = a) ELSE <<>>]
    BY <1>2 DEF Restart
  <2>3. \A a \in Arrays : Single(cells'[a], sent)
    BY <2>1, <2>2, SingleEmpty
  <2>4. UNCHANGED <<hist, wr, sent>>
    BY <1>2 DEF Restart, diskVars, ghostVars
  <2>5. \A w \in Writers : wr[w].pc = "idle"
    BY <1>2 DEF Restart, Idling
  <2>6. OnceEach'
    BY <2>3, <2>4 DEF Fresh, OnceEach
  <2>7. Unstored'
    BY <2>4, <2>5 DEF Unstored
  <2> QED BY <2>6, <2>7 DEF Fresh
<1> QED BY <1>1, <1>2

\* No call, however it overlaps with others, doubles a message: what is about
\* to be appended is nowhere yet, and a slice is a part of its array (store.go:126-128).
THEOREM NothingDoubled == Spec => []NoDuplicates
<1>1. Fresh /\ IInv /\ [Next]_vars => Fresh'
  <2> SUFFICES ASSUME Fresh, IInv, [Next]_vars PROVE Fresh'
    OBVIOUS
  <2>1. TypeOK /\ Idling
    BY DEF IInv
  <2>2. CASE UNCHANGED vars
    BY <2>2 DEF vars, memVars, diskVars, ghostVars, Fresh, OnceEach, Unstored
  <2> QED BY <2>1, <2>2, FreshStep, FreshBegin, FreshAcrossCrash DEF Next
<1>2. Fresh /\ IInv => NoDuplicates
  <2> SUFFICES ASSUME Fresh, IInv, NEW s \in Sessions
               PROVE  IsInjective(Content(histories[s])) /\ IsInjective(hist[s].val)
    BY DEF NoDuplicates
  <2>1. TypeOK /\ histories[s] \in SliceType /\ SliceOK(histories[s])
    BY DEF IInv, TypeOK
  <2> QED BY <2>1, SingleContent DEF Fresh, OnceEach, Single
<1> QED BY <1>1, <1>2, FreshInit, Inductive, PTL DEF Spec

-----------------------------------------------------------------------------
(* The session store implements the durable log: every step maps to a step *)
(* of the log or leaves it alone.                                          *)

LEMMA PrefixOfAppend ==
  ASSUME NEW q \in Seq(Msgs), NEW m \in Msgs
  PROVE  /\ IsPrefix(q, q) /\ IsPrefix(q, Append(q, m))
         /\ Append(q, m) \in Seq(Msgs) /\ Len(Append(q, m)) = Len(q) + 1 /\ Len(q) \in Nat
<1>1. /\ Append(q, m) \in Seq(Msgs) /\ Len(Append(q, m)) = Len(q) + 1 /\ Len(q) \in Nat
      /\ \A i \in 1 .. Len(q) : Append(q, m)[i] = q[i]
  BY AppendProperties, LenProperties
<1>2. SubSeq(q, 1, Len(q)) = q
  BY SubSeqFull
<1>3. SubSeq(Append(q, m), 1, Len(q)) = q
  <2> DEFINE x == SubSeq(Append(q, m), 1, Len(q))
  <2>1. x \in Seq(Msgs) /\ Len(x) = Len(q) /\ \A i \in 1 .. Len(q) : x[i] = Append(q, m)[i]
    BY <1>1, PrefixType
  <2> HIDE DEF x
  <2>2. x = q
    BY <1>1, <2>1, SeqEqual
  <2> QED BY <2>2 DEF x
<1> QED BY <1>1, <1>2, <1>3 DEF IsPrefix

\* What the refinement mapping says of one session.
LEMMA Mapped ==
  ASSUME NEW s \in Sessions
  PROVE  /\ ReadBack[s] = IF s \in tainted THEN <<>>
                          ELSE IF up THEN Content(histories[s]) ELSE Restored(s)
         /\ Acked[s] = IF s \in tainted THEN 0 ELSE Len(log[s])
         /\ DOMAIN ReadBack = Sessions /\ DOMAIN Acked = Sessions
BY DEF ReadBack, Acked

\* A step that changes only one session for the log is a step on that session.
LEMMA Steps ==
  ASSUME NEW s \in Sessions,
         \A t \in Sessions \ {s} : ReadBack'[t] = ReadBack[t] /\ Acked'[t] = Acked[t]
  PROVE  /\ s \notin tainted /\ tainted' = tainted /\ Acked'[s] = Acked[s]
              /\ (\E m \in Msgs : ReadBack'[s] = Append(ReadBack[s], m)) => Durable!Add(s)
         /\ s \notin tainted /\ tainted' = tainted /\ ReadBack'[s] = ReadBack[s]
              /\ Acked'[s] = Len(ReadBack[s]) => Durable!Acknowledge(s)
         /\ s \in tainted' /\ tainted' = tainted \cup {s} => Durable!Lose(s)
         /\ tainted' = tainted /\ ReadBack'[s] = ReadBack[s] /\ Acked'[s] = Acked[s]
              => UNCHANGED Durable!vars
<1>1. /\ ReadBack' = [t \in Sessions |-> ReadBack'[t]] /\ Acked' = [t \in Sessions |-> Acked'[t]]
      /\ ReadBack = [t \in Sessions |-> ReadBack[t]] /\ Acked = [t \in Sessions |-> Acked[t]]
  BY DEF ReadBack, Acked
<1>2. s \in tainted' => ReadBack'[s] = <<>> /\ Acked'[s] = 0
  BY DEF ReadBack, Acked
<1> QED BY <1>1, <1>2 DEF Durable!Add, Durable!Acknowledge, Durable!Lose, Durable!vars

-----------------------------------------------------------------------------
(* The steps of a call.                                                    *)

LEMMA OtherSessions ==
  ASSUME IInv, NEW w \in Writers, Step(w), NEW t \in Sessions \ {wr[w].sid}
  PROVE  ReadBack'[t] = ReadBack[t] /\ Acked'[t] = Acked[t]
<1>1. TypeOK /\ Idling /\ Disjoint
  BY DEF IInv
<1>2. /\ up' = up /\ tainted \subseteq tainted' /\ log'[t] = log[t]
      /\ meta'[t] = meta[t] /\ hist'[t] = hist[t]
  BY <1>1, StepFrame
<1>3. Content(histories[t])' = Content(histories[t])
  BY <1>1, StepContent
<1>4. Restored(t)' = Restored(t)
  BY <1>2 DEF Restored
<1>5. tainted' \in {tainted, tainted \cup {wr[w].sid}}
  BY DEF Step, CreateHistory, AddStore, AddTouch, MetaOpen, MetaWrite, HistoryOpen, HistoryWrite,
         AddReturn, MetaFails, HistoryFails, TaintIf, ghostVars
<1> QED BY <1>2, <1>3, <1>4, <1>5, Mapped DEF ReadBack, Acked

\* A step of a call appends, acknowledges, loses the session or is not seen.
LEMMA StepImplements ==
  ASSUME IInv, IInv', NEW w \in Writers, Step(w)
  PROVE  [Durable!Next]_(Durable!vars)
<1> USE NoneFresh
<1> SUFFICES ASSUME NEW s \in Sessions, s = wr[w].sid
             PROVE  [Durable!Next]_(Durable!vars)
  BY StepFrame DEF IInv
<1>1. /\ TypeOK /\ Idling /\ TypeOK' /\ up /\ up' /\ s \in Sessions
      /\ tainted' \in {tainted, tainted \cup {s}}
      /\ \A t \in Sessions \ {s} : ReadBack'[t] = ReadBack[t] /\ Acked'[t] = Acked[t]
  <2>1. tainted' \in {tainted, tainted \cup {s}}
    BY DEF Step, CreateHistory, AddStore, AddTouch, MetaOpen, MetaWrite, HistoryOpen, HistoryWrite,
           AddReturn, MetaFails, HistoryFails, TaintIf, ghostVars
  <2>2. TypeOK /\ Idling /\ TypeOK'
    BY DEF IInv
  <2> QED BY <2>1, <2>2, OtherSessions, StepFrame
<1>2. CASE s \in tainted'
  <2>1. tainted' = tainted \cup {s}
    BY <1>1, <1>2
  <2>2. Durable!Lose(s)
    BY <1>1, <1>2, <2>1, Steps
  <2> QED BY <1>1, <2>2 DEF Durable!Next
<1>3. CASE s \notin tainted'
  <2>1. /\ tainted' = tainted /\ s \notin tainted
        /\ ReadBack[s] = Content(histories[s]) /\ Acked[s] = Len(log[s])
        /\ ReadBack'[s] = Content(histories[s])' /\ Acked'[s] = Len(log'[s])
    BY <1>1, <1>3 DEF ReadBack, Acked
  <2>2. KeptAt(s) /\ KeptAt(s)' /\ w \in On(s) /\ Phase(w, s)
    BY <1>1, <2>1 DEF IInv, Kept, KeptAt, On
  <2>3. CASE CreateHistory(w)
    <3>1. /\ log' = log /\ histories' = [histories EXCEPT ![s] = NilSlice] /\ wr[w].pc = "history"
      BY <2>3 DEF CreateHistory, ghostVars
    <3>2. Content(histories[s])' = <<>>
      BY <1>1, <3>1 DEF Content, NilSlice, TypeOK
    <3>3. Content(histories[s]) = <<>>
      BY <2>2, <3>1 DEF Phase
    <3> QED BY <1>1, <2>1, <3>1, <3>2, <3>3, Steps
  <2>4. CASE AddStore(w)
    <3>1. /\ log' = log /\ wr[w].pc = "append" /\ wr[w].msg \in Msgs
          /\ wr'[w].pc = "touch" /\ wr'[w].msg = wr[w].msg /\ wr'[w].sid = s
      <4>1. PICK sl : wr' = [wr EXCEPT ![w] = [wr[w] EXCEPT !.pc = "touch", !.slice = sl]]
        BY <2>4 DEF AddStore
      <4>2. wr \in [Writers -> WriterType] /\ wr[w].pc = "append"
        BY <1>1, <2>4 DEF TypeOK, AddStore
      <4> QED BY <1>1, <2>4, <4>1, <4>2 DEF AddStore, WriterType, TypeOK, WriterOK, ghostVars
    <3>2. Content(histories[s]) = log[s]
      BY <2>2, <3>1 DEF Phase
    <3>3. Phase(w, s)'
      BY <2>1, <2>2, <3>1 DEF KeptAt, On
    <3>4. Content(histories[s])' = Append(log'[s], wr'[w].msg)
      BY <3>1, <3>3 DEF Phase
    <3>5. ReadBack'[s] = Append(ReadBack[s], wr[w].msg) /\ Acked'[s] = Acked[s]
      BY <2>1, <3>1, <3>2, <3>4
    <3>6. Durable!Add(s)
      BY <1>1, <2>1, <3>1, <3>5, Steps
    <3> QED BY <1>1, <3>6 DEF Durable!Next
  <2>5. CASE AddReturn(w)
    <3>1. /\ histories' = histories /\ cells' = cells /\ wr[w].pc = "return"
          /\ log' = [log EXCEPT ![s] = Append(log[s], wr[w].msg)]
      BY <2>5 DEF AddReturn, memVars
    <3>2. Content(histories[s])' = Content(histories[s])
      BY <3>1 DEF Content
    <3>3. Content(histories[s]) = Append(log[s], wr[w].msg)
      BY <2>2, <3>1 DEF Phase
    <3>4. log'[s] = Append(log[s], wr[w].msg)
      BY <1>1, <3>1 DEF TypeOK
    <3>5. Durable!Acknowledge(s)
      BY <1>1, <2>1, <3>2, <3>3, <3>4, Steps
    <3> QED BY <1>1, <3>5 DEF Durable!Next
  <2>6. CASE ~(CreateHistory(w) \/ AddStore(w) \/ AddReturn(w))
    <3>1. histories' = histories /\ cells' = cells /\ log' = log
      BY <2>6 DEF Step, AddTouch, MetaOpen, MetaWrite, HistoryOpen, HistoryWrite, MetaFails,
                  HistoryFails, memVars, ghostVars
    <3>2. Content(histories[s])' = Content(histories[s])
      BY <3>1 DEF Content
    <3> QED BY <1>1, <2>1, <3>1, <3>2, Steps
  <2> QED BY <2>3, <2>4, <2>5, <2>6
<1> QED BY <1>2, <1>3

-----------------------------------------------------------------------------
(* The beginning of a call, crash and restart.                             *)

LEMMA BeginImplements ==
  ASSUME IInv, NEW w \in Writers, NEW s \in Sessions,
         CreateSession(w, s) \/ \E m \in Msgs : AddLoad(w, s, m)
  PROVE  [Durable!Next]_(Durable!vars)
<1>1. /\ up' = up /\ histories' = histories /\ cells' = cells /\ log' = log
      /\ hist' = hist /\ meta' = meta
      /\ tainted' \in {tainted, tainted \cup {s}}
  BY DEF CreateSession, AddLoad, memVars, diskVars, TaintIf
<1>2. \A t \in Sessions : Content(histories[t])' = Content(histories[t]) /\ Restored(t)' = Restored(t)
  BY <1>1 DEF Content, Restored
<1>3. \A t \in Sessions : t \in tainted' <=> t \in tainted \/ (t = s /\ s \in tainted')
  BY <1>1
<1>4. \A t \in Sessions \ {s} : ReadBack'[t] = ReadBack[t] /\ Acked'[t] = Acked[t]
  BY <1>1, <1>2, <1>3 DEF ReadBack, Acked
<1>5. CASE s \in tainted'
  BY <1>1, <1>4, <1>5, Steps DEF Durable!Next
<1>6. CASE s \notin tainted'
  <2>1. tainted' = tainted /\ ReadBack'[s] = ReadBack[s] /\ Acked'[s] = Acked[s]
    BY <1>1, <1>2, <1>6 DEF ReadBack, Acked
  <2> QED BY <1>4, <2>1, Steps
<1> QED BY <1>5, <1>6

LEMMA CrashImplements ==
  ASSUME IInv, IInv', Crash
  PROVE  Durable!Crash
<1> USE NoneFresh
<1>1. /\ up /\ ~up' /\ hist' = hist /\ meta' = meta
      /\ tainted' = tainted \cup {s \in Sessions : Unreadable(s)}
      /\ \A s \in Sessions : log'[s] = IF s \in tainted' THEN log[s] ELSE Loaded(hist[s])
      /\ \A s \in Sessions : On(s)' = {}
      /\ TypeOK /\ TypeOK' /\ Idling
  BY DEF Crash, diskVars, On, IdleWriter, IInv
<1>2. ASSUME NEW s \in Sessions, s \notin tainted'
      PROVE  /\ ReadBack'[s] = Loaded(hist[s]) /\ Acked'[s] = Len(Loaded(hist[s]))
             /\ IsPrefix(Loaded(hist[s]), Content(histories[s])) /\ Len(log[s]) <= Len(Loaded(hist[s]))
             /\ ReadBack[s] = Content(histories[s]) /\ Acked[s] = Len(log[s])
             /\ Loaded(hist[s]) \in Seq(Msgs)
  <2>1. s \notin tainted /\ KeptAt(s) /\ KeptAt(s)' /\ ~Unreadable(s)
    BY <1>1, <1>2 DEF IInv, Kept
  <2>2. Restored(s)' = log'[s] /\ log'[s] = Loaded(hist[s])
    BY <1>1, <1>2, <2>1 DEF KeptAt
  <2>3. /\ ReadBack'[s] = Loaded(hist[s]) /\ Acked'[s] = Len(Loaded(hist[s]))
        /\ ReadBack[s] = Content(histories[s]) /\ Acked[s] = Len(log[s])
    BY <1>1, <1>2, <2>1, <2>2 DEF ReadBack, Acked
  <2>4. log[s] \in Seq(Msgs) /\ Loaded(hist[s]) \in Seq(Msgs)
    BY <1>1 DEF TypeOK, FileType, Loaded
  <2>5. CASE On(s) = {}
    BY <1>1, <2>1, <2>3, <2>4, <2>5, PrefixType, SubSeqFull, LenProperties DEF KeptAt, IsPrefix
  <2>6. CASE On(s) # {}
    <3>1. PICK w \in On(s) : Phase(w, s)
      BY <2>1, <2>6 DEF KeptAt
    <3>2. w \in Writers /\ wr[w] \in WriterType /\ wr[w].pc # "idle" /\ WriterOK(wr[w])
      BY <1>1, <3>1 DEF On, TypeOK, Idling
    <3>3. hist[s] # EmptyFile
      BY <2>1 DEF Unreadable, EmptyFile
    <3> DEFINE l1 == Append(log[s], wr[w].msg)
    <3>4. \/ Loaded(hist[s]) = log[s] /\ Content(histories[s]) = log[s]
          \/ wr[w].msg \in Msgs /\ Loaded(hist[s]) = log[s] /\ Content(histories[s]) = l1
          \/ wr[w].msg \in Msgs /\ Loaded(hist[s]) = l1 /\ Content(histories[s]) = l1
      BY <3>1, <3>2, <3>3 DEF Phase, WriterType
    <3>5. CASE Loaded(hist[s]) = log[s] /\ Content(histories[s]) = log[s]
      BY <2>3, <2>4, <3>5, SubSeqFull, LenProperties DEF IsPrefix
    <3>6. CASE wr[w].msg \in Msgs
      <4>1. /\ IsPrefix(log[s], l1) /\ IsPrefix(l1, l1) /\ IsPrefix(log[s], log[s])
            /\ Len(l1) = Len(log[s]) + 1 /\ Len(log[s]) \in Nat
        BY <2>4, <3>6, PrefixOfAppend
      <4> HIDE DEF l1
      <4> QED BY <2>3, <2>4, <3>4, <4>1
    <3> QED BY <3>4, <3>5, <3>6
  <2> QED BY <2>3, <2>4, <2>5, <2>6
<1>3. \A s \in Sessions : s \in tainted' => ReadBack'[s] = <<>> /\ Acked'[s] = 0
  BY DEF ReadBack, Acked
<1>4. ReadBack' \in [Sessions -> Seq(Msgs)]
  <2>1. ReadBack' = [s \in Sessions |-> ReadBack'[s]]
    BY DEF ReadBack
  <2> QED BY <1>2, <1>3, <2>1, EmptySeq
<1>5. Acked' = [s \in Sessions |-> Len(ReadBack'[s])]
  <2>1. Acked' = [s \in Sessions |-> Acked'[s]]
    BY DEF Acked
  <2>2. \A s \in Sessions : Acked'[s] = Len(ReadBack'[s])
    BY <1>2, <1>3
  <2> QED BY <2>1, <2>2
<1>6. tainted \subseteq tainted' /\ tainted' \subseteq Sessions
  BY <1>1 DEF TypeOK
<1>7. \A q, r : Durable!IsPrefix(q, r) <=> IsPrefix(q, r)
  BY DEF IsPrefix, Durable!IsPrefix
<1> QED BY <1>2, <1>3, <1>4, <1>5, <1>6, <1>7 DEF Durable!Crash

LEMMA RestartImplements ==
  ASSUME IInv, IInv', Restart
  PROVE  UNCHANGED Durable!vars
<1>1. /\ up' /\ ~up /\ wr' = wr /\ log' = log /\ tainted' = tainted
  BY DEF Restart, ghostVars
<1>2. \A s \in Sessions : On(s) = {} /\ On(s)' = {}
  BY <1>1, NoneFresh DEF IInv, Idling, On, IdleWriter
<1>3. \A s \in Sessions : s \notin tainted => Content(histories[s])' = log[s] /\ Restored(s) = log[s]
  BY <1>1, <1>2 DEF IInv, Kept, KeptAt
<1>4. \A s \in Sessions : ReadBack'[s] = ReadBack[s] /\ Acked'[s] = Acked[s]
  BY <1>1, <1>3 DEF ReadBack, Acked
<1>5. /\ ReadBack' = [t \in Sessions |-> ReadBack'[t]] /\ Acked' = [t \in Sessions |-> Acked'[t]]
      /\ ReadBack = [t \in Sessions |-> ReadBack[t]] /\ Acked = [t \in Sessions |-> Acked[t]]
  BY DEF ReadBack, Acked
<1> QED BY <1>1, <1>4, <1>5 DEF Durable!vars

-----------------------------------------------------------------------------
(* The theorem.                                                            *)

\* The store is a durable log: what was acknowledged is there for every reader
\* and after every restart, messages come one by one and in order, and a
\* session that may lose more is one that met a cause of loss
\* (store.go:46-100, 102-139, 171-243).
THEOREM StoreIsDurable == Spec => ImplementsDurableLog
<1>1. Init => Durable!Init
  <2> SUFFICES ASSUME Init PROVE Durable!Init
    OBVIOUS
  <2>1. \A s \in Sessions : Content(histories[s]) = <<>> /\ s \notin tainted /\ log[s] = <<>> /\ up
    BY DEF Init, Content, NilSlice
  <2>2. ReadBack = [s \in Sessions |-> <<>>] /\ Acked = [s \in Sessions |-> 0]
    BY <2>1 DEF ReadBack, Acked
  <2> QED BY <2>2 DEF Durable!Init, Init
<1>2. IInv /\ IInv' /\ [Next]_vars => [Durable!Next]_(Durable!vars)
  <2> SUFFICES ASSUME IInv, IInv', [Next]_vars PROVE [Durable!Next]_(Durable!vars)
    OBVIOUS
  <2>1. CASE UNCHANGED vars
    <3>1. \A s \in Sessions : Content(histories[s])' = Content(histories[s]) /\ Restored(s)' = Restored(s)
      BY <2>1 DEF vars, memVars, diskVars, Content, Restored
    <3>2. ReadBack' = ReadBack /\ Acked' = Acked
      BY <2>1, <3>1 DEF vars, memVars, diskVars, ghostVars, ReadBack, Acked
    <3> QED BY <2>1, <3>2 DEF vars, ghostVars, Durable!vars
  <2> QED BY <2>1, StepImplements, BeginImplements, CrashImplements, RestartImplements
          DEF Next, Durable!Next
<1> QED BY <1>1, <1>2, Inductive, PTL DEF Spec, ImplementsDurableLog, Durable!Spec
=============================================================================
