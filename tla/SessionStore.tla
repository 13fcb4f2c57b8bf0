---------------------------- MODULE SessionStore ----------------------------
(***************************************************************************)
(* The session store (server/session/store.go): sessions and histories in  *)
(* memory, meta.json and history.json on disk, the goroutines that call    *)
(* Create and AddMessage without a common lock, crashes and restarts.      *)
(*                                                                         *)
(* A history is a Go slice, a length and a backing array: an append with   *)
(* room writes the shared array in place.  os.WriteFile is two steps, the  *)
(* truncating open and the write; the file is unreadable in between.       *)
(***************************************************************************)
EXTENDS Naturals, SequencesExt

CONSTANTS Sessions,    \* session ids
          Msgs,        \* messages; each is added at most once (fresh uuid)
          Writers,     \* goroutines inside Create or AddMessage
          Arrays,      \* identities of backing arrays
          NoArray,
          NoSession,
          NoMsg,
          DiskMayFail, \* whether opening or writing a file may fail
          MayCrash     \* whether the process may die

ASSUME NoneFresh == NoArray \notin Arrays /\ NoMsg \notin Msgs /\ NoSession \notin Sessions
ASSUME FaultsType == DiskMayFail \in BOOLEAN /\ MayCrash \in BOOLEAN

VARIABLES
  up,         \* the server process runs
  sessions,   \* Store.sessions: ids with a Session in memory
  histories,  \* Store.histories: id -> slice
  cells, cap, \* the backing arrays: contents and capacity
  meta,       \* meta.json of every id: "none", "empty", "mixed" or "ok"
  hist,       \* history.json of every id
  wr,         \* the writers' program counters and locals
  sent,       \* history: messages some AddMessage was called with
  known,      \* history: ids some call was made with
  log,        \* history: the messages whose AddMessage returned
  tainted     \* history: sessions that met a cause of loss

memVars   == <<sessions, histories, cells, cap>>
diskVars  == <<meta, hist>>
ghostVars == <<sent, known, log, tainted>>
vars == <<up, memVars, diskVars, wr, ghostVars>>

NilSlice == [arr |-> NoArray, len |-> 0]

\* What a slice holds.
Content(sl) == IF sl.arr = NoArray THEN <<>> ELSE SubSeq(cells[sl.arr], 1, sl.len)

NoFile    == [state |-> "none", val |-> <<>>]
EmptyFile == [state |-> "empty", val |-> <<>>]
MixedFile == [state |-> "mixed", val |-> <<>>]
File(h)   == [state |-> "ok", val |-> h]

\* What json.Unmarshal makes of a history file.
Loaded(f) == IF f.state = "ok" THEN f.val ELSE <<>>

IdleWriter == [pc |-> "idle", sid |-> NoSession, msg |-> NoMsg, slice |-> NilSlice, data |-> <<>>]

On(s) == {w \in Writers : wr[w].sid = s}

Init ==
  /\ up = TRUE
  /\ sessions = {}
  /\ histories = [s \in Sessions |-> NilSlice]
  /\ cells = [a \in Arrays |-> <<>>]
  /\ cap = [a \in Arrays |-> 0]
  /\ meta = [s \in Sessions |-> "none"]
  /\ hist = [s \in Sessions |-> NoFile]
  /\ wr = [w \in Writers |-> IdleWriter]
  /\ sent = {}
  /\ known = {}
  /\ log = [s \in Sessions |-> <<>>]
  /\ tainted = {}

Goto(w, label) == wr' = [wr EXCEPT ![w].pc = label]

\* A second call on a session while one is under way is a cause of loss.
TaintIf(cause, s) == tainted' = IF cause THEN tainted \cup {s} ELSE tainted

-----------------------------------------------------------------------------
(* Slices.                                                                 *)

\* Arrays nobody refers to any more are collected.
Live == {histories[s].arr : s \in Sessions} \cup {wr[w].slice.arr : w \in Writers}

Put(seq, k, m) == IF k <= Len(seq) THEN [seq EXCEPT ![k] = m] ELSE Append(seq, m)

\* Variants: append writes when the array is exactly full; the base is dropped.
AppendToFull(sl, m, new) ==
  /\ new.len = sl.len + 1
  /\ IF sl.arr # NoArray /\ sl.len <= cap[sl.arr]
       THEN /\ new.arr = sl.arr
            /\ cells' = [cells EXCEPT ![sl.arr] = Put(@, sl.len + 1, m)]
            /\ cap' = cap
       ELSE /\ new.arr \in Arrays \ Live
            /\ cells' = [cells EXCEPT ![new.arr] = Append(Content(sl), m)]
            /\ cap' = [cap EXCEPT ![new.arr] = sl.len + 1]
AddStoreFresh(w) ==
  LET s == wr[w].sid IN
  /\ wr[w].pc = "append"
  /\ \E a \in Arrays \ Live :
       LET new == [arr |-> a, len |-> 1] IN
         /\ cells' = [cells EXCEPT ![a] = <<wr[w].msg>>]
         /\ cap' = [cap EXCEPT ![a] = 1]
         /\ histories' = [histories EXCEPT ![s] = new]
         /\ wr' = [wr EXCEPT ![w].pc = "touch", ![w].slice = new]
  /\ UNCHANGED <<up, sessions, diskVars, ghostVars>>

\* append(sl, m) gives slice new: in place when the array has room, whoever
\* else shares it, in a larger copy otherwise.  How much room the runtime adds
\* is left open up to one cell.
AppendTo(sl, m, new) ==
  /\ new.len = sl.len + 1
  /\ IF sl.arr # NoArray /\ sl.len < cap[sl.arr]
       THEN /\ new.arr = sl.arr
            /\ cells' = [cells EXCEPT ![sl.arr] = Put(@, sl.len + 1, m)]
            /\ cap' = cap
       ELSE /\ new.arr \in Arrays \ Live
            /\ cells' = [cells EXCEPT ![new.arr] = Append(Content(sl), m)]
            /\ \E room \in 0 .. 1 : cap' = [cap EXCEPT ![new.arr] = sl.len + 1 + room]

-----------------------------------------------------------------------------
(* os.WriteFile(history.json, h): the file's possible contents after the   *)
(* write, when other writers may have filled it since this one truncated.  *)

Written(f, h) ==
  CASE f.state = "empty" -> {File(h)}
    [] f.state = "ok" /\ IsPrefix(f.val, h) -> {File(h)}
    [] f.state = "ok" /\ IsStrictPrefix(h, f.val) -> {MixedFile}
    [] OTHER -> {File(h), MixedFile}

\* The same for meta.json, whose writers differ in the timestamp only.
MetaWritten(f) == IF f = "empty" THEN {"ok"} ELSE {"ok", "mixed"}

-----------------------------------------------------------------------------
(* Create.                                                                 *)

\* sessions.Store of a session with a fresh id.
CreateSession(w, s) ==
  /\ up /\ wr[w].pc = "idle" /\ s \notin known
  /\ sessions' = sessions \cup {s}
  /\ known' = known \cup {s}
  /\ wr' = [wr EXCEPT ![w] = [IdleWriter EXCEPT !.pc = "history", !.sid = s]]
  /\ TaintIf(On(s) # {}, s)
  /\ UNCHANGED <<up, histories, cells, cap, diskVars, sent, log>>

\* histories.Store of the empty history.
CreateHistory(w) ==
  /\ wr[w].pc = "history"
  /\ histories' = [histories EXCEPT ![wr[w].sid] = NilSlice]
  /\ Goto(w, "meta")
  /\ UNCHANGED <<up, sessions, cells, cap, diskVars, ghostVars>>

-----------------------------------------------------------------------------
(* AddMessage.                                                             *)

\* Variant: the caller brings the id, so a retry adds the message again.
AddLoadRetried(w, s, m) ==
  /\ up /\ wr[w].pc = "idle"
  /\ sent' = sent \cup {m}
  /\ known' = known \cup {s}
  /\ wr' = [wr EXCEPT ![w] = [IdleWriter EXCEPT !.pc = "append", !.sid = s, !.msg = m,
                                                !.slice = histories[s]]]
  /\ TaintIf(On(s) # {}, s)
  /\ UNCHANGED <<up, memVars, diskVars, log>>

\* histories.Load.
AddLoad(w, s, m) ==
  /\ up /\ wr[w].pc = "idle" /\ m \notin sent
  /\ sent' = sent \cup {m}
  /\ known' = known \cup {s}
  /\ wr' = [wr EXCEPT ![w] = [IdleWriter EXCEPT !.pc = "append", !.sid = s, !.msg = m,
                                                !.slice = histories[s]]]
  /\ TaintIf(On(s) # {}, s)
  /\ UNCHANGED <<up, memVars, diskVars, log>>

\* append and histories.Store.
AddStore(w) ==
  LET s == wr[w].sid IN
  /\ wr[w].pc = "append"
  /\ \E a \in Arrays :
       LET new == [arr |-> a, len |-> wr[w].slice.len + 1] IN
         /\ AppendTo(wr[w].slice, wr[w].msg, new)
         /\ histories' = [histories EXCEPT ![s] = new]
         /\ wr' = [wr EXCEPT ![w].pc = "touch", ![w].slice = new]
  /\ UNCHANGED <<up, sessions, diskVars, ghostVars>>

\* sessions.Load: a history without a session gets no meta.json.
AddTouch(w) ==
  LET s == wr[w].sid IN
  /\ wr[w].pc = "touch"
  /\ Goto(w, IF s \in sessions THEN "meta" ELSE "save")
  /\ TaintIf(s \notin sessions, s)
  /\ UNCHANGED <<up, memVars, diskVars, sent, known, log>>

-----------------------------------------------------------------------------
(* saveSessionToDisk, for Create and for AddMessage, and saveHistoryToDisk. *)

\* What follows the save of meta.json: the history's for AddMessage, nothing
\* for Create.
AfterMeta(w) ==
  wr' = [wr EXCEPT ![w] = IF @.msg = NoMsg THEN IdleWriter ELSE [@ EXCEPT !.pc = "save"]]

MetaOpen(w) ==
  /\ wr[w].pc = "meta"
  /\ meta' = [meta EXCEPT ![wr[w].sid] = "empty"]
  /\ Goto(w, "metawrite")
  /\ UNCHANGED <<up, memVars, hist, ghostVars>>

MetaWrite(w) ==
  /\ wr[w].pc = "metawrite"
  /\ \E f \in MetaWritten(meta[wr[w].sid]) : meta' = [meta EXCEPT ![wr[w].sid] = f]
  /\ AfterMeta(w)
  /\ UNCHANGED <<up, memVars, hist, ghostVars>>

\* Variant: the history saved is the one that was loaded.
HistoryOpenOld(w) ==
  /\ wr[w].pc = "save"
  /\ hist' = [hist EXCEPT ![wr[w].sid] = EmptyFile]
  /\ wr' = [wr EXCEPT ![w].pc = "savewrite",
                      ![w].data = Content([wr[w].slice EXCEPT !.len = @ - 1])]
  /\ UNCHANGED <<up, memVars, meta, ghostVars>>

\* Marshal of the slice, then the truncating open.
HistoryOpen(w) ==
  /\ wr[w].pc = "save"
  /\ hist' = [hist EXCEPT ![wr[w].sid] = EmptyFile]
  /\ wr' = [wr EXCEPT ![w].pc = "savewrite", ![w].data = Content(wr[w].slice)]
  /\ UNCHANGED <<up, memVars, meta, ghostVars>>

HistoryWrite(w) ==
  LET s == wr[w].sid IN
  /\ wr[w].pc = "savewrite"
  /\ \E f \in Written(hist[s], wr[w].data) : hist' = [hist EXCEPT ![s] = f]
  /\ Goto(w, "return")
  /\ UNCHANGED <<up, memVars, meta, ghostVars>>

\* AddMessage returns: the message is acknowledged.
AddReturn(w) ==
  /\ wr[w].pc = "return"
  /\ wr' = [wr EXCEPT ![w] = IdleWriter]
  /\ log' = [log EXCEPT ![wr[w].sid] = Append(@, wr[w].msg)]
  /\ UNCHANGED <<up, memVars, diskVars, sent, known, tainted>>

\* A save fails, before the open or before the write: its error is dropped.
MetaFails(w) ==
  /\ DiskMayFail
  /\ wr[w].pc \in {"meta", "metawrite"}
  /\ AfterMeta(w)
  /\ TaintIf(TRUE, wr[w].sid)
  /\ UNCHANGED <<up, memVars, diskVars, sent, known, log>>

HistoryFails(w) ==
  /\ DiskMayFail
  /\ wr[w].pc \in {"save", "savewrite"}
  /\ Goto(w, "return")
  /\ TaintIf(TRUE, wr[w].sid)
  /\ UNCHANGED <<up, memVars, diskVars, sent, known, log>>

-----------------------------------------------------------------------------
(* The process dies at any moment; NewStore loads what the disk has.       *)

Unreadable(s) == meta[s] \in {"empty", "mixed"} \/ hist[s].state \in {"empty", "mixed"}

\* A session is hurt by the crash if one of its files is being rewritten; a
\* message that was on its way may have reached the disk or not.
Crash ==
  /\ MayCrash /\ up
  /\ up' = FALSE
  /\ sessions' = {}
  /\ histories' = [s \in Sessions |-> NilSlice]
  /\ wr' = [w \in Writers |-> IdleWriter]
  /\ tainted' = tainted \cup {s \in Sessions : Unreadable(s)}
  /\ log' = [s \in Sessions |-> IF s \in tainted' THEN log[s] ELSE Loaded(hist[s])]
  /\ UNCHANGED <<cells, cap, diskVars, sent, known>>

\* The history a restart brings back.
Restored(s) == IF meta[s] = "ok" THEN Loaded(hist[s]) ELSE <<>>

\* loadFromDisk: a directory without a readable meta.json is skipped, an
\* unreadable history is the empty one.
Restart ==
  /\ ~up
  /\ up' = TRUE
  /\ sessions' = {s \in Sessions : meta[s] = "ok"}
  /\ LET old == {s \in Sessions : Restored(s) # <<>>} IN
       \E at \in [old -> Arrays] :
         /\ \A s, t \in old : s # t => at[s] # at[t]
         /\ histories' = [s \in Sessions |->
                            IF s \in old THEN [arr |-> at[s], len |-> Len(Restored(s))] ELSE NilSlice]
         /\ cells' = [a \in Arrays |->
                        IF \E s \in old : at[s] = a
                          THEN Restored(CHOOSE s \in old : at[s] = a) ELSE <<>>]
         /\ \E room \in 0 .. 1 : cap' = [a \in Arrays |-> Len(cells'[a]) + room]
  /\ UNCHANGED <<diskVars, wr, ghostVars>>

-----------------------------------------------------------------------------
Step(w) == \/ CreateHistory(w) \/ AddStore(w) \/ AddTouch(w)
           \/ MetaOpen(w) \/ MetaWrite(w) \/ HistoryOpen(w) \/ HistoryWrite(w) \/ AddReturn(w)
           \/ MetaFails(w) \/ HistoryFails(w)

Next ==
  \/ \E w \in Writers :
       \/ Step(w)
       \/ \E s \in Sessions : CreateSession(w, s) \/ \E m \in Msgs : AddLoad(w, s, m)
  \/ Crash
  \/ Restart

Spec == Init /\ [][Next]_vars

-----------------------------------------------------------------------------
(* Properties.                                                             *)

FileStates == {"none", "empty", "mixed", "ok"}
FileType   == [state : FileStates, val : Seq(Msgs)]
SliceType  == [arr : Arrays \cup {NoArray}, len : Nat]
WriterType == [pc : {"idle", "history", "append", "touch", "meta", "metawrite", "save", "savewrite", "return"},
               sid : Sessions \cup {NoSession}, msg : Msgs \cup {NoMsg},
               slice : SliceType, data : Seq(Msgs)]

SliceOK(sl) == IF sl.arr = NoArray THEN sl.len = 0 ELSE sl.len <= Len(cells[sl.arr])

WriterOK(r) ==
  /\ r.pc # "idle" => r.sid \in Sessions
  /\ r.pc \in {"append", "touch", "save", "savewrite", "return"} => r.msg \in Msgs
  /\ SliceOK(r.slice)

\* The type invariant; a slice never reaches beyond its array, nor the array
\* beyond its capacity.
TypeOK ==
  /\ up \in BOOLEAN
  /\ sessions \in SUBSET Sessions
  /\ histories \in [Sessions -> SliceType]
  /\ cells \in [Arrays -> Seq(Msgs)]
  /\ cap \in [Arrays -> Nat]
  /\ meta \in [Sessions -> FileStates]
  /\ hist \in [Sessions -> FileType]
  /\ wr \in [Writers -> WriterType]
  /\ sent \in SUBSET Msgs
  /\ known \in SUBSET Sessions
  /\ log \in [Sessions -> Seq(Msgs)]
  /\ tainted \in SUBSET Sessions
  /\ \A w \in Writers : WriterOK(wr[w])
  /\ \A s \in Sessions : SliceOK(histories[s])
  /\ \A a \in Arrays : Len(cells[a]) <= cap[a]

\* A message is lost for a reason: as long as no two calls overlapped on the
\* session, the session existed, no save failed and no crash fell into the
\* rewriting of its files, then between calls both the memory and what a
\* restart would load hold exactly the messages whose AddMessage returned, in
\* order (store.go:121-139, 171-213, 231-243).
AckedIsKept ==
  \A s \in Sessions :
    s \notin tainted /\ On(s) = {} =>
      /\ Restored(s) = log[s]
      /\ up => Content(histories[s]) = log[s]

\* A crash in the middle of a call can make the disk differ from what was
\* acknowledged by the one message that was on its way, and by nothing else.
OneMessageAtRisk ==
  \A s \in Sessions :
    s \notin tainted /\ ~Unreadable(s) =>
      Loaded(hist[s]) \in {log[s]} \cup {Append(log[s], wr[w].msg) : w \in On(s)}

\* Whatever calls overlap, a racing append drops messages but never doubles
\* one, in memory or in a file that can be read (store.go:126-128).
NoDuplicates ==
  \A s \in Sessions : IsInjective(Content(histories[s])) /\ IsInjective(hist[s].val)

\* "Memory + file persistence", "read the history when the session resumes"
\* (docs/implementation-plan.md): what was acknowledged is there after a crash.
AckedSurvivesCrash ==
  ~up => \A s \in Sessions : meta[s] = "ok" => Range(log[s]) \subseteq Range(Restored(s))

\* The history a reader finds, or a restart would; what was acknowledged of it.
ReadBack == [s \in Sessions |-> IF s \in tainted THEN <<>>
                                ELSE IF up THEN Content(histories[s]) ELSE Restored(s)]
Acked    == [s \in Sessions |-> IF s \in tainted THEN 0 ELSE Len(log[s])]

Durable == INSTANCE DurableLog WITH history <- ReadBack, stable <- Acked, lost <- tainted

\* Slices, arrays, two files per session and calls in many steps together
\* behave like a log that keeps what it acknowledged: appends come one by one,
\* saves are invisible, a crash costs no more than the message on its way and
\* a restart brings back exactly the rest (store.go:46-100, 121-243).
ImplementsDurableLog == Durable!Spec
=============================================================================
