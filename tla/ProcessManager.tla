--------------------------- MODULE ProcessManager ---------------------------
(***************************************************************************)
(* The table of Claude processes (server/process/manager.go) together with *)
(* the callers that take and drop references to its entries: the WebSocket *)
(* connections of server/ws and the REST requests of server/api/chat.go.   *)
(*                                                                         *)
(* sync.Map operations and the sections guarded by entry.mu are the atomic *)
(* steps; between them every goroutine may run.  A REST request behaves as *)
(* a connection that never attaches: it calls GetOrCreate and ends.        *)
(***************************************************************************)
EXTENDS Integers, FiniteSets

CONSTANTS Sessions,    \* session ids
          Conns,       \* WebSocket connections and REST requests
          Entries,     \* identities of the processEntry objects
          NoSession,
          NoEntry,
          IdleTimeout, \* manager.idleTimeout, in clock ticks
          MaxRef       \* bound: no new call while an entry has MaxRef references

ASSUME ConnsFinite   == IsFiniteSet(Conns)
ASSUME NoEntryFresh  == NoEntry \notin Entries
ASSUME NoSessionFresh == NoSession \notin Sessions
ASSUME TimeoutNat    == IdleTimeout \in Nat
ASSUME MaxRefNat     == MaxRef \in Nat

VARIABLES
  processes,  \* Manager.processes: session id -> entry
  owner,      \* the session an entry was created for, NoSession before
  refCount,   \* processEntry.refCount
  age,        \* ticks since processEntry.lastUsed, saturated
  closed,     \* entries whose agent.Close() was called
  open,       \* connections whose ServeHTTP is running
  sid,        \* ConnState.sessionID
  pc, call,   \* where a connection is in a call, and the call's locals
  agent,      \* the agent the last call of a connection was given
  sweep,      \* the cleanup goroutine
  stale,      \* entries older than idleTimeout at the sweep's time.Now()
  raced,      \* history: sessions on which one of the three races happened
  orphans     \* history: entries another Store overwrote

entryVars == <<owner, refCount, age, closed>>
connVars  == <<open, sid, pc, call, agent>>
ghostVars == <<raced, orphans>>
vars == <<processes, entryVars, connVars, sweep, stale, ghostVars>>

Ages   == 0 .. IdleTimeout + 1
Ops    == {"attach", "use"}
Idle   == [op |-> "use", sid |-> NoSession, entry |-> NoEntry]
Asleep == [pc |-> "sleep", pending |-> {}, sid |-> NoSession, entry |-> NoEntry]

Init ==
  /\ processes = [s \in Sessions |-> NoEntry]
  /\ owner = [e \in Entries |-> NoSession]
  /\ refCount = [e \in Entries |-> 0]
  /\ age = [e \in Entries |-> 0]
  /\ closed = {}
  /\ open = {}
  /\ sid = [c \in Conns |-> NoSession]
  /\ pc = [c \in Conns |-> "idle"]
  /\ call = [c \in Conns |-> Idle]
  /\ agent = [c \in Conns |-> NoEntry]
  /\ sweep = Asleep
  /\ stale = {}
  /\ raced = {}
  /\ orphans = {}

-----------------------------------------------------------------------------
(* Connections: accept, and the two ways ServeHTTP ends.                   *)

Open(c) ==
  /\ c \notin open
  /\ open' = open \cup {c}
  /\ UNCHANGED <<processes, entryVars, sid, pc, call, agent, sweep, stale, ghostVars>>

\* The caller's frame is dropped: the connection object is garbage.
Hangup(c) ==
  /\ open' = open \ {c}
  /\ sid' = [sid EXCEPT ![c] = NoSession]
  /\ pc' = [pc EXCEPT ![c] = "idle"]
  /\ call' = [call EXCEPT ![c] = Idle]
  /\ agent' = [agent EXCEPT ![c] = NoEntry]

\* Variant: Release uses the entry without looking at Load's ok.
ReadErrorUnchecked(c) ==
  /\ c \in open /\ pc[c] = "idle" /\ sid[c] # NoSession
  /\ pc' = [pc EXCEPT ![c] = "release"]
  /\ call' = [call EXCEPT ![c] = [op |-> "use", sid |-> sid[c], entry |-> processes[sid[c]]]]
  /\ UNCHANGED <<open, sid, agent, processes, entryVars, sweep, stale, ghostVars>>

\* The read fails: an attached connection starts Release, whose Load may
\* already miss; a connection that never attached just ends.
ReadError(c) ==
  /\ c \in open /\ pc[c] = "idle"
  /\ LET e == IF sid[c] = NoSession THEN NoEntry ELSE processes[sid[c]] IN
       \/ /\ e = NoEntry
          /\ Hangup(c)
       \/ /\ e # NoEntry
          /\ pc' = [pc EXCEPT ![c] = "release"]
          /\ call' = [call EXCEPT ![c] = [op |-> "use", sid |-> sid[c], entry |-> e]]
          /\ UNCHANGED <<open, sid, agent>>
  /\ UNCHANGED <<processes, entryVars, sweep, stale, ghostVars>>

\* The response cannot be written: ServeHTTP returns without Release.
WriteError(c) ==
  /\ pc[c] = "respond"
  /\ Hangup(c)
  /\ UNCHANGED <<processes, entryVars, sweep, stale, ghostVars>>

\* The section of Release under entry.mu.
Release(c) ==
  LET e == call[c].entry IN
  /\ pc[c] = "release"
  /\ refCount' = [refCount EXCEPT ![e] = @ - 1]
  /\ age' = [age EXCEPT ![e] = 0]
  /\ stale' = stale \ {e}
  /\ Hangup(c)
  /\ UNCHANGED <<processes, owner, closed, sweep, ghostVars>>

-----------------------------------------------------------------------------
(* GetOrCreate, called by chat.attach ("attach") and by every other method *)
(* and REST route that needs the agent ("use").                            *)

\* processes.Load.
Lookup(c, op, s) ==
  /\ c \in open /\ pc[c] = "idle"
  /\ processes[s] # NoEntry => refCount[processes[s]] < MaxRef
  /\ call' = [call EXCEPT ![c] = [op |-> op, sid |-> s, entry |-> processes[s]]]
  /\ pc' = [pc EXCEPT ![c] = IF processes[s] = NoEntry THEN "create" ELSE "touch"]
  /\ UNCHANGED <<processes, entryVars, open, sid, agent, sweep, stale, ghostVars>>

\* GetOrCreate returned entry e: chat.attach records the session.
Return(c, e) ==
  /\ pc' = [pc EXCEPT ![c] = "respond"]
  /\ call' = [call EXCEPT ![c] = Idle]
  /\ sid' = IF call[c].op = "attach" THEN [sid EXCEPT ![c] = call[c].sid] ELSE sid
  /\ agent' = IF call[c].op = "attach" \/ call[c].sid = sid[c]
                THEN [agent EXCEPT ![c] = e] ELSE agent
  /\ UNCHANGED open

\* Variant: the hit does not count its reference.
TouchUncounted(c) ==
  LET e == call[c].entry IN
  /\ pc[c] = "touch"
  /\ age' = [age EXCEPT ![e] = 0]
  /\ stale' = stale \ {e}
  /\ Return(c, e)
  /\ UNCHANGED <<processes, owner, refCount, closed, sweep, ghostVars>>

\* The hit: the section under entry.mu.  The entry may have left the map.
Touch(c) ==
  LET e == call[c].entry
      s == call[c].sid IN
  /\ pc[c] = "touch"
  /\ refCount' = [refCount EXCEPT ![e] = @ + 1]
  /\ age' = [age EXCEPT ![e] = 0]
  /\ stale' = stale \ {e}
  /\ Return(c, e)
  /\ raced' = IF processes[s] = e THEN raced ELSE raced \cup {s}
  /\ UNCHANGED <<processes, owner, closed, sweep, orphans>>

\* The miss: processes.Store, which replaces what another call stored since.
Create(c) ==
  LET s   == call[c].sid
      old == processes[s] IN
  /\ pc[c] = "create"
  /\ \E e \in Entries :
       /\ owner[e] = NoSession
       /\ owner' = [owner EXCEPT ![e] = s]
       /\ refCount' = [refCount EXCEPT ![e] = 1]
       /\ processes' = [processes EXCEPT ![s] = e]
       /\ Return(c, e)
  /\ raced' = IF old = NoEntry THEN raced ELSE raced \cup {s}
  /\ orphans' = IF old = NoEntry THEN orphans ELSE orphans \cup {old}
  /\ UNCHANGED <<age, closed, sweep, stale>>

Respond(c) ==
  /\ pc[c] = "respond"
  /\ pc' = [pc EXCEPT ![c] = "idle"]
  /\ UNCHANGED <<processes, entryVars, open, sid, call, agent, sweep, stale, ghostVars>>

-----------------------------------------------------------------------------
(* The cleanup goroutine, woken by its ticker.                             *)

Tick ==
  /\ \E e \in Entries : owner[e] # NoSession /\ age[e] <= IdleTimeout
  /\ age' = [e \in Entries |-> IF owner[e] # NoSession /\ age[e] <= IdleTimeout
                                 THEN age[e] + 1 ELSE age[e]]
  /\ UNCHANGED <<processes, owner, refCount, closed, connVars, sweep, stale, ghostVars>>

SweepStart ==
  /\ sweep.pc = "sleep"
  /\ stale' = {e \in Entries : age[e] > IdleTimeout}
  /\ sweep' = [Asleep EXCEPT !.pc = "range",
                             !.pending = {s \in Sessions : processes[s] # NoEntry}]
  /\ UNCHANGED <<processes, entryVars, connVars, ghostVars>>

\* Range yields the key with its value at this moment, if it still has one.
SweepVisit(s) ==
  /\ sweep.pc = "range" /\ s \in sweep.pending
  /\ sweep' = [pc |-> IF processes[s] = NoEntry THEN "range" ELSE "check",
               pending |-> sweep.pending \ {s},
               sid |-> s, entry |-> processes[s]]
  /\ UNCHANGED <<processes, entryVars, connVars, stale, ghostVars>>

\* Variants: the timeout alone decides; a reference too many is allowed for.
IsIdleByAge(e) == e \in stale
IsIdleAtOne(e) == refCount[e] = 1 /\ e \in stale

\* What cleanup reads under entry.mu.
IsIdle(e) == refCount[e] = 0 /\ e \in stale

SweepCheck ==
  /\ sweep.pc = "check"
  /\ sweep' = [sweep EXCEPT !.pc = IF IsIdle(sweep.entry) THEN "close" ELSE "range"]
  /\ UNCHANGED <<processes, entryVars, connVars, stale, ghostVars>>

\* Variants: Close does not delete the entry; Close does not close the agent.
SweepDeleteKeeping ==
  /\ sweep.pc = "close"
  /\ sweep' = [sweep EXCEPT !.pc = "kill"]
  /\ UNCHANGED <<processes, entryVars, connVars, stale, ghostVars>>
SweepDeleteOnly ==
  /\ sweep.pc = "close"
  /\ processes' = [processes EXCEPT ![sweep.sid] = NoEntry]
  /\ sweep' = [sweep EXCEPT !.pc = "range"]
  /\ UNCHANGED <<entryVars, connVars, stale, ghostVars>>

\* Close: LoadAndDelete by session id, after entry.mu was dropped.
SweepDelete ==
  LET s == sweep.sid
      e == processes[s] IN
  /\ sweep.pc = "close"
  /\ processes' = [processes EXCEPT ![s] = NoEntry]
  /\ sweep' = [sweep EXCEPT !.pc = IF e = NoEntry THEN "range" ELSE "kill", !.entry = e]
  /\ raced' = IF e # NoEntry /\ e \notin stale THEN raced \cup {s} ELSE raced
  /\ UNCHANGED <<entryVars, connVars, stale, orphans>>

\* Close: cancelCtx() and agent.Close().
SweepKill ==
  /\ sweep.pc = "kill"
  /\ closed' = closed \cup {sweep.entry}
  /\ sweep' = [sweep EXCEPT !.pc = "range"]
  /\ UNCHANGED <<processes, owner, refCount, age, connVars, stale, ghostVars>>

SweepEnd ==
  /\ sweep.pc = "range" /\ sweep.pending = {}
  /\ sweep' = Asleep
  /\ stale' = {}
  /\ UNCHANGED <<processes, entryVars, connVars, ghostVars>>

-----------------------------------------------------------------------------
Call(c) == Touch(c) \/ Create(c) \/ Respond(c) \/ Release(c)

Sweep == \/ SweepStart \/ SweepCheck \/ SweepDelete \/ SweepKill \/ SweepEnd
         \/ \E s \in Sessions : SweepVisit(s)

Next ==
  \/ \E c \in Conns :
       \/ Open(c) \/ ReadError(c) \/ WriteError(c) \/ Call(c)
       \/ \E op \in Ops, s \in Sessions : Lookup(c, op, s)
  \/ Tick
  \/ Sweep

\* Time passes, the ticker fires, and a goroutine inside a call keeps running.
Fairness == /\ WF_vars(Tick)
            /\ WF_vars(Sweep)
            /\ \A c \in Conns : WF_vars(Call(c))

Spec     == Init /\ [][Next]_vars
FairSpec == Spec /\ Fairness

-----------------------------------------------------------------------------
(* Properties.                                                             *)

CallType == [op : Ops, sid : Sessions \cup {NoSession}, entry : Entries \cup {NoEntry}]

\* The type invariant of the manager's and its callers' state.
TypeOK ==
  /\ processes \in [Sessions -> Entries \cup {NoEntry}]
  /\ owner \in [Entries -> Sessions \cup {NoSession}]
  /\ refCount \in [Entries -> Int]
  /\ age \in [Entries -> Ages]
  /\ closed \in SUBSET Entries
  /\ open \in SUBSET Conns
  /\ sid \in [Conns -> Sessions \cup {NoSession}]
  /\ pc \in [Conns -> {"idle", "touch", "create", "respond", "release"}]
  /\ call \in [Conns -> CallType]
  /\ \A c \in Conns : /\ pc[c] \in {"touch", "release"} => call[c].entry \in Entries
                      /\ pc[c] \in {"touch", "create", "release"} => call[c].sid \in Sessions
  /\ agent \in [Conns -> Entries \cup {NoEntry}]
  /\ sweep \in [pc : {"sleep", "range", "check", "close", "kill"},
                pending : SUBSET Sessions,
                sid : Sessions \cup {NoSession},
                entry : Entries \cup {NoEntry}]
  /\ sweep.pc \in {"check", "close", "kill"} => sweep.sid \in Sessions /\ sweep.entry \in Entries
  /\ stale \in SUBSET Entries
  /\ raced \in SUBSET Sessions
  /\ orphans \in SUBSET Entries

\* Connections attached to s that have not yet given their reference back.
Attached(s) == {c \in Conns : sid[c] = s}

Refs(s) == IF processes[s] = NoEntry THEN 0 ELSE refCount[processes[s]]

\* Reference counting errs on one side only: as long as none of the three
\* races happened on a session (two first calls that both Store, a hit on an
\* entry that already left the map, an entry re-referenced between cleanup's
\* check and its Close), the entry in the table counts at least the attached
\* connections, so it is not idle while one is attached (manager.go:42-79).
CountCovers == \A s \in Sessions : s \notin raced => Cardinality(Attached(s)) <= Refs(s)

\* What becomes of the agent a connection holds: it is the one in the table,
\* which every later call of the session gets too.  It is another one only
\* after a race on that session, and then it is either lost, overwritten by a
\* concurrent first call, or closed under the connection: there is no third
\* way to use an agent nobody else finds (manager.go:42-89, 109-127).
AttachedShareTheProcess ==
  \A c \in Conns : sid[c] # NoSession =>
    \/ agent[c] = processes[sid[c]]
    \/ /\ sid[c] \in raced
       /\ \/ agent[c] \in orphans \cup closed
          \/ sweep.pc = "kill" /\ sweep.entry = agent[c]

\* An agent leaves the table before it is closed, and no closed agent is found
\* in it: a caller is never handed a dead agent by a lookup (manager.go:82-89).
TableHoldsLiveAgents == \A s \in Sessions : processes[s] \notin closed

\* The agent of an entry that left the table is closed, or is about to be,
\* unless it left because a concurrent first call overwrote it: the create
\* race is the only way to lose a process altogether (manager.go:64, 82-89).
OnlyOverwritingLosesAgents ==
  \A e \in Entries :
    owner[e] # NoSession =>
      \/ processes[owner[e]] = e
      \/ e \in closed
      \/ sweep.pc = "kill" /\ sweep.entry = e
      \/ e \in orphans

\* An entry that nobody references is eventually swept or referenced again:
\* the ticker, the timeout and the sweep's steps add up (manager.go:100-127).
UnreferencedIsSwept ==
  \A s \in Sessions, e \in Entries :
    (processes[s] = e /\ refCount[e] = 0) ~> ~(processes[s] = e /\ refCount[e] = 0)

\* "Idle timeout: automatic cleanup when nothing happens": once every
\* connection is gone for good, no process remains (docs/architecture.md:211).
IdleProcessesAreCleaned ==
  <>[](open = {}) => <>[](\A s \in Sessions : processes[s] = NoEntry)
=============================================================================
