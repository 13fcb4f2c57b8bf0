# Devport: TLA+ verification project

Devport lets a phone drive the Claude CLI that runs on a PC. This directory holds
TLA+ modules that model the parts of it where concurrency, failure and ordering
decide whether it works, TLC configurations that check them on small instances,
and TLAPS proofs of the main safety properties for all instances. Paths below are
relative to the repository's `src/`.

Run everything in this directory: `tlc -config MCX.cfg MCX` checks a module,
`tlapm XProofs.tla` checks its proofs.

## 1. The system

    web client ──WebSocket, REST──► server ──stdin/stdout──► Claude CLI
        │                             │
        └──────► relay server ◄──────┘  (relay client: one WebSocket per PC)

| Component | State | Operations | Hard because |
|---|---|---|---|
| Process manager (`server/process/manager.go`) | `processes: sid -> entry{agent, refCount, lastUsed}` | `GetOrCreate`, `Release`, `Close`, cleanup every minute | callers, handlers' ends and the cleanup goroutine interleave between map operations and `entry.mu` |
| Claude agent (`server/agent/claude/claude.go`) | `cmd`, the three pipes, `pendingResponses`, `cancelFunc` | `Start`, `SendMessage`, a reader per message, `RespondTo…`, `Interrupt`, `Close` | one pipe and many readers, contexts that kill, time limits, a queue without ids |
| Session store (`server/session/store.go`) | `sessions`, `histories`, `meta.json`, `history.json` | `Create`, `AddMessage`, `GetHistory`, load at start | no lock around load/append/store, shared backing arrays, files rewritten in place, crashes |
| WebSocket handler (`server/ws`) | per connection: `sessionID`, the answer under construction | JSON-RPC methods, notifications | one goroutine per message writes the connection's fields |
| Chat REST API (`server/api/chat.go`) | none of its own | history, message, cancel, answers | its goroutines outlive the request's context |
| Relay server (`relay/ws`, `relay/store`) | `RelayConnection{Conn, Clients}`, multiplexers, tokens | PC and client handlers, routing by `connection_id`, register, refresh | a PC's old and new handlers overlap |
| Relay client (`server/relay/client.go`) | `conn`, saved config, `done` | connect loop, message loop, `Stop` | reconnection, backoff, a goroutine per message |
| Web client (`web/src/lib/wsStore.ts`) | socket, pending requests, session, messages | connect, requests, notifications, attach | callbacks of old sockets, replies after a switch |
| File store of the web client (`web/src/lib/fileStore.ts`) | directory, file, status | load, save, delete | overlapping loads |
| File and Git API (`server/api/fs.go`, `git.go`) | none | one command or file operation per request | text only |

Calls go from handlers to the manager (a reference to an agent), to the agent (a
channel of events) and to the store. The manager and the store are shared by all
connections and REST requests; everything else is per connection or per session.

What makes each correct: the manager must not kill what is in use, nor keep what
is not; the agent must pair answers with messages and permissions with requests;
the store must keep what it acknowledged; the relay must bring each message to
its addressee in order and stay reachable while the PC is connected; the clients
must not hang or mix sessions.

`PROJECT.json` lists the hazards line by line, with the properties that watch them.

## 2. Modules

| Module | Models | Checked by | Proofs |
|---|---|---|---|
| `ProcessManager` | process manager and its callers | `MCProcessManager` | `ProcessManagerProofs` |
| `DurableLog` | what a session store promises (abstract) | through `MCSessionStore` | `SessionStoreProofs` |
| `SessionStore` | session store, its files, crashes | `MCSessionStore` | `SessionStoreProofs` |
| `ClaudeAgent` | one agent, its goroutines, the CLI | `MCClaudeAgent` | `ClaudeAgentProofs` |
| `ChatTurn` | a message from its arrival to the stored answer | `MCChatTurn` | `ChatTurnProofs` |
| `Mailbox` | what a relay promises to a PC and its clients (abstract) | through `MCRelayServer` | `RelayServerProofs` |
| `RelayServer` | handlers and routing of one subdomain | `MCRelayServer` | `RelayServerProofs` |
| `RelayAccess` | registration, refresh, relay client | `MCRelayAccess` | `RelayAccessProofs` |
| `WebConnection` | the web client's sockets and reconnection | `MCWebConnection` | `WebConnectionProofs` |
| `WebView` | what the web client shows | `MCWebView` | `WebViewProofs` |

`ProcessManager`, `ClaudeAgent`, `SessionStore` and `ChatTurn` cut the server by
component: `ChatTurn` sees the agent as a stream of any events and `AddMessage` as a
load and a store that other calls may come between; what the agent and the files do
meanwhile is in the other two. `WebView` sees the server as
a queue of requests, a queue of frames and the stored histories, and the sockets of
`WebConnection` as one that opens and closes.

In every module an action is one atomic step of a goroutine: one `sync.Map`
operation, one section under a mutex, one channel operation, one read or write of
a pipe, socket or file. A goroutine's position between two steps is a label in a
variable (`pc`, `wr`, `turn`, `relay`, `handler`). Definitions commented
"Variant" are plausible mistakes in an action; no specification uses them, and
each property is shown to fail when one of them takes the action's place.

### ProcessManager

`processes` is the `sync.Map`; an entry is an identity with `refCount`, `age`
(ticks since `lastUsed`) and membership in `closed`. `Lookup` is `Load`; `Touch`
is the hit under `entry.mu`; `Create` is the miss, whose `Store` overwrites.
`ReadError` and `Release` are the end of a connection, `WriteError` the end that
forgets `Release`. A REST request is a connection that never attaches. The cleanup
goroutine is `SweepStart` (`time.Now`), `SweepVisit` (`Range` yields a key with
its value of that moment), `SweepCheck` (under `entry.mu`), `SweepDelete`
(`LoadAndDelete` by id) and `SweepKill`.

History variables: `raced` holds the sessions on which one of the three races
happened, `orphans` the entries a `Store` overwrote.

### SessionStore

A history is a Go slice: an array and a length, so that `append` may write into
an array another goroutine's slice shares (`AppendTo`; the room the runtime adds is
0 or 1 cell). `AddMessage` is `AddLoad`, `AddStore`, `AddTouch`, the save of
`meta.json` (`MetaOpen`, `MetaWrite`), the save of `history.json` (`HistoryOpen`,
`HistoryWrite`) and `AddReturn`. A file is absent, truncated, whole, or mixed by two
writers; `Written` says which results two overlapping `os.WriteFile` calls allow.
`Crash` may happen anywhere, `Restart` is `loadFromDisk`.

`log` holds what was acknowledged, `tainted` the sessions that met a cause of loss:
overlapping calls, a message for an id without a session, a failed save, a crash
during the rewriting of a file.

### ClaudeAgent

A message's `turn` goes through `Check` (`c.cmd == nil`?), `Start`, `Write` and the
reader: `Fill` is a read of the pipe into the reader's own scanner, `ScanLine` one
line of it, `Answer` and `GiveUp` the two ways out of `waitForResponse`. A reader ends at a
result, at the end of the file (`EndOfFile`), at any line once its context is over (`ScanLine`,
`SkipLine`), and at a line that does not fit the scanner's 10 MB (`ScanFails`): then it sends an
Error event and returns while the CLI goes on, and the rest of that line and of the answer
stays in the pipe.
The CLI (`CliTake`, `CliWrite`) is external: it takes its input at once, answers one message at a
time with lines of text, at most one request to the user and a result. A context is
a connection's or a REST request's and ends (`Disconnect`, `HandlerReturns`); the one
that started the CLI kills it (`Kill`).

A line stands for the event `parseEvent` makes of it; of several text blocks in one line that is
the first. Lines it makes nothing of are left out, except that a reader whose context is over
returns at them (`SkipLine`). Only what a tool returned or a text may be too long: requests and results are
far below 10 MB. The rest of such a line makes no event for the next reader, unless it is too long again
(`ScanFails` takes it off the pipe or not). `Fill` hands over whole lines.

`mixed` holds messages written while another was unfinished, `spoiled` says that an
answer was given twice or a wait given up.

### RelayServer

`conn` and `clients` are the `RelayConnection`, `mux` the map's entry (which
handler stored it; all multiplexers of a subdomain work on one `RelayConnection`). A
PC connection's handler is `Authenticate`, `SetConn`, `StoreMux`, `Route`,
`ReadFails`, `ClearConn`, `DeleteMux`; a client's `CheckRelay`, `GetMux`, `AddClient`,
`ReadMessage`, `ClientReadFails`, `RemoveClient`, with `LoadConn` and `WriteConn`
for each envelope it forwards. `ForwardToRelay` reads `Conn` twice without
`SetRelayConn`'s lock, so the write goes to either value, and panics on nil. An envelope that
is lost in `WriteConn` stands for a failed write and for a payload that is no JSON and cannot
be encoded: in both cases the client's handler logs the error and goes on.
A connection is `"gone"` as soon as one end is, while its handler may take long to
notice; the PC dials again meanwhile. The kernel may hand over what is left of a
connection or not.

`overlapped` holds the PC connections whose handlers were at work together.

`Mailbox` has no handlers and no tables: connections open and close, clients say things, the
PC replies, and each side receives what the other one sent, or does not. Its `Hear` and `Get` say what may
be received when. `RelayServer` implements it with `toPC` as what the PC heard and `inbox` as what a
client got; the queues and handlers between are what the refinement hides.

### ChatTurn

A turn is one chat message. Over a WebSocket the answer under construction is in the
connection's `ConnState` (`track[c]`), which every turn of the connection writes; over
REST it is local to the goroutine. `ChatMessage`, `ChatStore` and `Track` are `handleChatMessage`
before, at the end of and after its `AddMessage`, `Send` … `StreamEnds` the goroutine,
where each event is collected in one step and told in another (`Notify`), so that two
turns' events and a disconnect come between.

`AddMessage` is not locked: `Load` is its load, made by `ChatMessage`, `Post`, `System` and `Done`,
and `Store` its append and store, made by `ChatStore`, `PostStore`, `SystemStore` and `DoneStore`.
Calls for one session overlap when a REST turn and a WebSocket turn, or two connections, work on it, and the
later one then stores a history without the other one's message. Their slices may share
one backing array: a cell in which they differ is as either of them left it (`over`; which arrays are
shared when is in `SessionStore`). Over a WebSocket `Done` holds `state.mu` during its call (`Locked`), so
that the connection's other goroutines wait for it.

`crossed` holds the turns that shared a connection while both ran, `raced` the sessions on which calls of
`AddMessage` overlapped, `said` what a stream delivered. What `raced` exempts is only what such
a race loses: that an answer or a question is there, and in its place. That nothing is stored
twice, in another session, for another turn or with other contents than the stream's is claimed for every session.

### RelayAccess

`Generate`, `StoreRelay`, `StoreToken` and `StoreSubdomain` are the table operations of
one registration; `Refresh`, `Registered` and their failures `loadOrRegister`;
`LoopTop` … `WaitOver` `connectLoop`, `connect` and `messageLoop`. `Stop` is split at
the lock (`StopConn`), which is where it misses a connection that is being made. The
relay restarts with empty tables, a PC's process ends at any moment and starts again
from its file. Tokens are fresh; names are chosen again, since the tables forget.

### WebConnection

All sockets share `ws`, `reconnectTimeout`, `reconnectAttempts`, `pendingRequests` and
`connectionState`; each has the handlers of the `connect` that made it. A browser task
(a handler with the continuations of the promises it settles) is one step. `job` is a
call of `connect` (from the login form or from a timer) and whether its promise is
settled, `orphans` are timers whose handle a second `attemptReconnect` overwrote.
`trouble` records that a connect was started while another waited ("crossed"), and
that a closing socket took another one's request along ("cut").

### WebView

The browser's state against the server's: `reqs` and `frames` are the two directions of
the socket, `serving` the request whose response is still to be written, so that
notifications overtake it. A message may go over REST when the socket is not open; the response to
a POST that was served may be lost, which is decided when it is served (`PostServed`). `trouble`
records the six things that can disturb the view, each named at `Causes`; properties
say which of them they need to be absent. One of them is "aside": the server stores a system message
at once and the answer it comes with at the end, while the client shows it behind the
beginning of that answer, so that view and history differ in order until the session is attached again. A
system message that comes before the answer's first text (`OnSystem` without a bubble) is in its place. Permissions and questions are one kind of
request; each is answered once at a time. A socket may be followed by one that attaches the session (the
timer's callback) or by one that does not (a login). `AddMessage` is one step here: calls of it
overlap on a session only after "left" or "untold", which the comparison of view and history exempts.

## 3. Runs

| Run | Shows |
|---|---|
| `process_safety` | references cover the attached connections, and those of a session share the table's process, unless a named race happened, after which a connection's process is in the table, lost or closed; agents leave the table before they are closed; only overwriting loses one; an unreferenced entry is swept or used again |
| `process_leak` | *violation*: a process is never cleaned up although all connections are gone |
| `store_safety` | without a cause of loss memory and disk hold exactly what was acknowledged; a crash puts one message at risk; nothing is doubled; the store implements `DurableLog` |
| `store_torn` | *violation*: a crash during the rewriting of a file loses the whole history |
| `agent_safety` | undisturbed turns get exactly their own answer and leave the agent at rest; a line too long is told; answers pair with requests |
| `agent_live` | readers return after the process died, undisturbed turns end with a result or a told error |
| `agent_rest` | *violation*: the CLI that a REST message started is killed with the request's context, and the reader ends without the result |
| `chat_turns` | a turn alone on its connection stores its own answer, in its session only and at most once, and exactly once unless calls of `AddMessage` overlapped there; turns that share a connection never store a part twice or for another connection; who saw `chat.done` finds the answer in the history unless calls overlapped |
| `relay_links` | over successive PC connections: registrations in force, departures told, and the relay implements `Mailbox` (order both ways without gaps, nothing invented or delivered twice) |
| `relay_access` | one PC per subdomain, addresses outlive restarts, `Stop` ends the client |
| `web_connection` | "authenticated" means usable, nothing hangs, logout is final, reconnection ends, up to the two named troubles |
| `web_view` | the view shows one session, agrees with the history at rest, generates and asks for a reason |

A *violation* run states what a document or comment of the repository says; TLC's
counterexample is how the code departs from it. `PROJECT.json` ("findings") quotes
the sentence and the line of code.

Many safety properties exempt what a history variable records (`raced`, `tainted`, `mixed`,
`spoiled`, `overlapped`, `crossed`, `trouble`). The recorded cause is then a known weakness of the code,
which the model has and whose consequence the property does not deny: what it says is that
nothing else, in any interleaving, has that consequence.

### Bounds, and why they are enough

- `ProcessManager`: one session (sessions share nothing but the sweep), 2 connections,
  2 entries, timeout of 1 tick, no new call on an entry with a reference. Each race needs
  two callers, or one and the sweep; two entries let one overwrite the other or follow it.
- `SessionStore`: one session (sessions share nothing but the pool of backing arrays, and
  the proofs cover any number), two writers (a third adds no new kind of overlap to a
  load/append/store sequence), three messages where they matter, and as many backing
  arrays as can be alive. The two violation runs leave out the faults they do not need.
- `ClaudeAgent`: two messages, one under each kind of context; the queue holds 2
  (10 in the code) and each request may be answered twice, so that the queue fills up.
  An answer is a line, which may be too long, or a request before its result. In the liveness run both
  messages come over one connection (`Close` kills the process of an open one) and the bounds are 1.
  In the violation run an answer is its result alone.
- `RelayServer`: two PC connections, which may overlap or follow each other, one client with
  three messages, so that one can be missing in the middle, and two replies, so that they can
  be swapped; clients interact only through `conn`, which each of them reads. All five
  properties are proved for any number of connections, clients and messages.
- `ChatTurn`: one connection and two messages, of one session or of two, each of which comes
  over the connection, whose `ConnState` both then write, or over REST. Two events let a
  stream be interrupted between them, and another turn's event or a disconnect come there; the two
  streams together have at most three (`MaxBoth`), which is what keeps the run, with calls of `AddMessage`
  that overlap, at three million states. The proofs have no such bound.
- `RelayAccess`: two PCs (which may ask for one name), two names, two tokens, one restart
  of the relay, after which a name may be given again, two starts of a PC's process, and
  a backoff that doubles once.
- `WebView`: two sessions to switch between, two turns, so that the answer of one meets the
  other, and two sockets, which give one reconnection. All turns together have at most two events before
  their ends, one once the second socket is used (`Spent`), and a system message comes only while the
  events, the sockets and the causes of trouble so far leave room for it: before an answer, behind the beginning of one
  (which is "aside"), alone, twice, and with a session chosen or attached meanwhile. That gives 2.6 million states.
- `WebConnection`: two sockets, whose numbers are used again when they are closed, so that
  there are any number of reconnections; two attempts. A third live socket adds
  states that the two named troubles exempt already.

Deadlock is checked for `ProcessManager` and `SessionStore`, where something can always
go on: elsewhere messages, connections or restarts are used up in the end. Symmetry is used in
safety runs only.

### Fairness

- `ProcessManager`: the ticker fires, time passes and a goroutine inside a call goes
  on. New calls and the ends of connections are never forced.
- `ClaudeAgent`: each goroutine goes on, the five minutes of `waitForResponse` pass,
  REST handlers return, the runtime kills the process of an ended context, the CLI
  goes on while it lives. The user need not answer.
- `WebConnection`: timers go off, a socket that is opening or closing comes to an end of
  that, the server answers auth requests. That a connection holds, or that the user
  logs in or out, is never assumed.

## 4. Proofs

TLAPS checks, for any values of the constants that satisfy the named assumptions:

- `ProcessManagerProofs`: `TypeOK`, `CountCovers`, `AttachedShareTheProcess`,
  `TableHoldsLiveAgents`, `OnlyOverwritingLosesAgents`. The inductive invariant `IInv`
  adds `Ownership` (an entry is filed and loaded under the session it was made for),
  `Untouched` and `SweepKnows`. The last is the heart: between the sweep's steps the condemned entry is
  unreferenced as long as it is stale, and what replaced it is not stale, so
  `SweepDelete` either removes an idle entry or marks the session as raced.
  Assumptions: finitely many connections (cardinalities), fresh null values.
- `SessionStoreProofs`: `TypeOK`, `AckedIsKept`, `OneMessageAtRisk`. `IInv` says for
  each label of the single writer of an untainted session what memory, disk, the
  acknowledged log and the writer's own slice have in common; and that slices within
  their arrays are not changed by another session's `append`, because arrays that are alive are
  not shared between sessions.
  `StoreIsDurable` is the refinement: every behaviour of `SessionStore` is one of
  `DurableLog` under the mapping that takes what was acknowledged, what memory (or, after a
  crash, the disk) holds, and the sessions without a promise. Each step maps to a step of
  `DurableLog` or to a stutter; `IInv` supplies what a reload reads. `NothingDoubled`
  (`NoDuplicates`) needs more than the cache and the files: slices of several writers share
  arrays, so no array may hold a message twice, and a message that is about to be appended
  must be in none, not even in one that only another writer still knows (`Fresh`).
- `RelayServerProofs`: `TypeOK`, `NothingOutlivesItsHandler`, `LoneLinkIsInForce`,
  `DepartureIsTold`, and `OrderIsKept`, which the mailbox contains. `IInv` adds that two handlers at work together are
  both in `overlapped`; that is what makes `ClearConn` and `DeleteMux` of one handler
  harmless to a lone other. Order needs the queues: what a client's handler has not read
  continues what it has (`Queued`), what the PC has of the client comes before the envelope
  at hand (`Behind`) and, on a lone connection that lasts, ends right before it
  (`UpToDate`); what the one handler at work has to read was sent after all that was
  delivered (`Ahead`).
  `RelayIsMailbox` is the refinement: `WriteConn` is `Mailbox`'s `Hear` or a loss, `Route` its `Get`
  or a loss, `Authenticate` may be a `Split`, and the other steps open or close a connection, send, or
  change nothing. Order gives the guards of `Hear`; it needs besides that a client's goodbye
  is on its way only when the client is gone (`LeftAreGone`) and, with handlers that overlap, that
  a reply is in one queue or in its client's inbox and there once (`OnlyOnce`).
- `RelayAccessProofs`: `TypeOK`, `OneOwner`, `StopEndsLoop`, `KeepsItsName`. The
  invariant says what the three tables hold of a registration at each of its steps
  (`Tables`), that a token is held by one PC (`Owned`), and that a PC is served under the
  token it was issued (`Admitted`).
- `WebConnectionProofs`: `TypeOK`, `AuthenticatedIsUsable`, `NothingHangs`, `LogoutIsFinal`.
  Unless connects crossed, at most one live socket has a call that waits,
  its auth request went out over the global `ws`, and a waiter, a timer and the state
  "authenticated" exclude each other.
- `ChatTurnProofs`: `TypeOK`, `OwnReply`, `SeenIsSaved`, `PartsStayOnTheirConnection`. The invariant says for a turn that shares its
  connection with nobody what `track` holds of its stream at each label (`Kept`, `Finds`),
  that two turns at work on one connection are both in `crossed` (`Together`, `Apart`), what has been
  stored of it (`Stored`) and what a client that saw `chat.done` may rely on (`Seen`).
  Calls of `AddMessage` that overlap need more than the store: the invariant speaks of every entry that the store
  holds or that a call has loaded (`Held`), since a later call may put it back. Two calls at work on one session
  have raced (`Alone`), a call of a session without a race has loaded what the store holds
  (`Fresh`), and who stores an answer keeps the connection's other turns from its tracking (`Locks`).
  For turns that do share one it says that whoever gathers parts holds those of its own
  connection's turns and none that is held (`Gathers`), that every question is stored before its
  turn produces anything (`Asked`), and that an entry shares its parts with no other
  one (`Placed`).
- `ClaudeAgentProofs`: `TypeOK`, `OwnAnswer`, `RestBetweenTurns`, `AnswersPair`. None is
  inductive: they rest on where an answer is. What the CLI said about a message that
  nobody mixed with is what its reader sent, followed by what it has buffered and by what
  the pipe holds (`Follows`); the CLI has not begun with it, is at it, or has said a result
  and nothing after it (`Stages`); and every request that was shown and not answered is the
  last thing sent by a reader that waits (`Pairs`). A reader that ends while its context and the CLI
  live has sent the result, and then all of the answer, or was cut by a line too long (`Ends`).
- `WebViewProofs`: `TypeOK`, `OwnSession`, `GeneratingHasEnd`, `AskIsShown`, `ViewIsHistory`. What is shown was
  on the wire before, so requests, frames and stored entries are of their turns' sessions
  (`Wire`, `Belongs`), and so is the answer under construction, which survives the choice of
  another session, once it grows again (`Mine`). The mark has an end because no second turn can take it away:
  at most one turn is open, none while the mark is off, and its end is the last notification
  on the wire (`Single`); unless somebody left, that turn is of the session shown (`Stays`);
  then each step hands the cause on (`Marked`). A request is the one shown because the last
  one on the wire is that of the turn that waits (`Shows`).

  `ViewIsHistory` compares view and store at rest, when all has arrived; its own invariant
  (`JInv`) keeps a comparison while they differ. The store has each message and each answer
  once, an answer not before its turn is over (`Once`). In an undisturbed view everything
  under way is of this socket and of the session shown (`Here`, `Heeded`); a history on its way is
  still what the store holds, and a sync that could bring something finds a view that has moved on (`Fetched`,
  `Synced`). Set apart are the message that waits for its turn, which is the last one (`Asked`),
  the answer that grows, which is the last one too (`Bubbles`), and the system messages that are stored but
  whose frames are coming, which are behind all other stored ones and in the order of their frames (`Asides`); the other messages agree with the
  other stored entries (`Agrees`). That they are told apart rests on their numbers (`Counted`). Of the answer the client has a beginning, and the
  frames bring the rest by ascending numbers, while its turn runs (`FlowsOut`) and between
  its storing and its end (`FlowsEnd`), so that at the end the two that were set apart are the same.

Model-checked only: everything that needs fairness (`UnreferencedIsSwept`, `TurnEnds`,
`StreamsEndWithProcess`, `ReconnectEnds`), which is out of the prover's reach. Every safety
property of a passing run is a theorem.

## 5. What is not modelled, and the plan

Left:

1. `FileStore` (overlapping loads of directories and files; its hazards are listed), and
   the parsing of `git` output as an algorithm, if they repay it.

Of the modelled components these parts are missing. Web client: the interruption of a
turn, answers over REST when the socket is closed, and the list of sessions. WebSocket
handler: `EventTypeInterrupted`, which nobody sends, and the commands that only forward
to the store or the file system. Relay client: `SetHandler` has no caller, so
`handleClientMessage` and `SendToClient` are never reached. A timer that reconnects after a
logout because its handle was overwritten, and an `auth` that is answered after the disconnect,
are in the model; the properties of `WebConnection` exempt them as "crossed". An address that
`new WebSocket(url)` does not take (`wsStore.ts:312`) is not in the model: `connect` is then rejected at once with
`connectionState` at "connecting" and `ws` as it was, and the form shows the error and is enabled again. The
properties of `WebConnection` are about addresses that are well formed, right or wrong.
`chat.interrupted` has a handler in the client and no sender in `claude.go`.

Left out for good: the user interface (rendering), start-up and configuration, the QR
code, the File API (independent file operations), logging and wording. Functions
without a caller are left out too: `CloseAll`, `Delete`, `UpdateTitle`,
`UpdateLastAssistantMessage`, `RemoveRelay`, `BroadcastToClients`, `SendToRelay`,
`IsRunning`. Flow control (a peer that does not read) is abstracted: a write to a
pipe or socket succeeds, fails or is lost, but does not block.
