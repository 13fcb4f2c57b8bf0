----------------------------- MODULE ClaudeAgent -----------------------------
(***************************************************************************)
(* One Claude agent (server/agent/claude/claude.go): the goroutines that   *)
(* send it messages, the readers of its standard output, the queue of the  *)
(* user's answers and the CLI process it drives.                           *)
(*                                                                         *)
(* A message is sent under the context of its caller: a WebSocket          *)
(* connection's, which ends with the connection, or a REST request's,      *)
(* which ends when the handler returns.  The context that starts the CLI   *)
(* also ends it.  The CLI is external: it takes what is written to its     *)
(* standard input at once, answers one message at a time, and may stop in  *)
(* the middle of an answer to ask the user.                                *)
(*                                                                         *)
(* A line stands for the event parseEvent makes of it: "text" for text,    *)
(* the use of a tool and what it returned, "ask" for a request to the      *)
(* user, "result" for the end of an answer.  A "long" line is one that     *)
(* does not fit the scanner's 10 MB, as what a tool returns may be; the    *)
(* scanner stops at it, and the reader with it.                            *)
(***************************************************************************)
EXTENDS Naturals, SequencesExt

CONSTANTS Msgs,          \* messages; the request the CLI makes while it answers
                         \* m, if any, is named m too
          Conns,         \* contexts of WebSocket connections
          Requests,      \* contexts of REST requests, one message each
          None,
          QueueCap,      \* capacity of pendingResponses, 10 in the code
          MaxLines,      \* bound: lines of an answer before its result
          MaxAnswers,    \* bound: answers the user gives to one request
          StartMayFail   \* whether the CLI may fail to start

ASSUME NoneFresh   == None \notin Msgs \cup Conns \cup Requests
ASSUME BoundsNat   == QueueCap \in Nat /\ MaxLines \in Nat /\ MaxAnswers \in Nat
ASSUME ContextKind == Conns \cap Requests = {}

Ctxs == Conns \cup Requests

VARIABLES
  cmd,       \* c.cmd: "none", "up" once started, "broken" if Start failed
  owner,     \* the context the process was started under
  proc,      \* the CLI process: "none", "alive" or "dead"
  closed,    \* Close was called
  over,      \* contexts that ended
  turn,      \* message -> where its goroutines are, and their context
  buf,       \* message -> lines its reader's scanner has buffered
  out,       \* message -> events sent on its channel
  stdout,    \* the pipe from the CLI
  cli,       \* the CLI: its unanswered messages, the current one, the lines
             \* it has left, and the request it waits for
  pending,   \* pendingResponses
  answers,   \* history: how often the user answered a request
  said,      \* history: the lines the CLI wrote about a message
  mixed,     \* history: messages written when others were not finished
  spoiled    \* history: an answer came twice, too late, or to nobody

agentVars == <<cmd, owner, proc, closed>>
readVars  == <<turn, buf, out>>
cliVars   == <<stdout, cli, said>>
ghostVars == <<answers, mixed, spoiled>>
vars == <<agentVars, over, readVars, cliVars, pending, ghostVars>>

Line(m, k) == [of |-> m, kind |-> k]
AtRest     == [inbox |-> <<>>, cur |-> None, left |-> 0, ask |-> None]
Active     == {m \in Msgs : turn[m].pc \in {"read", "wait"}}

Init ==
  /\ cmd = "none" /\ owner = None /\ proc = "none" /\ closed = FALSE
  /\ over = {}
  /\ turn = [m \in Msgs |-> [pc |-> "idle", ctx |-> None]]
  /\ buf = [m \in Msgs |-> <<>>]
  /\ out = [m \in Msgs |-> <<>>]
  /\ stdout = <<>> /\ cli = AtRest
  /\ pending = <<>>
  /\ answers = [m \in Msgs |-> 0]
  /\ said = [m \in Msgs |-> <<>>]
  /\ mixed = {} /\ spoiled = FALSE

Goto(m, label) == turn' = [turn EXCEPT ![m].pc = label]

-----------------------------------------------------------------------------
(* SendMessage, in a goroutine of the handler that accepted the message.   *)

Accept(m, x) ==
  /\ turn[m].pc = "idle" /\ x \notin over
  /\ x \in Requests => \A n \in Msgs : turn[n].ctx # x
  /\ turn' = [turn EXCEPT ![m] = [pc |-> "new", ctx |-> x]]
  /\ UNCHANGED <<agentVars, over, buf, out, cliVars, pending, ghostVars>>

\* The first section under c.mu; the lock is dropped before Start takes it.
Check(m) ==
  /\ turn[m].pc = "new"
  /\ Goto(m, IF cmd = "none" THEN "start" ELSE "write")
  /\ UNCHANGED <<agentVars, over, buf, out, cliVars, pending, ghostVars>>

\* Start under c.mu: c.cmd is set before the process is.
Start(m) ==
  LET x == turn[m].ctx IN
  /\ turn[m].pc = "start"
  /\ \/ /\ cmd # "none"
        /\ Goto(m, "failed")
        /\ UNCHANGED agentVars
     \/ /\ cmd = "none" /\ x \notin over
        /\ cmd' = "up" /\ owner' = x /\ proc' = "alive"
        /\ Goto(m, "write")
        /\ UNCHANGED closed
     \/ /\ cmd = "none" /\ (x \in over \/ StartMayFail)
        /\ cmd' = "broken"
        /\ Goto(m, "failed")
        /\ UNCHANGED <<owner, proc, closed>>
  /\ UNCHANGED <<over, buf, out, cliVars, pending, ghostVars>>

\* Nobody reads, nothing is left to read, and the CLI is at rest.
Quiet == Active = {} /\ stdout = <<>> /\ cli = AtRest

Unfinished == Active \cup Range(cli.inbox) \cup {cli.cur} \cup {stdout[i].of : i \in DOMAIN stdout}

\* The write to stdin; if it succeeds a reader is started for the message.
Write(m) ==
  /\ turn[m].pc = "write"
  /\ IF proc = "alive"
       THEN /\ cli' = [cli EXCEPT !.inbox = Append(@, m)]
            /\ Goto(m, "read")
            /\ mixed' = IF Quiet THEN mixed ELSE mixed \cup {m} \cup (Unfinished \ {None})
       ELSE /\ Goto(m, "failed")
            /\ UNCHANGED <<cli, mixed>>
  /\ UNCHANGED <<agentVars, over, buf, out, stdout, said, pending, answers, spoiled>>

-----------------------------------------------------------------------------
(* readEvents: a scanner of its own on the shared stdout.                  *)

\* A read of the pipe hands over what is there, or a part of it: no long line.
Fill(m) ==
  /\ turn[m].pc = "read" /\ buf[m] = <<>>
  /\ \E n \in 1 .. Len(stdout) :
       /\ \A i \in 1 .. n : stdout[i].kind # "long"
       /\ buf' = [buf EXCEPT ![m] = SubSeq(stdout, 1, n)]
       /\ stdout' = SubSeq(stdout, n + 1, Len(stdout))
  /\ UNCHANGED <<agentVars, over, turn, out, cli, said, pending, ghostVars>>

\* The reader returns: the channel is closed, its buffer is lost.
Leave(m) ==
  /\ Goto(m, "closed")
  /\ buf' = [buf EXCEPT ![m] = <<>>]

\* Variant: the reader returns after any line but a request.
ScanLineLeaving(m) ==
  /\ turn[m].pc = "read" /\ buf[m] # <<>>
  /\ LET l == Head(buf[m]) IN
       IF turn[m].ctx \in over
         THEN Leave(m) /\ UNCHANGED out
         ELSE /\ out' = [out EXCEPT ![m] = Append(@, l)]
              /\ IF l.kind = "ask"
                   THEN Goto(m, "wait") /\ buf' = [buf EXCEPT ![m] = Tail(@)]
                   ELSE Leave(m)
  /\ UNCHANGED <<agentVars, over, cliVars, pending, ghostVars>>

\* One line: dropped if the context is over, sent on the channel otherwise.
ScanLine(m) ==
  /\ turn[m].pc = "read" /\ buf[m] # <<>>
  /\ LET l == Head(buf[m]) IN
       IF turn[m].ctx \in over
         THEN Leave(m) /\ UNCHANGED out
         ELSE /\ out' = [out EXCEPT ![m] = Append(@, l)]
              /\ \/ l.kind = "text" /\ turn' = turn /\ buf' = [buf EXCEPT ![m] = Tail(@)]
                 \/ l.kind = "ask" /\ Goto(m, "wait") /\ buf' = [buf EXCEPT ![m] = Tail(@)]
                 \/ l.kind = "result" /\ Leave(m)
  /\ UNCHANGED <<agentVars, over, cliVars, pending, ghostVars>>

\* A line that makes no event, or an empty one, is dropped; a reader whose
\* context is over returns at it too.
SkipLine(m) ==
  /\ turn[m].pc = "read" /\ buf[m] = <<>> /\ turn[m].ctx \in over
  /\ Leave(m)
  /\ UNCHANGED <<agentVars, over, out, cliVars, pending, ghostVars>>

\* Variant: a line too long ends the reader as the end of the file does.
ScanFailsSilently(m) ==
  /\ turn[m].pc = "read" /\ buf[m] = <<>> /\ stdout # <<>> /\ Head(stdout).kind = "long"
  /\ stdout' = Tail(stdout)
  /\ Leave(m)
  /\ UNCHANGED <<agentVars, over, out, cli, said, pending, ghostVars>>

\* Scan returns false at a line too long: the Error event, which stands in the
\* place of the line, is sent whatever the context, and the reader returns,
\* while the CLI goes on.  The rest of the line stays in the pipe: it makes no
\* event, unless it is too long for the next reader as well.
ScanFails(m) ==
  /\ turn[m].pc = "read" /\ buf[m] = <<>> /\ stdout # <<>> /\ Head(stdout).kind = "long"
  /\ out' = [out EXCEPT ![m] = Append(@, Head(stdout))]
  /\ stdout' \in {stdout, Tail(stdout)}
  /\ Leave(m)
  /\ UNCHANGED <<agentVars, over, cli, said, pending, ghostVars>>

\* Scan returns false at the end of the file: no Done, no Error.
EndOfFile(m) ==
  /\ turn[m].pc = "read" /\ buf[m] = <<>> /\ stdout = <<>> /\ proc = "dead"
  /\ Leave(m)
  /\ UNCHANGED <<agentVars, over, out, cliVars, pending, ghostVars>>

-----------------------------------------------------------------------------
(* waitForResponse, and the calls that answer.                             *)

\* Variant: the queue has no capacity.
RespondUnbounded(p) ==
  /\ \E m \in Msgs : Line(p, "ask") \in Range(out[m])
  /\ answers[p] < MaxAnswers
  /\ pending' = Append(pending, p)
  /\ answers' = [answers EXCEPT ![p] = @ + 1]
  /\ spoiled' = (spoiled \/ answers[p] > 0)
  /\ UNCHANGED <<agentVars, over, readVars, cliVars, mixed>>

\* RespondToPermission and RespondToQuestion: a send that blocks while the
\* queue is full.  The user answers a request that was shown.
Respond(p) ==
  /\ \E m \in Msgs : Line(p, "ask") \in Range(out[m])
  /\ answers[p] < MaxAnswers /\ Len(pending) < QueueCap
  /\ pending' = Append(pending, p)
  /\ answers' = [answers EXCEPT ![p] = @ + 1]
  /\ spoiled' = (spoiled \/ answers[p] > 0)
  /\ UNCHANGED <<agentVars, over, readVars, cliVars, mixed>>

\* Variant: the response is taken but not written.
AnswerUnwritten(m) ==
  /\ turn[m].pc = "wait" /\ pending # <<>>
  /\ pending' = Tail(pending)
  /\ Goto(m, "read")
  /\ UNCHANGED <<agentVars, over, buf, out, cliVars, ghostVars>>

\* The response is taken, whichever request it answers, and written to stdin;
\* the CLI goes on if it is the one it waits for.
Answer(m) ==
  /\ turn[m].pc = "wait" /\ pending # <<>>
  /\ pending' = Tail(pending)
  /\ cli' = IF proc = "alive" /\ cli.ask = Head(pending) THEN [cli EXCEPT !.ask = None] ELSE cli
  /\ Goto(m, "read")
  /\ UNCHANGED <<agentVars, over, buf, out, stdout, said, ghostVars>>

\* Variant: no time limit.
GiveUpOnContext(m) ==
  /\ turn[m].pc = "wait" /\ turn[m].ctx \in over
  /\ Goto(m, "read")
  /\ spoiled' = TRUE
  /\ UNCHANGED <<agentVars, over, buf, out, cliVars, pending, answers, mixed>>

\* The context ends, or five minutes pass: back to the scanner.
GiveUp(m) ==
  /\ turn[m].pc = "wait"
  /\ Goto(m, "read")
  /\ spoiled' = TRUE
  /\ UNCHANGED <<agentVars, over, buf, out, cliVars, pending, answers, mixed>>

-----------------------------------------------------------------------------
(* Interrupt, Close, and the end of a context.                             *)

\* The CLI drops the rest of its answer; a reader that waits is not told.
Interrupt ==
  /\ proc = "alive" /\ cli.cur # None
  /\ cli' = [cli EXCEPT !.left = 0, !.ask = None]
  /\ UNCHANGED <<agentVars, over, readVars, stdout, said, pending, ghostVars>>

Close ==
  /\ ~closed
  /\ closed' = TRUE
  /\ proc' = IF proc = "alive" THEN "dead" ELSE proc
  /\ UNCHANGED <<cmd, owner, over, readVars, cliVars, pending, ghostVars>>

\* A connection ends.
Disconnect(x) ==
  /\ x \in Conns \ over
  /\ over' = over \cup {x}
  /\ UNCHANGED <<agentVars, readVars, cliVars, pending, ghostVars>>

\* A REST handler returns, which it does without waiting for SendMessage.
HandlerReturns(x) ==
  /\ x \in Requests \ over
  /\ \E m \in Msgs : turn[m].ctx = x
  /\ over' = over \cup {x}
  /\ UNCHANGED <<agentVars, readVars, cliVars, pending, ghostVars>>

\* exec.CommandContext kills the process once its context is over.
Kill ==
  /\ proc = "alive" /\ owner \in over
  /\ proc' = "dead"
  /\ UNCHANGED <<cmd, owner, closed, over, readVars, cliVars, pending, ghostVars>>

-----------------------------------------------------------------------------
(* The CLI.                                                                *)

CliTake ==
  /\ proc = "alive" /\ cli.cur = None /\ cli.inbox # <<>>
  /\ cli' = [inbox |-> Tail(cli.inbox), cur |-> Head(cli.inbox), left |-> MaxLines, ask |-> None]
  /\ UNCHANGED <<agentVars, over, readVars, stdout, said, pending, ghostVars>>

Emit(k) ==
  /\ stdout' = Append(stdout, Line(cli.cur, k))
  /\ said' = [said EXCEPT ![cli.cur] = Append(@, Line(cli.cur, k))]
  /\ UNCHANGED <<agentVars, over, readVars, pending, ghostVars>>

CliWrite ==
  /\ proc = "alive" /\ cli.cur # None /\ cli.ask = None
  /\ \/ /\ cli.left > 0
        /\ \E k \in {"text", "long"} : Emit(k)
        /\ cli' = [cli EXCEPT !.left = @ - 1]
     \/ /\ cli.left > 0 /\ Line(cli.cur, "ask") \notin Range(said[cli.cur])
        /\ Emit("ask")
        /\ cli' = [cli EXCEPT !.left = @ - 1, !.ask = cli.cur]
     \/ /\ Emit("result")
        /\ cli' = [cli EXCEPT !.cur = None, !.left = 0]

-----------------------------------------------------------------------------
Turn(m) == \/ Check(m) \/ Start(m) \/ Write(m)
           \/ Fill(m) \/ ScanLine(m) \/ ScanFails(m) \/ EndOfFile(m) \/ Answer(m)

Next ==
  \/ \E m \in Msgs : Turn(m) \/ SkipLine(m) \/ GiveUp(m) \/ Respond(m) \/ \E x \in Ctxs : Accept(m, x)
  \/ \E x \in Ctxs : Disconnect(x) \/ HandlerReturns(x)
  \/ Interrupt \/ Close \/ Kill
  \/ CliTake \/ CliWrite

\* Goroutines run, the time limit passes, REST handlers return, the runtime
\* kills and the CLI goes on; the user need not answer.
Fairness ==
  /\ \A m \in Msgs : WF_vars(Turn(m)) /\ WF_vars(GiveUp(m))
  /\ \A x \in Requests : WF_vars(HandlerReturns(x))
  /\ WF_vars(Kill)
  /\ WF_vars(CliTake \/ CliWrite)

Spec     == Init /\ [][Next]_vars
FairSpec == Spec /\ Fairness

-----------------------------------------------------------------------------
(* Properties.                                                             *)

Lines == [of : Msgs, kind : {"text", "long", "ask", "result"}]

\* The type invariant of the agent, its readers and the CLI.
TypeOK ==
  /\ cmd \in {"none", "up", "broken"} /\ owner \in Ctxs \cup {None}
  /\ proc \in {"none", "alive", "dead"} /\ closed \in BOOLEAN
  /\ over \in SUBSET Ctxs
  /\ turn \in [Msgs -> [pc : {"idle", "new", "start", "write", "read", "wait", "closed", "failed"},
                        ctx : Ctxs \cup {None}]]
  /\ buf \in [Msgs -> Seq(Lines)] /\ out \in [Msgs -> Seq(Lines)]
  /\ stdout \in Seq(Lines) /\ said \in [Msgs -> Seq(Lines)]
  /\ cli \in [inbox : Seq(Msgs), cur : Msgs \cup {None}, left : 0 .. MaxLines, ask : Msgs \cup {None}]
  /\ pending \in Seq(Msgs) /\ Len(pending) <= QueueCap
  /\ answers \in [Msgs -> 0 .. MaxAnswers]
  /\ mixed \in SUBSET Msgs /\ spoiled \in BOOLEAN

\* Its reader was told that a line was too long, which was its last event.
Cut(m) == out[m] # <<>> /\ Last(out[m]).kind = "long"

\* A message that was written to an agent at rest, and that no other message
\* followed before it was finished, gets its own answer: its channel carries
\* what the CLI said about it, in order, and all of it unless its context
\* ended, the CLI died, or a line was too long, which the channel then tells
\* (claude.go:138-185).
OwnAnswer ==
  \A m \in Msgs \ mixed :
    /\ IsPrefix(out[m], said[m])
    /\ turn[m].pc = "closed" /\ turn[m].ctx \notin over /\ proc = "alive"
         => out[m] = said[m] \/ Cut(m)

\* Between turns the agent is at rest: as long as no context of a finished turn
\* ended, no line was too long and no turns overlapped, whenever no reader is
\* left the CLI has said all it had to say and nothing of it remains in the
\* pipe for the next reader to take for its own (claude.go:138-185).
RestBetweenTurns ==
  /\ mixed = {} /\ Active = {} /\ proc = "alive"
  /\ \A m \in Msgs : turn[m].pc = "closed" => turn[m].ctx \notin over /\ ~Cut(m)
  => Quiet

\* Answers pair with requests, although nothing compares their ids: unless an
\* answer was given twice or the wait for one was given up, the queue holds at
\* most the answer to the request a reader waits for, and an answer to the
\* request the CLI waits for is not lost on the way (claude.go:187-220, 333-354).
AnswersPair ==
  ~spoiled /\ mixed = {} =>
    /\ Len(pending) <= 1
    /\ \A i \in DOMAIN pending : \E m \in Active : turn[m].pc = "wait" /\ Last(out[m]) = Line(pending[i], "ask")
    /\ proc = "alive" /\ cli.ask # None /\ answers[cli.ask] > 0 => pending = <<cli.ask>>

\* The streams end with the process: once the CLI is dead every reader, even
\* one that waits for an answer nobody will give, returns (claude.go:146-220).
StreamsEndWithProcess ==
  \A m \in Msgs : (proc = "dead" /\ m \in Active) ~> (turn[m].pc = "closed")

\* A turn that nothing disturbs ends with the CLI's result, or with the error
\* of a line too long: the request and the answer, the pipe and the scanner
\* never wait for each other.
TurnEnds ==
  \A m \in Msgs : (turn[m].pc = "read") ~>
    \/ turn[m].pc = "closed" /\ (Line(m, "result") \in Range(out[m]) \/ Cut(m))
    \/ proc = "dead" \/ turn[m].ctx \in over \/ spoiled \/ mixed # {}

\* "Chat REST API (for reliable message delivery)" (server/main.go:48): a
\* message that a REST request brought to the CLI it started gets its answer,
\* unless the agent is closed.
RestMessageIsAnswered ==
  \A m \in Msgs :
    (turn[m].pc = "read" /\ turn[m].ctx \in Requests /\ owner = turn[m].ctx)
      ~> (closed \/ Line(m, "result") \in Range(out[m]))
=============================================================================
