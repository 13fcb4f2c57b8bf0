-------------------------- MODULE ClaudeAgentProofs --------------------------
(***************************************************************************)
(* Proofs about ClaudeAgent, for any number of messages, connections and   *)
(* REST requests, any length of the answers and of the queue: its type     *)
(* invariant, OwnAnswer, RestBetweenTurns and AnswersPair.                 *)
(*                                                                         *)
(* They rest on where an answer is.  What the CLI said about a message     *)
(* that nobody mixed with is what its reader sent on, what it has buffered *)
(* and what is left in the pipe, in this order, and the reader is alone    *)
(* (Follows); the result is the last of it, and it ends the CLI's work as  *)
(* well as the reader (Stages, Ends).                                      *)
(***************************************************************************)
EXTENDS ClaudeAgent, SequenceTheorems, TLAPS

-----------------------------------------------------------------------------
(* The inductive invariant.                                                *)

Unsent(m) == turn[m].pc \in {"idle", "new", "start", "write", "failed"}
Sent(m)   == turn[m].pc \in {"read", "wait", "closed"}

\* What has not been written to the CLI has left no trace.
Fresh ==
  \A m \in Msgs : Unsent(m) =>
    out[m] = <<>> /\ said[m] = <<>> /\ buf[m] = <<>> /\ m \notin Range(cli.inbox) /\ cli.cur # m

\* Nothing happens before the process starts, and it starts once.
Started ==
  /\ cmd = "none" => proc = "none"
  /\ proc = "none" => stdout = <<>> /\ cli = AtRest /\ \A m \in Msgs : Unsent(m)

Says == \A m \in Msgs : \A i \in DOMAIN said[m] : said[m][i].of = m

\* The CLI has not begun with m, is at work on it, or has finished it.
NoResult(s) == \A i \in DOMAIN s : s[i].kind # "result"
Waiting(m)  == cli.inbox = <<m>> /\ cli.cur = None /\ said[m] = <<>>
Under(m)    == cli.inbox = <<>> /\ cli.cur = m /\ NoResult(said[m])
Finished(m) == /\ m \notin Range(cli.inbox) /\ cli.cur # m
               /\ said[m] # <<>>
               /\ \A i \in DOMAIN said[m] : said[m][i].kind = "result" <=> i = Len(said[m])
Stages == \A m \in Msgs \ mixed : Sent(m) => Waiting(m) \/ Under(m) \/ Finished(m)

\* A reader that nobody mixed with is alone, and what it sent, has buffered and
\* has left in the pipe is what the CLI said.
Follows ==
  \A m \in Msgs \ mixed : m \in Active =>
    /\ Active = {m}
    /\ said[m] = out[m] \o (buf[m] \o stdout)
    /\ NoResult(out[m])
    /\ Range(cli.inbox) \subseteq {m} /\ cli.cur \in {m, None}

\* What its reader's end leaves.
Ends ==
  \A m \in Msgs \ mixed : turn[m].pc = "closed" =>
    /\ IsPrefix(out[m], said[m])
    /\ turn[m].ctx \notin over /\ proc = "alive" => (Finished(m) /\ out[m] = said[m]) \/ Cut(m)

Rested == (cli.cur = None => cli.left = 0 /\ cli.ask = None) /\ RestBetweenTurns

\* A request that was answered has been shown; one that was not, and that
\* nothing spoiled, is the last thing its reader sent, which waits.
Pairs ==
  /\ \A p \in Msgs : answers[p] > 0 => \E m \in Msgs : Line(p, "ask") \in Range(out[m])
  /\ ~spoiled /\ mixed = {} =>
       /\ \A i \in DOMAIN pending : answers[pending[i]] > 0
       /\ \A m \in Msgs : Line(m, "ask") \in Range(out[m]) /\ answers[m] = 0 =>
            turn[m].pc = "wait" /\ Last(out[m]) = Line(m, "ask")
  /\ AnswersPair

Rest == Fresh /\ Started /\ Says /\ Stages /\ Follows /\ Ends /\ Rested /\ Pairs
IInv == TypeOK /\ Rest

-----------------------------------------------------------------------------
(* Sequences of lines.                                                     *)

LEMMA LineType ==
  ASSUME NEW m \in Msgs, NEW k \in {"text", "long", "ask", "result"}
  PROVE  Line(m, k) \in Lines /\ Line(m, k).of = m /\ Line(m, k).kind = k
  BY DEF Line, Lines

LEMMA Prefix ==
  ASSUME NEW s \in Seq(Lines), NEW t \in Seq(Lines)
  PROVE  IsPrefix(s, t) <=> Len(s) <= Len(t) /\ \A i \in 1 .. Len(s) : s[i] = t[i]
<1>1. SubSeq(s, 1, Len(s)) = s
  BY SubSeqFull
<1>2. CASE Len(s) <= Len(t)
  <2> DEFINE u == SubSeq(t, 1, Len(s))
  <2>0. Len(s) \in Nat /\ Len(t) \in Nat /\ \A i \in 1 .. Len(t) : t[i] \in Lines
    OBVIOUS
  <2>1. u \in Seq(Lines) /\ Len(u) = Len(s) /\ \A i \in 1 .. Len(s) : u[i] = t[i]
    BY <1>2, <2>0
  <2> HIDE DEF u
  <2>2. s = u <=> \A i \in 1 .. Len(s) : s[i] = u[i]
    BY <2>1, SeqEqual
  <2> QED
    BY <1>1, <1>2, <2>1, <2>2 DEF IsPrefix, u
<1> QED
  BY <1>2 DEF IsPrefix

LEMMA PrefixRange ==
  ASSUME NEW s \in Seq(Lines), NEW t \in Seq(Lines), IsPrefix(s, t)
  PROVE  \A x \in Range(s) : x \in Range(t)
  BY Prefix DEF Range

LEMMA PrefixLonger ==
  ASSUME NEW s \in Seq(Lines), NEW t \in Seq(Lines), NEW u \in Seq(Lines),
         IsPrefix(s, t), Len(t) <= Len(u), \A i \in 1 .. Len(t) : u[i] = t[i]
  PROVE  IsPrefix(s, u)
<1>1. Len(s) \in Nat /\ Len(t) \in Nat /\ Len(u) \in Nat
  OBVIOUS
<1>2. Len(s) <= Len(t) /\ \A i \in 1 .. Len(s) : s[i] = t[i]
  BY Prefix
<1>3. Len(s) <= Len(u) /\ \A i \in 1 .. Len(s) : s[i] = u[i]
  BY <1>1, <1>2
<1> QED
  BY <1>3, Prefix

LEMMA PrefixSelf ==
  ASSUME NEW s \in Seq(Lines)
  PROVE  IsPrefix(s, s)
<1>1. Len(s) <= Len(s) /\ \A i \in 1 .. Len(s) : s[i] = s[i]
  OBVIOUS
<1> QED
  BY <1>1, Prefix

LEMMA PrefixEmpty ==
  ASSUME NEW s \in Seq(Lines)
  PROVE  IsPrefix(<<>>, s)
<1> DEFINE e == <<>>
<1>1. e \in Seq(Lines) /\ Len(e) <= Len(s) /\ \A i \in 1 .. Len(e) : e[i] = s[i]
  OBVIOUS
<1> HIDE DEF e
<1>2. IsPrefix(e, s)
  BY <1>1, Prefix
<1> QED
  BY <1>2 DEF e

LEMMA PrefixAppend ==
  ASSUME NEW s \in Seq(Lines), NEW t \in Seq(Lines), NEW e \in Lines, IsPrefix(s, t)
  PROVE  IsPrefix(s, Append(t, e))
<1> DEFINE u == Append(t, e)
<1>1. u \in Seq(Lines) /\ Len(t) <= Len(u) /\ \A i \in 1 .. Len(t) : u[i] = t[i]
  OBVIOUS
<1> HIDE DEF u
<1>2. IsPrefix(s, u)
  BY <1>1, PrefixLonger
<1> QED
  BY <1>2 DEF u

LEMMA PrefixConcat ==
  ASSUME NEW s \in Seq(Lines), NEW t \in Seq(Lines)
  PROVE  IsPrefix(s, s \o t)
<1> DEFINE u == s \o t
<1>1. u \in Seq(Lines) /\ Len(s) <= Len(u) /\ \A i \in 1 .. Len(s) : u[i] = s[i]
  BY ConcatProperties
<1> HIDE DEF u
<1>2. IsPrefix(s, u)
  BY <1>1, PrefixSelf, PrefixLonger
<1> QED
  BY <1>2 DEF u

LEMMA RangeAppend ==
  ASSUME NEW s \in Seq(Lines), NEW e \in Lines
  PROVE  Range(Append(s, e)) = Range(s) \cup {e} /\ Last(Append(s, e)) = e
<1>1. DOMAIN Append(s, e) = DOMAIN s \cup {Len(s) + 1} /\ Append(s, e)[Len(s) + 1] = e
  OBVIOUS
<1>2. \A i \in DOMAIN s : Append(s, e)[i] = s[i]
  OBVIOUS
<1>3. Len(Append(s, e)) = Len(s) + 1
  OBVIOUS
<1> QED
  BY <1>1, <1>2, <1>3 DEF Range, Last

\* A line moves from the front of the buffer to the end of what was sent.
LEMMA MoveLine ==
  ASSUME NEW o \in Seq(Lines), NEW b \in Seq(Lines), NEW r \in Seq(Lines), b # <<>>
  PROVE  o \o (b \o r) = Append(o, Head(b)) \o (Tail(b) \o r)
<1>1. Head(b) \in Lines /\ <<Head(b)>> \in Seq(Lines) /\ Tail(b) \in Seq(Lines)
  OBVIOUS
<1>2. b = <<Head(b)>> \o Tail(b)
  <2> DEFINE c == <<Head(b)>> \o Tail(b)
  <2>1. c \in Seq(Lines) /\ Len(c) = Len(b) /\ \A i \in 1 .. Len(b) : c[i] = b[i]
    BY <1>1
  <2> QED
    BY <2>1, SeqEqual
<1>3. Append(o, Head(b)) = o \o <<Head(b)>>
  BY <1>1, AppendIsConcat
<1>4. o \o (b \o r) = (o \o <<Head(b)>>) \o (Tail(b) \o r)
  <2>1. PICK h \in Seq(Lines), t \in Seq(Lines) : h = <<Head(b)>> /\ t = Tail(b)
    BY <1>1
  <2>2. b = h \o t
    BY <1>2, <2>1
  <2>3. o \o ((h \o t) \o r) = (o \o h) \o (t \o r)
    <3>1. PICK w \in Seq(Lines) : w = t \o r
      BY ConcatProperties
    <3>2. (h \o t) \o r = h \o w
      BY <3>1, ConcatAssociative
    <3>3. (o \o h) \o w = o \o (h \o w)
      BY ConcatAssociative
    <3> QED
      BY <3>1, <3>2, <3>3
  <2> QED
    BY <2>1, <2>2, <2>3
<1> QED
  BY <1>3, <1>4

\* A read of the pipe.
LEMMA SplitPipe ==
  ASSUME NEW r \in Seq(Lines), NEW n \in 1 .. Len(r)
  PROVE  /\ SubSeq(r, 1, n) \in Seq(Lines) /\ SubSeq(r, n + 1, Len(r)) \in Seq(Lines)
         /\ SubSeq(r, 1, n) \o SubSeq(r, n + 1, Len(r)) = r
<1>1. SubSeq(r, 1, n) \o SubSeq(r, n + 1, Len(r)) = SubSeq(r, 1, Len(r))
  BY ConcatAdjacentSubSeq
<1>2. SubSeq(r, 1, Len(r)) = r
  BY SubSeqFull
<1>3. \A i \in 1 .. Len(r) : r[i] \in Lines
  OBVIOUS
<1>4. SubSeq(r, 1, n) \in Seq(Lines) /\ SubSeq(r, n + 1, Len(r)) \in Seq(Lines)
  BY <1>3, SubSeqProperties
<1> QED
  BY <1>1, <1>2, <1>4

\* Another line at the end of the pipe.
LEMMA AppendLine ==
  ASSUME NEW o \in Seq(Lines), NEW b \in Seq(Lines), NEW r \in Seq(Lines), NEW e \in Lines
  PROVE  Append(o \o (b \o r), e) = o \o (b \o Append(r, e))
<1>1. o \o (b \o r) \in Seq(Lines) /\ b \o r \in Seq(Lines) /\ <<e>> \in Seq(Lines)
  BY ConcatProperties
<1>2. Append(o \o (b \o r), e) = (o \o (b \o r)) \o <<e>> /\ Append(r, e) = r \o <<e>>
  BY <1>1, AppendIsConcat
<1>3. (o \o (b \o r)) \o <<e>> = o \o ((b \o r) \o <<e>>)
  BY <1>1, ConcatAssociative
<1>4. (b \o r) \o <<e>> = b \o (r \o <<e>>)
  BY <1>1, ConcatAssociative
<1> QED
  BY <1>2, <1>3, <1>4

-----------------------------------------------------------------------------
(* The type invariant, and what each step does.                            *)

Pcs     == {"idle", "new", "start", "write", "read", "wait", "closed", "failed"}
TurnRec == [pc : Pcs, ctx : Ctxs \cup {None}]
CliRec  == [inbox : Seq(Msgs), cur : Msgs \cup {None}, left : 0 .. MaxLines, ask : Msgs \cup {None}]

AgentT == /\ cmd \in {"none", "up", "broken"} /\ owner \in Ctxs \cup {None}
          /\ proc \in {"none", "alive", "dead"} /\ closed \in BOOLEAN
          /\ over \in SUBSET Ctxs
TurnT  == turn \in [Msgs -> TurnRec]
LinesT == /\ buf \in [Msgs -> Seq(Lines)] /\ out \in [Msgs -> Seq(Lines)]
          /\ stdout \in Seq(Lines) /\ said \in [Msgs -> Seq(Lines)]
CliT   == cli \in CliRec
PairT  == /\ pending \in Seq(Msgs) /\ Len(pending) <= QueueCap
          /\ answers \in [Msgs -> 0 .. MaxAnswers]
GhostT == mixed \in SUBSET Msgs /\ spoiled \in BOOLEAN

LEMMA TypeParts == TypeOK <=> AgentT /\ TurnT /\ LinesT /\ CliT /\ PairT /\ GhostT
  BY DEF TypeOK, AgentT, TurnT, LinesT, CliT, PairT, GhostT, TurnRec, Pcs, CliRec

LEMMA TypePartsNext == AgentT' /\ TurnT' /\ LinesT' /\ CliT' /\ PairT' /\ GhostT' => TypeOK'
  BY DEF TypeOK, AgentT, TurnT, LinesT, CliT, PairT, GhostT, TurnRec, Pcs, CliRec

LEMMA CliParts ==
  ASSUME CliT
  PROVE  /\ cli.inbox \in Seq(Msgs) /\ cli.cur \in Msgs \cup {None}
         /\ cli.left \in 0 .. MaxLines /\ cli.ask \in Msgs \cup {None}
  BY DEF CliT, CliRec

LEMMA AtRestType == AtRest \in CliRec /\ AtRest.inbox = <<>> /\ AtRest.cur = None
                    /\ AtRest.left = 0 /\ AtRest.ask = None
  BY BoundsNat DEF AtRest, CliRec

LEMMA AtRestParts ==
  ASSUME CliT
  PROVE  cli = AtRest <=> cli.inbox = <<>> /\ cli.cur = None /\ cli.left = 0 /\ cli.ask = None
  BY DEF CliT, CliRec, AtRest

LEMMA InitType == Init => TypeOK
<1> SUFFICES ASSUME Init PROVE TypeOK
  OBVIOUS
<1> USE DEF Init
<1>1. AgentT /\ GhostT
  BY DEF AgentT, GhostT
<1>2. TurnT
  BY DEF TurnT, TurnRec, Pcs
<1>3. LinesT
  BY DEF LinesT
<1>4. CliT
  BY AtRestType DEF CliT
<1>5. PairT
  BY BoundsNat DEF PairT
<1> QED
  BY <1>1, <1>2, <1>3, <1>4, <1>5, TypeParts

Others(m) == \A n \in Msgs \ {m} : turn'[n] = turn[n]

LEMMA GotoEffect ==
  ASSUME TurnT, NEW m \in Msgs, NEW l \in Pcs, Goto(m, l)
  PROVE  TurnT' /\ Others(m) /\ turn'[m].pc = l /\ turn'[m].ctx = turn[m].ctx
<1> DEFINE r == [turn[m] EXCEPT !.pc = l]
<1>1. turn[m] \in TurnRec /\ turn' = [turn EXCEPT ![m] = r]
  BY DEF TurnT, Goto
<1>2. r \in TurnRec /\ r.pc = l /\ r.ctx = turn[m].ctx
  BY <1>1 DEF TurnRec
<1> HIDE DEF r
<1> QED
  BY <1>1, <1>2 DEF TurnT, Others

LEMMA AcceptEffect ==
  ASSUME TypeOK, NEW m \in Msgs, NEW x \in Ctxs, Accept(m, x)
  PROVE  /\ TypeOK' /\ Others(m) /\ turn[m].pc = "idle" /\ turn'[m].pc = "new"
         /\ UNCHANGED <<agentVars, over, buf, out, cliVars, pending, ghostVars>>
<1> DEFINE r == [pc |-> "new", ctx |-> x]
<1>1. r \in TurnRec /\ r.pc = "new"
  BY DEF TurnRec, Pcs
<1>2. turn' = [turn EXCEPT ![m] = r] /\ turn[m].pc = "idle"
      /\ UNCHANGED <<agentVars, over, buf, out, cliVars, pending, ghostVars>>
  BY DEF Accept
<1> HIDE DEF r
<1>3. TurnT' /\ Others(m) /\ turn'[m].pc = "new"
  BY <1>1, <1>2, TypeParts DEF TurnT, Others
<1>4. AgentT' /\ LinesT' /\ CliT' /\ PairT' /\ GhostT'
  BY <1>2, TypeParts DEF AgentT, LinesT, CliT, PairT, GhostT, agentVars, cliVars, ghostVars
<1> QED
  BY <1>2, <1>3, <1>4, TypePartsNext

LEMMA CheckEffect ==
  ASSUME TypeOK, NEW m \in Msgs, Check(m)
  PROVE  /\ TypeOK' /\ Others(m) /\ turn[m].pc = "new" /\ turn'[m].pc \in {"start", "write"}
         /\ UNCHANGED <<agentVars, over, buf, out, cliVars, pending, ghostVars>>
<1>1. Goto(m, IF cmd = "none" THEN "start" ELSE "write") /\ turn[m].pc = "new"
      /\ UNCHANGED <<agentVars, over, buf, out, cliVars, pending, ghostVars>>
  BY DEF Check
<1>2. (IF cmd = "none" THEN "start" ELSE "write") \in Pcs
  BY DEF Pcs
<1>3. TurnT' /\ Others(m) /\ turn'[m].pc \in {"start", "write"}
  BY <1>1, <1>2, GotoEffect, TypeParts
<1>4. AgentT' /\ LinesT' /\ CliT' /\ PairT' /\ GhostT'
  BY <1>1, TypeParts DEF AgentT, LinesT, CliT, PairT, GhostT, agentVars, cliVars, ghostVars
<1> QED
  BY <1>1, <1>3, <1>4, TypePartsNext

LEMMA StartEffect ==
  ASSUME TypeOK, NEW m \in Msgs, Start(m)
  PROVE  /\ TypeOK' /\ Others(m) /\ turn[m].pc = "start" /\ turn'[m].pc \in {"failed", "write"}
         /\ UNCHANGED <<over, buf, out, cliVars, pending, ghostVars>>
         /\ \/ cmd' = cmd /\ proc' = proc
            \/ cmd = "none" /\ cmd' # "none" /\ proc' \in {proc, "alive"}
<1>1. turn[m].pc = "start" /\ UNCHANGED <<over, buf, out, cliVars, pending, ghostVars>>
  BY DEF Start
<1>2. turn[m].ctx \in Ctxs \cup {None}
  BY TypeParts DEF TurnT, TurnRec
<1>3. \E l \in {"failed", "write"} : Goto(m, l)
  BY DEF Start
<1>4. TurnT' /\ Others(m) /\ turn'[m].pc \in {"failed", "write"}
  BY <1>3, GotoEffect, TypeParts DEF Pcs
<1>5. \/ cmd' = cmd /\ proc' = proc
      \/ cmd = "none" /\ cmd' # "none" /\ proc' \in {proc, "alive"}
  BY DEF Start, agentVars
<1>6. AgentT'
  BY <1>1, <1>2, TypeParts DEF Start, AgentT, agentVars
<1>7. LinesT' /\ CliT' /\ PairT' /\ GhostT'
  BY <1>1, TypeParts DEF LinesT, CliT, PairT, GhostT, cliVars, ghostVars
<1> QED
  BY <1>1, <1>4, <1>5, <1>6, <1>7, TypePartsNext

LEMMA WriteEffect ==
  ASSUME TypeOK, NEW m \in Msgs, Write(m)
  PROVE  /\ TypeOK' /\ Others(m) /\ turn[m].pc = "write" /\ turn'[m].ctx = turn[m].ctx
         /\ UNCHANGED <<agentVars, over, buf, out, stdout, said, pending, answers, spoiled>>
         /\ \/ turn'[m].pc = "failed" /\ UNCHANGED <<cli, mixed>>
            \/ /\ proc = "alive" /\ turn'[m].pc = "read"
               /\ cli'.inbox = Append(cli.inbox, m) /\ cli'.cur = cli.cur
               /\ cli'.left = cli.left /\ cli'.ask = cli.ask
               /\ mixed' = IF Quiet THEN mixed ELSE mixed \cup {m} \cup (Unfinished \ {None})
<1>1. turn[m].pc = "write" /\ UNCHANGED <<agentVars, over, buf, out, stdout, said, pending, answers, spoiled>>
  BY DEF Write
<1>2. CliT /\ TurnT /\ \A i \in DOMAIN stdout : stdout[i].of \in Msgs
  <2>1. \A i \in DOMAIN stdout : stdout[i] \in Lines
    BY TypeParts DEF LinesT
  <2> QED
    BY <2>1, TypeParts DEF Lines
<1>3. AgentT' /\ LinesT' /\ PairT'
  BY <1>1, TypeParts DEF AgentT, LinesT, PairT, agentVars
<1>4. CASE proc = "alive"
  <2>1. /\ cli' = [cli EXCEPT !.inbox = Append(@, m)] /\ Goto(m, "read")
        /\ mixed' = IF Quiet THEN mixed ELSE mixed \cup {m} \cup (Unfinished \ {None})
    BY <1>4 DEF Write
  <2>2. Append(cli.inbox, m) \in Seq(Msgs)
    BY <1>2, CliParts
  <2>3. CliT' /\ cli'.inbox = Append(cli.inbox, m) /\ cli'.cur = cli.cur /\ cli'.left = cli.left /\ cli'.ask = cli.ask
    BY <1>2, <2>1, <2>2 DEF CliT, CliRec
  <2>4. TurnT' /\ Others(m) /\ turn'[m].pc = "read" /\ turn'[m].ctx = turn[m].ctx
    BY <1>2, <2>1, GotoEffect DEF Pcs
  <2>5. Unfinished \subseteq Msgs \cup {None}
    <3>1. Range(cli.inbox) \subseteq Msgs
      BY <1>2, CliParts, RangeOfSeq
    <3> QED
      BY <1>2, <3>1, CliParts DEF Unfinished, Active
  <2>6. GhostT'
    BY <1>1, <2>1, <2>5, TypeParts DEF GhostT
  <2> QED
    BY <1>1, <1>3, <1>4, <2>1, <2>3, <2>4, <2>6, TypePartsNext
<1>5. CASE proc # "alive"
  <2>1. Goto(m, "failed") /\ UNCHANGED <<cli, mixed>>
    BY <1>5 DEF Write
  <2>2. TurnT' /\ Others(m) /\ turn'[m].pc = "failed" /\ turn'[m].ctx = turn[m].ctx
    BY <1>2, <2>1, GotoEffect DEF Pcs
  <2>3. CliT' /\ GhostT'
    BY <1>1, <2>1, TypeParts DEF CliT, GhostT
  <2> QED
    BY <1>1, <1>3, <2>1, <2>2, <2>3, TypePartsNext
<1> QED
  BY <1>4, <1>5

LEMMA BufEffect ==
  ASSUME LinesT, NEW m \in Msgs, NEW b \in Seq(Lines), buf' = [buf EXCEPT ![m] = b]
  PROVE  buf' \in [Msgs -> Seq(Lines)] /\ buf'[m] = b /\ \A n \in Msgs \ {m} : buf'[n] = buf[n]
  BY DEF LinesT

LEMMA FillEffect ==
  ASSUME TypeOK, NEW m \in Msgs, Fill(m)
  PROVE  /\ TypeOK' /\ turn[m].pc = "read" /\ buf[m] = <<>>
         /\ buf'[m] \o stdout' = stdout
         /\ \A n \in Msgs \ {m} : buf'[n] = buf[n]
         /\ UNCHANGED <<agentVars, over, turn, out, cli, said, pending, ghostVars>>
<1>1. /\ turn[m].pc = "read" /\ buf[m] = <<>>
      /\ UNCHANGED <<agentVars, over, turn, out, cli, said, pending, ghostVars>>
  BY DEF Fill
<1>2. PICK n \in 1 .. Len(stdout) :
        buf' = [buf EXCEPT ![m] = SubSeq(stdout, 1, n)] /\ stdout' = SubSeq(stdout, n + 1, Len(stdout))
  BY DEF Fill
<1>3. LinesT
  BY TypeParts
<1>4. /\ SubSeq(stdout, 1, n) \in Seq(Lines) /\ stdout' \in Seq(Lines)
      /\ SubSeq(stdout, 1, n) \o stdout' = stdout
  BY <1>2, <1>3, SplitPipe DEF LinesT
<1>5. /\ buf' \in [Msgs -> Seq(Lines)] /\ buf'[m] = SubSeq(stdout, 1, n)
      /\ \A h \in Msgs \ {m} : buf'[h] = buf[h]
  BY <1>2, <1>3, <1>4, BufEffect
<1>6. LinesT'
  BY <1>1, <1>3, <1>4, <1>5 DEF LinesT
<1>7. AgentT' /\ TurnT' /\ CliT' /\ PairT' /\ GhostT'
  BY <1>1, TypeParts DEF AgentT, TurnT, CliT, PairT, GhostT, agentVars, ghostVars
<1> QED
  BY <1>1, <1>4, <1>5, <1>6, <1>7, TypePartsNext

LEMMA ScanLineEffect ==
  ASSUME TypeOK, NEW m \in Msgs, ScanLine(m)
  PROVE  /\ TypeOK' /\ Others(m) /\ turn[m].pc = "read" /\ buf[m] # <<>> /\ turn'[m].ctx = turn[m].ctx
         /\ \A n \in Msgs \ {m} : buf'[n] = buf[n] /\ out'[n] = out[n]
         /\ UNCHANGED <<agentVars, over, cliVars, pending, ghostVars>>
         /\ \/ turn[m].ctx \in over /\ turn'[m].pc = "closed" /\ out' = out
            \/ /\ out'[m] = Append(out[m], Head(buf[m]))
               /\ \/ Head(buf[m]).kind = "text"   /\ turn'[m].pc = "read"   /\ buf'[m] = Tail(buf[m])
                  \/ Head(buf[m]).kind = "ask"    /\ turn'[m].pc = "wait"   /\ buf'[m] = Tail(buf[m])
                  \/ Head(buf[m]).kind = "result" /\ turn'[m].pc = "closed" /\ buf'[m] = <<>>
<1> DEFINE l == Head(buf[m])
<1>1. /\ turn[m].pc = "read" /\ buf[m] # <<>>
      /\ UNCHANGED <<agentVars, over, cliVars, pending, ghostVars>>
  BY DEF ScanLine
<1>2. LinesT /\ TurnT /\ buf[m] \in Seq(Lines) /\ out[m] \in Seq(Lines)
  BY TypeParts DEF LinesT
<1>3. l \in Lines /\ Tail(buf[m]) \in Seq(Lines) /\ <<>> \in Seq(Lines)
  BY <1>1, <1>2
<1>4. l.kind \in {"text", "long", "ask", "result"}
  BY <1>3 DEF Lines
<1>5. Append(out[m], l) \in Seq(Lines)
  BY <1>2, <1>3
<1>6. AgentT' /\ CliT' /\ PairT' /\ GhostT'
  BY <1>1, TypeParts DEF AgentT, CliT, PairT, GhostT, agentVars, cliVars, ghostVars
<1>7. CASE turn[m].ctx \in over
  <2>1. Goto(m, "closed") /\ buf' = [buf EXCEPT ![m] = <<>>] /\ out' = out
    BY <1>7 DEF ScanLine, Leave
  <2>2. TurnT' /\ Others(m) /\ turn'[m].pc = "closed" /\ turn'[m].ctx = turn[m].ctx
    BY <1>2, <2>1, GotoEffect DEF Pcs
  <2>3. buf' \in [Msgs -> Seq(Lines)] /\ \A n \in Msgs \ {m} : buf'[n] = buf[n]
    BY <1>2, <1>3, <2>1, BufEffect
  <2>4. LinesT'
    BY <1>1, <1>2, <2>1, <2>3 DEF LinesT, cliVars
  <2> QED
    BY <1>1, <1>6, <1>7, <2>1, <2>2, <2>3, <2>4, TypePartsNext
<1>8. CASE turn[m].ctx \notin over
  <2>1. out' = [out EXCEPT ![m] = Append(out[m], l)]
    BY <1>8 DEF ScanLine
  <2>2. \/ l.kind = "text"   /\ turn' = turn        /\ buf' = [buf EXCEPT ![m] = Tail(buf[m])]
        \/ l.kind = "ask"    /\ Goto(m, "wait")     /\ buf' = [buf EXCEPT ![m] = Tail(buf[m])]
        \/ l.kind = "result" /\ Goto(m, "closed")   /\ buf' = [buf EXCEPT ![m] = <<>>]
    BY <1>4, <1>8 DEF ScanLine, Leave
  <2>3. /\ out' \in [Msgs -> Seq(Lines)] /\ out'[m] = Append(out[m], l)
        /\ \A n \in Msgs \ {m} : out'[n] = out[n]
    BY <1>2, <1>5, <2>1 DEF LinesT
  <2> HIDE DEF l
  <2>4. ASSUME NEW b \in Seq(Lines), buf' = [buf EXCEPT ![m] = b]
        PROVE  LinesT' /\ buf'[m] = b /\ \A n \in Msgs \ {m} : buf'[n] = buf[n]
    <3>1. buf' \in [Msgs -> Seq(Lines)] /\ buf'[m] = b /\ \A n \in Msgs \ {m} : buf'[n] = buf[n]
      BY <1>2, <2>4, BufEffect
    <3> QED
      BY <1>1, <1>2, <2>3, <3>1 DEF LinesT, cliVars
  <2>5. /\ LinesT' /\ \A n \in Msgs \ {m} : buf'[n] = buf[n]
        /\ l.kind \in {"text", "ask"} => buf'[m] = Tail(buf[m])
        /\ l.kind = "result" => buf'[m] = <<>>
    BY <1>3, <2>2, <2>4
  <2>6. /\ TurnT' /\ Others(m) /\ turn'[m].ctx = turn[m].ctx
        /\ \/ l.kind = "text" /\ turn'[m].pc = "read"
           \/ l.kind = "ask" /\ turn'[m].pc = "wait"
           \/ l.kind = "result" /\ turn'[m].pc = "closed"
    <3>1. CASE l.kind = "text"
      BY <1>1, <1>2, <2>2, <3>1 DEF Others, TurnT
    <3>2. CASE l.kind = "ask"
      BY <1>2, <2>2, <3>2, GotoEffect DEF Pcs
    <3>3. CASE l.kind = "result"
      BY <1>2, <2>2, <3>3, GotoEffect DEF Pcs
    <3> QED
      BY <2>2, <3>1, <3>2, <3>3
  <2>7. TypeOK'
    BY <1>6, <2>5, <2>6, TypePartsNext
  <2> QED
    BY <1>1, <2>3, <2>5, <2>6, <2>7 DEF l
<1> QED
  BY <1>7, <1>8

LEMMA EndOfFileEffect ==
  ASSUME TypeOK, NEW m \in Msgs, EndOfFile(m)
  PROVE  /\ TypeOK' /\ Others(m) /\ turn[m].pc = "read" /\ proc = "dead"
         /\ turn'[m].pc = "closed" /\ turn'[m].ctx = turn[m].ctx
         /\ \A n \in Msgs \ {m} : buf'[n] = buf[n]
         /\ UNCHANGED <<agentVars, over, out, cliVars, pending, ghostVars>>
<1>1. /\ turn[m].pc = "read" /\ proc = "dead" /\ Goto(m, "closed") /\ buf' = [buf EXCEPT ![m] = <<>>]
      /\ UNCHANGED <<agentVars, over, out, cliVars, pending, ghostVars>>
  BY DEF EndOfFile, Leave
<1>2. TurnT' /\ Others(m) /\ turn'[m].pc = "closed" /\ turn'[m].ctx = turn[m].ctx
  BY <1>1, TypeParts, GotoEffect DEF Pcs
<1>5. <<>> \in Seq(Lines)
  OBVIOUS
<1>3. buf' \in [Msgs -> Seq(Lines)] /\ \A n \in Msgs \ {m} : buf'[n] = buf[n]
  BY <1>1, <1>5, TypeParts, BufEffect
<1>4. AgentT' /\ LinesT' /\ CliT' /\ PairT' /\ GhostT'
  BY <1>1, <1>3, TypeParts DEF AgentT, LinesT, CliT, PairT, GhostT, agentVars, cliVars, ghostVars
<1> QED
  BY <1>1, <1>2, <1>3, <1>4, TypePartsNext

LEMMA SkipLineEffect ==
  ASSUME TypeOK, NEW m \in Msgs, SkipLine(m)
  PROVE  /\ TypeOK' /\ Others(m) /\ turn[m].pc = "read" /\ turn[m].ctx \in over
         /\ turn'[m].pc = "closed" /\ turn'[m].ctx = turn[m].ctx
         /\ \A n \in Msgs \ {m} : buf'[n] = buf[n]
         /\ UNCHANGED <<agentVars, over, out, cliVars, pending, ghostVars>>
<1>1. /\ turn[m].pc = "read" /\ turn[m].ctx \in over /\ Goto(m, "closed") /\ buf' = [buf EXCEPT ![m] = <<>>]
      /\ UNCHANGED <<agentVars, over, out, cliVars, pending, ghostVars>>
  BY DEF SkipLine, Leave
<1>2. TurnT' /\ Others(m) /\ turn'[m].pc = "closed" /\ turn'[m].ctx = turn[m].ctx
  BY <1>1, TypeParts, GotoEffect DEF Pcs
<1>5. <<>> \in Seq(Lines)
  OBVIOUS
<1>3. buf' \in [Msgs -> Seq(Lines)] /\ \A n \in Msgs \ {m} : buf'[n] = buf[n]
  BY <1>1, <1>5, TypeParts, BufEffect
<1>4. AgentT' /\ LinesT' /\ CliT' /\ PairT' /\ GhostT'
  BY <1>1, <1>3, TypeParts DEF AgentT, LinesT, CliT, PairT, GhostT, agentVars, cliVars, ghostVars
<1> QED
  BY <1>1, <1>2, <1>3, <1>4, TypePartsNext

LEMMA ScanFailsEffect ==
  ASSUME TypeOK, NEW m \in Msgs, ScanFails(m)
  PROVE  /\ TypeOK' /\ Others(m) /\ turn[m].pc = "read" /\ buf[m] = <<>>
         /\ turn'[m].pc = "closed" /\ turn'[m].ctx = turn[m].ctx
         /\ stdout # <<>> /\ Head(stdout) \in Lines /\ Head(stdout).kind = "long"
         /\ out'[m] = Append(out[m], Head(stdout))
         /\ \A n \in Msgs \ {m} : buf'[n] = buf[n] /\ out'[n] = out[n]
         /\ UNCHANGED <<agentVars, over, cli, said, pending, ghostVars>>
<1>0. LinesT
  BY TypeParts
<1>1. /\ turn[m].pc = "read" /\ buf[m] = <<>> /\ stdout # <<>> /\ Head(stdout).kind = "long"
      /\ Goto(m, "closed") /\ buf' = [buf EXCEPT ![m] = <<>>]
      /\ out' = [out EXCEPT ![m] = Append(out[m], Head(stdout))]
      /\ stdout' \in {stdout, Tail(stdout)}
      /\ UNCHANGED <<agentVars, over, cli, said, pending, ghostVars>>
  BY DEF ScanFails, Leave
<1>2. TurnT' /\ Others(m) /\ turn'[m].pc = "closed" /\ turn'[m].ctx = turn[m].ctx
  BY <1>1, TypeParts, GotoEffect DEF Pcs
<1>3. /\ stdout \in Seq(Lines) /\ out[m] \in Seq(Lines)
      /\ Head(stdout) \in Lines /\ Tail(stdout) \in Seq(Lines) /\ <<>> \in Seq(Lines)
  BY <1>0, <1>1 DEF LinesT
<1>4. buf' \in [Msgs -> Seq(Lines)] /\ \A n \in Msgs \ {m} : buf'[n] = buf[n]
  BY <1>0, <1>1, <1>3, BufEffect
<1>5. Append(out[m], Head(stdout)) \in Seq(Lines)
  BY <1>3
<1>6. /\ out' \in [Msgs -> Seq(Lines)] /\ out'[m] = Append(out[m], Head(stdout))
      /\ \A n \in Msgs \ {m} : out'[n] = out[n]
  BY <1>0, <1>1, <1>5 DEF LinesT
<1>7. LinesT'
  BY <1>0, <1>1, <1>3, <1>4, <1>6 DEF LinesT
<1>8. AgentT' /\ CliT' /\ PairT' /\ GhostT'
  BY <1>1, TypeParts DEF AgentT, CliT, PairT, GhostT, agentVars, ghostVars
<1>9. TypeOK'
  BY <1>2, <1>7, <1>8, TypePartsNext
<1> QED
  BY <1>1, <1>2, <1>3, <1>4, <1>6, <1>9

LEMMA RespondEffect ==
  ASSUME TypeOK, NEW p \in Msgs, Respond(p)
  PROVE  /\ TypeOK'
         /\ \E m \in Msgs : Line(p, "ask") \in Range(out[m])
         /\ pending' = Append(pending, p)
         /\ answers'[p] = answers[p] + 1 /\ \A q \in Msgs \ {p} : answers'[q] = answers[q]
         /\ spoiled' = (spoiled \/ answers[p] > 0)
         /\ UNCHANGED <<agentVars, over, readVars, cliVars, mixed>>
<1>1. /\ \E m \in Msgs : Line(p, "ask") \in Range(out[m])
      /\ answers[p] < MaxAnswers /\ Len(pending) < QueueCap
      /\ pending' = Append(pending, p)
      /\ answers' = [answers EXCEPT ![p] = answers[p] + 1]
      /\ spoiled' = (spoiled \/ answers[p] > 0)
      /\ UNCHANGED <<agentVars, over, readVars, cliVars, mixed>>
  BY DEF Respond
<1>2. pending \in Seq(Msgs) /\ answers \in [Msgs -> 0 .. MaxAnswers] /\ answers[p] \in 0 .. MaxAnswers
  BY TypeParts DEF PairT
<1>3. pending' \in Seq(Msgs) /\ Len(pending') <= QueueCap
  BY <1>1, <1>2, BoundsNat
<1>4. answers[p] + 1 \in 0 .. MaxAnswers
  BY <1>1, <1>2, BoundsNat
<1>5. /\ answers' \in [Msgs -> 0 .. MaxAnswers]
      /\ answers'[p] = answers[p] + 1 /\ \A q \in Msgs \ {p} : answers'[q] = answers[q]
  BY <1>1, <1>2, <1>4
<1>6. spoiled' \in BOOLEAN
  BY <1>1
<1>7. AgentT' /\ TurnT' /\ LinesT' /\ CliT' /\ GhostT'
  BY <1>1, <1>6, TypeParts DEF AgentT, TurnT, LinesT, CliT, GhostT, agentVars, readVars, cliVars
<1>8. PairT'
  BY <1>3, <1>5 DEF PairT
<1> QED
  BY <1>1, <1>5, <1>7, <1>8, TypePartsNext

LEMMA AnswerEffect ==
  ASSUME TypeOK, NEW m \in Msgs, Answer(m)
  PROVE  /\ TypeOK' /\ Others(m) /\ turn[m].pc = "wait" /\ turn'[m].pc = "read" /\ turn'[m].ctx = turn[m].ctx
         /\ pending # <<>> /\ pending' = Tail(pending)
         /\ cli'.inbox = cli.inbox /\ cli'.cur = cli.cur /\ cli'.left = cli.left
         /\ cli'.ask = IF proc = "alive" /\ cli.ask = Head(pending) THEN None ELSE cli.ask
         /\ UNCHANGED <<agentVars, over, buf, out, stdout, said, ghostVars>>
<1>1. /\ turn[m].pc = "wait" /\ pending # <<>> /\ pending' = Tail(pending) /\ Goto(m, "read")
      /\ cli' = IF proc = "alive" /\ cli.ask = Head(pending) THEN [cli EXCEPT !.ask = None] ELSE cli
      /\ UNCHANGED <<agentVars, over, buf, out, stdout, said, ghostVars>>
  BY DEF Answer
<1>2. TurnT' /\ Others(m) /\ turn'[m].pc = "read" /\ turn'[m].ctx = turn[m].ctx
  BY <1>1, TypeParts, GotoEffect DEF Pcs
<1>3. CliT /\ PairT
  BY TypeParts
<1>4. /\ CliT' /\ cli'.inbox = cli.inbox /\ cli'.cur = cli.cur /\ cli'.left = cli.left
      /\ cli'.ask = IF proc = "alive" /\ cli.ask = Head(pending) THEN None ELSE cli.ask
  BY <1>1, <1>3 DEF CliT, CliRec
<1>5. PairT'
  <2>1. Tail(pending) \in Seq(Msgs) /\ Len(Tail(pending)) = Len(pending) - 1 /\ Len(pending) \in Nat
    BY <1>1, <1>3 DEF PairT
  <2> QED
    BY <1>1, <1>3, <2>1, BoundsNat DEF PairT, ghostVars
<1>6. AgentT' /\ LinesT' /\ GhostT'
  BY <1>1, TypeParts DEF AgentT, LinesT, GhostT, agentVars, ghostVars
<1> QED
  BY <1>1, <1>2, <1>4, <1>5, <1>6, TypePartsNext

LEMMA GiveUpEffect ==
  ASSUME TypeOK, NEW m \in Msgs, GiveUp(m)
  PROVE  /\ TypeOK' /\ Others(m) /\ turn[m].pc = "wait" /\ turn'[m].pc = "read" /\ turn'[m].ctx = turn[m].ctx
         /\ spoiled'
         /\ UNCHANGED <<agentVars, over, buf, out, cliVars, pending, answers, mixed>>
<1>1. /\ turn[m].pc = "wait" /\ Goto(m, "read") /\ spoiled' = TRUE
      /\ UNCHANGED <<agentVars, over, buf, out, cliVars, pending, answers, mixed>>
  BY DEF GiveUp
<1>2. TurnT' /\ Others(m) /\ turn'[m].pc = "read" /\ turn'[m].ctx = turn[m].ctx
  BY <1>1, TypeParts, GotoEffect DEF Pcs
<1>3. AgentT' /\ LinesT' /\ CliT' /\ PairT' /\ GhostT'
  BY <1>1, TypeParts DEF AgentT, LinesT, CliT, PairT, GhostT, agentVars, cliVars
<1> QED
  BY <1>1, <1>2, <1>3, TypePartsNext

\* Contexts end and the process dies.
Ending ==
  \/ Close \/ Kill
  \/ \E x \in Ctxs : Disconnect(x) \/ HandlerReturns(x)

LEMMA EndingEffect ==
  ASSUME TypeOK, Ending
  PROVE  /\ TypeOK' /\ over \subseteq over' /\ cmd' = cmd
         /\ proc' = proc \/ (proc = "alive" /\ proc' = "dead")
         /\ UNCHANGED <<readVars, cliVars, pending, ghostVars>>
<1>1. UNCHANGED <<cmd, owner, readVars, cliVars, pending, ghostVars>>
  BY DEF Ending, Close, Kill, Disconnect, HandlerReturns, agentVars
<1>2. proc' = proc \/ (proc = "alive" /\ proc' = "dead")
  BY DEF Ending, Close, Kill, Disconnect, HandlerReturns, agentVars
<1>3. closed' \in BOOLEAN
  BY TypeParts DEF AgentT, Ending, Close, Kill, Disconnect, HandlerReturns, agentVars
<1>4. over \subseteq over' /\ over' \in SUBSET Ctxs
  BY TypeParts DEF AgentT, Ending, Close, Kill, Disconnect, HandlerReturns, Ctxs
<1>5. AgentT'
  BY <1>1, <1>2, <1>3, <1>4, TypeParts DEF AgentT
<1>6. TurnT' /\ LinesT' /\ CliT' /\ PairT' /\ GhostT'
  BY <1>1, TypeParts DEF TurnT, LinesT, CliT, PairT, GhostT, readVars, cliVars, ghostVars
<1> QED
  BY <1>1, <1>2, <1>4, <1>5, <1>6, TypePartsNext

LEMMA InterruptEffect ==
  ASSUME TypeOK, Interrupt
  PROVE  /\ TypeOK' /\ proc = "alive" /\ cli.cur # None
         /\ cli'.inbox = cli.inbox /\ cli'.cur = cli.cur /\ cli'.ask = None
         /\ UNCHANGED <<agentVars, over, readVars, stdout, said, pending, ghostVars>>
<1>1. /\ proc = "alive" /\ cli.cur # None /\ cli' = [cli EXCEPT !.left = 0, !.ask = None]
      /\ UNCHANGED <<agentVars, over, readVars, stdout, said, pending, ghostVars>>
  BY DEF Interrupt
<1>2. CliT
  BY TypeParts
<1>5. 0 \in 0 .. MaxLines
  BY BoundsNat
<1>3. CliT' /\ cli'.inbox = cli.inbox /\ cli'.cur = cli.cur /\ cli'.ask = None
  BY <1>1, <1>2, <1>5 DEF CliT, CliRec
<1>4. AgentT' /\ TurnT' /\ LinesT' /\ PairT' /\ GhostT'
  BY <1>1, TypeParts DEF AgentT, TurnT, LinesT, PairT, GhostT, agentVars, readVars, ghostVars
<1> QED
  BY <1>1, <1>3, <1>4, TypePartsNext

LEMMA CliTakeEffect ==
  ASSUME TypeOK, CliTake
  PROVE  /\ TypeOK' /\ proc = "alive" /\ cli.cur = None /\ cli.inbox # <<>>
         /\ cli'.inbox = Tail(cli.inbox) /\ cli'.cur = Head(cli.inbox) /\ cli'.ask = None
         /\ UNCHANGED <<agentVars, over, readVars, stdout, said, pending, ghostVars>>
<1>1. /\ proc = "alive" /\ cli.cur = None /\ cli.inbox # <<>>
      /\ cli' = [inbox |-> Tail(cli.inbox), cur |-> Head(cli.inbox), left |-> MaxLines, ask |-> None]
      /\ UNCHANGED <<agentVars, over, readVars, stdout, said, pending, ghostVars>>
  BY DEF CliTake
<1>2. Tail(cli.inbox) \in Seq(Msgs) /\ Head(cli.inbox) \in Msgs
  BY <1>1, TypeParts, CliParts
<1>3. CliT' /\ cli'.inbox = Tail(cli.inbox) /\ cli'.cur = Head(cli.inbox) /\ cli'.ask = None
  BY <1>1, <1>2, BoundsNat DEF CliT, CliRec
<1>4. AgentT' /\ TurnT' /\ LinesT' /\ PairT' /\ GhostT'
  BY <1>1, TypeParts DEF AgentT, TurnT, LinesT, PairT, GhostT, agentVars, readVars, ghostVars
<1> QED
  BY <1>1, <1>3, <1>4, TypePartsNext

\* One more line: what is said and written, and what becomes of the CLI.
LEMMA CliWriteEffect ==
  ASSUME TypeOK, CliWrite
  PROVE  /\ TypeOK' /\ proc = "alive" /\ cli.cur \in Msgs /\ cli.ask = None
         /\ cli'.inbox = cli.inbox
         /\ \E k \in {"text", "long", "ask", "result"} :
              /\ stdout' = Append(stdout, Line(cli.cur, k))
              /\ said'[cli.cur] = Append(said[cli.cur], Line(cli.cur, k))
              /\ \A n \in Msgs \ {cli.cur} : said'[n] = said[n]
              /\ k # "result" => cli'.cur = cli.cur
              /\ k = "result" => cli'.cur = None /\ cli'.left = 0
              /\ IF k = "ask" THEN cli'.ask = cli.cur /\ Line(cli.cur, "ask") \notin Range(said[cli.cur])
                              ELSE cli'.ask = None
         /\ UNCHANGED <<agentVars, over, readVars, pending, ghostVars>>
<1>0. CliT /\ LinesT
  BY TypeParts
<1>1. PICK c \in Msgs : c = cli.cur
  BY <1>0, CliParts DEF CliWrite
<1>2. proc = "alive" /\ cli.ask = None /\ UNCHANGED <<agentVars, over, readVars, pending, ghostVars>>
  BY DEF CliWrite, Emit
<1>3. PICK k \in {"text", "long", "ask", "result"} :
        /\ Emit(k)
        /\ k \in {"text", "long"} => cli.left > 0 /\ cli' = [cli EXCEPT !.left = cli.left - 1]
        /\ k = "ask" => cli.left > 0 /\ Line(c, "ask") \notin Range(said[c]) /\ cli' = [cli EXCEPT !.left = cli.left - 1, !.ask = c]
        /\ k = "result" => cli' = [cli EXCEPT !.cur = None, !.left = 0]
  BY <1>1 DEF CliWrite
<1>4. Line(c, k) \in Lines
  BY LineType
<1>5. stdout' = Append(stdout, Line(c, k)) /\ said' = [said EXCEPT ![c] = Append(said[c], Line(c, k))]
  BY <1>1, <1>3 DEF Emit
<1>6. Append(said[c], Line(c, k)) \in Seq(Lines) /\ Append(stdout, Line(c, k)) \in Seq(Lines)
  BY <1>0, <1>4 DEF LinesT
<1>7. /\ said' \in [Msgs -> Seq(Lines)]
      /\ said'[c] = Append(said[c], Line(c, k)) /\ \A n \in Msgs \ {c} : said'[n] = said[n]
  BY <1>0, <1>5, <1>6 DEF LinesT
<1>8. LinesT'
  BY <1>0, <1>2, <1>5, <1>6, <1>7 DEF LinesT, readVars
<1>9. cli.left > 0 => cli.left - 1 \in 0 .. MaxLines
  BY <1>0, CliParts, BoundsNat
<1>10. /\ CliT' /\ cli'.inbox = cli.inbox
       /\ k # "result" => cli'.cur = c
       /\ k = "result" => cli'.cur = None /\ cli'.left = 0
       /\ IF k = "ask" THEN cli'.ask = c /\ Line(c, "ask") \notin Range(said[c]) ELSE cli'.ask = None
  <2>1. CASE k \in {"text", "long"}
    <3>1. cli' = [cli EXCEPT !.left = cli.left - 1] /\ cli.left - 1 \in 0 .. MaxLines
      BY <1>3, <1>9, <2>1
    <3>2. CliT' /\ cli'.inbox = cli.inbox /\ cli'.cur = cli.cur /\ cli'.ask = cli.ask
      BY <1>0, <3>1 DEF CliT, CliRec
    <3> QED
      BY <1>1, <1>2, <2>1, <3>2
  <2>2. CASE k = "ask"
    <3>1. cli' = [cli EXCEPT !.left = cli.left - 1, !.ask = c] /\ cli.left - 1 \in 0 .. MaxLines
      BY <1>3, <1>9, <2>2
    <3>2. CliT' /\ cli'.inbox = cli.inbox /\ cli'.cur = cli.cur /\ cli'.ask = c
      BY <1>0, <3>1 DEF CliT, CliRec
    <3> QED
      BY <1>1, <1>3, <2>2, <3>2
  <2>3. CASE k = "result"
    <3>1. cli' = [cli EXCEPT !.cur = None, !.left = 0] /\ 0 \in 0 .. MaxLines
      BY <1>3, <2>3, BoundsNat
    <3>2. CliT' /\ cli'.inbox = cli.inbox /\ cli'.cur = None /\ cli'.left = 0 /\ cli'.ask = cli.ask
      BY <1>0, <3>1 DEF CliT, CliRec
    <3> QED
      BY <1>2, <2>3, <3>2
  <2> QED
    BY <2>1, <2>2, <2>3
<1>11. AgentT' /\ TurnT' /\ PairT' /\ GhostT'
  BY <1>2, TypeParts DEF AgentT, TurnT, PairT, GhostT, agentVars, readVars, ghostVars
<1>12. TypeOK'
  BY <1>8, <1>10, <1>11, TypePartsNext
<1> QED
  BY <1>1, <1>2, <1>5, <1>7, <1>10, <1>12

-----------------------------------------------------------------------------
(* What follows from the invariant.                                        *)

LEMMA LinesParts ==
  ASSUME TypeOK, NEW m \in Msgs
  PROVE  /\ out[m] \in Seq(Lines) /\ buf[m] \in Seq(Lines) /\ said[m] \in Seq(Lines) /\ stdout \in Seq(Lines)
         /\ buf[m] \o stdout \in Seq(Lines)
  BY TypeParts, ConcatProperties DEF LinesT

LEMMA Where ==
  ASSUME TypeOK, NEW m \in Msgs
  PROVE  /\ Unsent(m) \/ Sent(m)
         /\ m \in Active <=> turn[m].pc \in {"read", "wait"}
         /\ Sent(m) => m \in Active \/ turn[m].pc = "closed"
<1>1. turn[m].pc \in Pcs
  BY TypeParts DEF TurnT, TurnRec
<1> QED
  BY <1>1 DEF Unsent, Sent, Active, Pcs

LEMMA OutPrefix ==
  ASSUME IInv, NEW m \in Msgs \ mixed
  PROVE  IsPrefix(out[m], said[m])
<1>1. out[m] \in Seq(Lines) /\ said[m] \in Seq(Lines) /\ buf[m] \o stdout \in Seq(Lines)
  BY LinesParts DEF IInv
<1>2. CASE Unsent(m)
  BY <1>1, <1>2, PrefixEmpty DEF IInv, Rest, Fresh
<1>3. CASE m \in Active
  <2>1. said[m] = out[m] \o (buf[m] \o stdout)
    BY <1>3 DEF IInv, Rest, Follows
  <2> QED
    BY <1>1, <2>1, PrefixConcat
<1>4. CASE turn[m].pc = "closed"
  BY <1>4 DEF IInv, Rest, Ends
<1> QED
  BY <1>2, <1>3, <1>4, Where DEF IInv

LEMMA OnlyOwn ==
  ASSUME IInv, NEW m \in Msgs \ mixed, NEW p \in Msgs, Line(p, "ask") \in Range(out[m])
  PROVE  p = m /\ Line(p, "ask") \in Range(said[m])
<1>1. Line(p, "ask") \in Range(said[m])
  BY OutPrefix, LinesParts, PrefixRange DEF IInv
<1>2. PICK i \in DOMAIN said[m] : said[m][i] = Line(p, "ask")
  BY <1>1 DEF Range
<1> QED
  BY <1>1, <1>2 DEF IInv, Rest, Says, Line

\* Whoever is at work without having been mixed is the only one.
LEMMA Alone ==
  ASSUME IInv, NEW m \in Msgs \ mixed, m \in Active
  PROVE  /\ Active = {m}
         /\ said[m] = out[m] \o (buf[m] \o stdout)
         /\ NoResult(out[m])
         /\ Range(cli.inbox) \subseteq {m} /\ cli.cur \in {m, None}
  BY DEF IInv, Rest, Follows

-----------------------------------------------------------------------------
(* The steps before a message is written.                                  *)

LEMMA UnsentStep ==
  ASSUME IInv, NEW m \in Msgs, Others(m), Unsent(m), Unsent(m)',
         UNCHANGED <<over, buf, out, cliVars, pending, ghostVars>>,
         \/ cmd' = cmd /\ proc' = proc
         \/ cmd = "none" /\ cmd' # "none" /\ proc' \in {proc, "alive"}
  PROVE  Rest'
<1> USE DEF cliVars, ghostVars
<1>0. TypeOK /\ Fresh /\ Started /\ Says /\ Stages /\ Follows /\ Ends /\ Rested /\ Pairs
  BY DEF IInv, Rest
<1>1. /\ \A n \in Msgs : (Unsent(n)' <=> Unsent(n)) /\ (Sent(n)' <=> Sent(n))
      /\ \A n \in Msgs : ~ Unsent(n) => turn'[n] = turn[n]
  BY DEF Others, Unsent, Sent
<1>2. Active' = Active
  BY DEF Others, Unsent, Active
<1>3. \A n \in Msgs : turn'[n].pc \in {"read", "wait", "closed"} => turn'[n] = turn[n]
  BY DEF Others, Unsent
<1>4. proc' = proc \/ (proc = "none" /\ proc' = "alive")
  BY <1>0 DEF Started
<1>5. Fresh'
  BY <1>0, <1>1 DEF Fresh
<1>6. Started' /\ Says'
  BY <1>0, <1>1, <1>4 DEF Started, Says
<1>7. Stages'
  BY <1>0, <1>1 DEF Stages, Waiting, Under, Finished
<1>8. Follows'
  BY <1>0, <1>2 DEF Follows
<1>9. Ends'
  BY <1>0, <1>3, <1>4 DEF Ends, Finished, Started, Unsent, Cut
<1>10. Rested'
  <2>1. ASSUME mixed' = {}, Active' = {}, proc' = "alive",
               \A n \in Msgs : turn'[n].pc = "closed" => turn'[n].ctx \notin over' /\ ~ Cut(n)'
        PROVE  stdout = <<>> /\ cli = AtRest
    <3>1. \A n \in Msgs : turn[n].pc = "closed" => turn'[n] = turn[n]
      BY <1>1 DEF Unsent
    <3>2. \A n \in Msgs : turn[n].pc = "closed" => turn[n].ctx \notin over /\ ~ Cut(n)
      BY <2>1, <3>1 DEF Cut
    <3>3. CASE proc = "alive"
      BY <1>0, <1>2, <2>1, <3>2, <3>3 DEF Rested, RestBetweenTurns, Quiet, Cut
    <3>4. CASE proc = "none"
      BY <1>0, <3>4 DEF Started
    <3> QED
      BY <1>4, <2>1, <3>3, <3>4
  <2>2. RestBetweenTurns'
    BY <1>2, <2>1 DEF RestBetweenTurns, Quiet, AtRest, Cut
  <2>3. cli.cur = None => cli.left = 0 /\ cli.ask = None
    BY <1>0 DEF Rested
  <2> QED
    BY <2>2, <2>3 DEF Rested
<1>11. Pairs'
  <2>1. \A n \in Active : turn'[n] = turn[n]
    BY <1>3 DEF Active, Others, Unsent
  <2>2. proc = "none" => cli.ask = None
    BY <1>0, AtRestType DEF Started
  <2>3. \A n \in Msgs : Line(n, "ask") \in Range(out[n]) => ~ Unsent(n)
    BY <1>0 DEF Fresh, Range
  <2>4. AnswersPair'
    BY <1>0, <1>2, <1>4, <2>1, <2>2 DEF Pairs, AnswersPair
  <2> QED
    BY <1>0, <1>1, <2>3, <2>4 DEF Pairs
<1> QED
  BY <1>5, <1>6, <1>7, <1>8, <1>9, <1>10, <1>11 DEF Rest

LEMMA Parts ==
  ASSUME IInv
  PROVE  TypeOK /\ Fresh /\ Started /\ Says /\ Stages /\ Follows /\ Ends /\ Rested /\ Pairs
  BY DEF IInv, Rest

-----------------------------------------------------------------------------
(* A message is written.                                                   *)

LEMMA NotNone == \A m \in Msgs : m # None
  BY NoneFresh

LEMMA AppendRange ==
  ASSUME NEW s \in Seq(Msgs), NEW m \in Msgs
  PROVE  Range(Append(s, m)) = Range(s) \cup {m}
<1>1. DOMAIN Append(s, m) = DOMAIN s \cup {Len(s) + 1} /\ Append(s, m)[Len(s) + 1] = m
  OBVIOUS
<1>2. \A i \in DOMAIN s : Append(s, m)[i] = s[i]
  OBVIOUS
<1> QED
  BY <1>1, <1>2 DEF Range

LEMMA NoRange ==
  ASSUME NEW s \in Seq(Msgs), Range(s) = {}
  PROVE  s = <<>>
<1>1. \A i \in DOMAIN s : s[i] \in Range(s)
  BY DEF Range
<1>2. DOMAIN s = {}
  BY <1>1
<1> QED
  BY <1>2

\* The agent was at rest: the reader is alone and the CLI has yet to begin.
LEMMA WriteQuiet ==
  ASSUME IInv, NEW m \in Msgs, Write(m), turn'[m].pc = "read", proc = "alive", Quiet,
         cli'.inbox = Append(cli.inbox, m), cli'.cur = cli.cur, cli'.left = cli.left, cli'.ask = cli.ask,
         mixed' = mixed
  PROVE  Rest'
<1>0. TypeOK /\ Fresh /\ Started /\ Says /\ Stages /\ Follows /\ Ends /\ Rested /\ Pairs
  BY Parts
<1>1. /\ Others(m) /\ turn[m].pc = "write"
      /\ cmd' = cmd /\ proc' = proc /\ over' = over /\ buf' = buf /\ out' = out /\ stdout' = stdout
      /\ said' = said /\ pending' = pending /\ answers' = answers /\ spoiled' = spoiled
  BY <1>0, WriteEffect DEF agentVars
<1>2. /\ Active = {} /\ stdout = <<>>
      /\ cli.inbox = <<>> /\ cli.cur = None /\ cli.left = 0 /\ cli.ask = None
  BY AtRestType DEF Quiet
<1>3. cli'.inbox = <<m>> /\ Range(cli'.inbox) = {m} /\ Range(cli.inbox) = {}
  BY <1>2 DEF Range
<1>4. out[m] = <<>> /\ said[m] = <<>> /\ buf[m] = <<>>
  BY <1>0, <1>1 DEF Fresh, Unsent
<1>5. Active' = {m}
  BY <1>1, <1>2 DEF Active, Others
<1>6. \A n \in Msgs \ {m} : (Unsent(n)' <=> Unsent(n)) /\ (Sent(n)' <=> Sent(n)) /\ turn'[n] = turn[n]
  BY <1>1 DEF Others, Unsent, Sent
<1>7. ~ Unsent(m)'
  BY DEF Unsent
<1>8. \A n \in Msgs \ {m} : n \notin mixed /\ Sent(n) => Finished(n)
  BY <1>0, <1>2, NotNone DEF Stages, Waiting, Under
<1>9. \A n \in Msgs \ {m} : Finished(n) => Finished(n)'
  BY <1>1, <1>2, <1>3, NotNone DEF Finished
<1>10. Fresh'
  BY <1>1, <1>2, <1>3, <1>6, <1>7, <1>0, NotNone DEF Fresh
<1>11. Started' /\ Says'
  BY <1>0, <1>1 DEF Started, Says
<1>12. Stages'
  <2>1. Waiting(m)'
    BY <1>1, <1>2, <1>3, <1>4 DEF Waiting
  <2> QED
    BY <1>6, <1>8, <1>9, <2>1 DEF Stages
<1>13. Follows'
  <2>1. said'[m] = out'[m] \o (buf'[m] \o stdout')
    BY <1>1, <1>2, <1>4
  <2>2. NoResult(out[m])
    BY <1>4 DEF NoResult
  <2> QED
    BY <1>1, <1>2, <1>3, <1>5, <2>1, <2>2 DEF Follows, NoResult
<1>14. Ends'
  <2>1. \A n \in Msgs : turn'[n].pc = "closed" => n # m /\ turn[n].pc = "closed" /\ turn'[n] = turn[n]
    BY <1>6
  <2> QED
    BY <1>0, <1>1, <1>9, <2>1 DEF Ends, Cut
<1>15. Rested'
  BY <1>2, <1>5 DEF Rested, RestBetweenTurns, Cut
<1>16. Pairs'
  <2>1. ~ spoiled /\ mixed = {} => Len(pending) = 0
    <3>1. ~ spoiled /\ mixed = {} => DOMAIN pending = {} /\ pending \in Seq(Msgs)
      BY <1>0, <1>2, TypeParts DEF Pairs, AnswersPair, PairT
    <3> QED
      BY <3>1
  <2>2. ~ spoiled /\ mixed = {} => DOMAIN pending = {}
    BY <1>0, <1>2 DEF Pairs, AnswersPair
  <2>3. AnswersPair'
    BY <1>1, <1>2, <2>1, <2>2 DEF AnswersPair
  <2>4. Line(m, "ask") \notin Range(out[m])
    BY <1>4 DEF Range
  <2> QED
    BY <1>0, <1>1, <1>6, <2>2, <2>3, <2>4 DEF Pairs
<1> QED
  BY <1>10, <1>11, <1>12, <1>13, <1>14, <1>15, <1>16 DEF Rest

\* It was not: everybody at work is mixed from now on.
LEMMA WriteMixing ==
  ASSUME IInv, NEW m \in Msgs, Write(m), turn'[m].pc = "read", proc = "alive", ~ Quiet,
         cli'.inbox = Append(cli.inbox, m), cli'.cur = cli.cur, cli'.left = cli.left, cli'.ask = cli.ask,
         mixed' = mixed \cup {m} \cup (Unfinished \ {None})
  PROVE  Rest'
<1>0. TypeOK /\ Fresh /\ Started /\ Says /\ Stages /\ Follows /\ Ends /\ Rested /\ Pairs
  BY Parts
<1>1. /\ Others(m) /\ turn[m].pc = "write"
      /\ cmd' = cmd /\ proc' = proc /\ over' = over /\ buf' = buf /\ out' = out /\ stdout' = stdout
      /\ said' = said /\ pending' = pending /\ answers' = answers /\ spoiled' = spoiled
  BY <1>0, WriteEffect DEF agentVars
<1>2. Range(cli'.inbox) = Range(cli.inbox) \cup {m}
  BY <1>0, TypeParts, CliParts, AppendRange
<1>3. \A n \in Msgs \ mixed' : n # m /\ n \notin mixed /\ n \notin Active /\ n \notin Range(cli.inbox) /\ cli.cur # n
  BY NotNone DEF Unfinished
<1>4. \A n \in Msgs \ {m} : (Unsent(n)' <=> Unsent(n)) /\ (Sent(n)' <=> Sent(n)) /\ turn'[n] = turn[n]
  BY <1>1 DEF Others, Unsent, Sent
<1>5. ~ Unsent(m)' /\ m \in Active'
  BY DEF Unsent, Active
<1>6. \A n \in Msgs \ mixed' : Sent(n) => Finished(n)
  <2> SUFFICES ASSUME NEW n \in Msgs \ mixed', Sent(n) PROVE Finished(n)
    OBVIOUS
  <2>1. ~ Waiting(n)
    BY <1>3 DEF Waiting, Range
  <2>2. ~ Under(n)
    BY <1>3 DEF Under
  <2> QED
    BY <1>0, <1>3, <2>1, <2>2 DEF Stages
<1>7. \A n \in Msgs \ {m} : Finished(n) => Finished(n)'
  BY <1>1, <1>2 DEF Finished
<1>8. Fresh'
  BY <1>0, <1>1, <1>2, <1>4, <1>5 DEF Fresh
<1>9. Started' /\ Says'
  BY <1>0, <1>1 DEF Started, Says
<1>10. Stages'
  BY <1>3, <1>4, <1>6, <1>7 DEF Stages
<1>11. Follows'
  <2>1. \A n \in Msgs \ mixed' : n \notin Active'
    BY <1>3, <1>4 DEF Active
  <2> QED
    BY <2>1 DEF Follows
<1>12. Ends'
  <2>1. \A n \in Msgs \ mixed' : turn'[n] = turn[n] /\ (Finished(n) => Finished(n)')
    BY <1>3, <1>4, <1>7
  <2> QED
    BY <1>0, <1>1, <1>3, <2>1 DEF Ends, Cut
<1>13. Rested'
  BY <1>0, <1>5 DEF Rested, RestBetweenTurns, Cut
<1>14. Pairs'
  <2>1. mixed' # {}
    OBVIOUS
  <2> QED
    BY <1>0, <1>1, <2>1 DEF Pairs, AnswersPair
<1> QED
  BY <1>8, <1>9, <1>10, <1>11, <1>12, <1>13, <1>14 DEF Rest

LEMMA WriteRest ==
  ASSUME IInv, NEW m \in Msgs, Write(m)
  PROVE  Rest'
<1>1. TypeOK
  BY Parts
<1>2. CASE turn'[m].pc = "failed" /\ UNCHANGED <<cli, mixed>>
  <2>1. /\ Others(m) /\ turn[m].pc = "write"
        /\ UNCHANGED <<agentVars, over, buf, out, stdout, said, pending, answers, spoiled>>
    BY <1>1, WriteEffect
  <2>2. Unsent(m) /\ Unsent(m)'
    BY <1>2, <2>1 DEF Unsent
  <2> QED
    BY <1>2, <2>1, <2>2, UnsentStep DEF agentVars, cliVars, ghostVars
<1>3. CASE /\ proc = "alive" /\ turn'[m].pc = "read"
           /\ cli'.inbox = Append(cli.inbox, m) /\ cli'.cur = cli.cur
           /\ cli'.left = cli.left /\ cli'.ask = cli.ask
           /\ mixed' = IF Quiet THEN mixed ELSE mixed \cup {m} \cup (Unfinished \ {None})
  BY <1>3, WriteQuiet, WriteMixing
<1> QED
  BY <1>1, <1>2, <1>3, WriteEffect

-----------------------------------------------------------------------------
(* The reader.                                                             *)

LEMMA FillRest ==
  ASSUME IInv, NEW m \in Msgs, Fill(m)
  PROVE  Rest'
<1>0. TypeOK /\ Fresh /\ Started /\ Says /\ Stages /\ Follows /\ Ends /\ Rested /\ Pairs
  BY Parts
<1>1. /\ turn[m].pc = "read" /\ buf[m] = <<>> /\ buf'[m] \o stdout' = stdout
      /\ \A n \in Msgs \ {m} : buf'[n] = buf[n]
      /\ cmd' = cmd /\ proc' = proc /\ over' = over /\ turn' = turn /\ out' = out /\ cli' = cli
      /\ said' = said /\ pending' = pending /\ answers' = answers /\ mixed' = mixed /\ spoiled' = spoiled
  BY <1>0, FillEffect DEF agentVars, ghostVars
<1>2. m \in Active /\ Active' = Active
  BY <1>1 DEF Active
<1>3. Fresh'
  BY <1>0, <1>1 DEF Fresh, Unsent
<1>4. Started' /\ Says'
  BY <1>0, <1>1 DEF Started, Says, Unsent
<1>5. Stages'
  BY <1>0, <1>1 DEF Stages, Waiting, Under, Finished, Sent
<1>6. Follows'
  <2> SUFFICES ASSUME NEW n \in Msgs \ mixed, n \in Active
               PROVE  Active = {n} /\ said[n] = out[n] \o (buf'[n] \o stdout') /\ NoResult(out[n])
                      /\ Range(cli.inbox) \subseteq {n} /\ cli.cur \in {n, None}
    BY <1>1, <1>2 DEF Follows, NoResult
  <2>1. Active = {n} /\ said[n] = out[n] \o (buf[n] \o stdout) /\ NoResult(out[n])
        /\ Range(cli.inbox) \subseteq {n} /\ cli.cur \in {n, None}
    BY Alone
  <2>2. n = m
    BY <1>2, <2>1
  <2>3. buf[m] \o stdout = stdout
    BY <1>0, <1>1, LinesParts
  <2> QED
    BY <1>1, <2>1, <2>2, <2>3
<1>7. Ends'
  BY <1>0, <1>1 DEF Ends, Finished, Cut
<1>8. Rested'
  BY <1>0, <1>1, <1>2 DEF Rested, RestBetweenTurns, Cut
<1>9. Pairs'
  BY <1>0, <1>1, <1>2 DEF Pairs, AnswersPair
<1> QED
  BY <1>3, <1>4, <1>5, <1>6, <1>7, <1>8, <1>9 DEF Rest

\* What a reader that goes on or leaves keeps in any case.
LEMMA ReaderKeeps ==
  ASSUME IInv, NEW m \in Msgs, turn[m].pc \in {"read", "wait"}, Others(m),
         turn'[m].pc \in {"read", "wait", "closed"}, turn'[m].ctx = turn[m].ctx,
         \A n \in Msgs \ {m} : buf'[n] = buf[n] /\ out'[n] = out[n],
         UNCHANGED <<agentVars, over, cli, said, mixed>>
  PROVE  /\ Fresh' /\ Started' /\ Says' /\ Stages'
         /\ Active' \ {m} = Active \ {m} /\ m \in Active
         /\ \A n \in Msgs \ mixed : n \in Active => n = m
         /\ \A n \in Msgs \ {m} : turn'[n] = turn[n]
<1>0. TypeOK /\ Fresh /\ Started /\ Says /\ Stages /\ Follows /\ Ends /\ Rested /\ Pairs
  BY Parts
<1>1. /\ cmd' = cmd /\ proc' = proc /\ over' = over /\ cli' = cli /\ said' = said
      /\ mixed' = mixed
  BY DEF agentVars
<1>2. \A n \in Msgs \ {m} : turn'[n] = turn[n]
  BY DEF Others
<1>3. m \in Active /\ Active' \ {m} = Active \ {m}
  BY <1>2 DEF Active
<1>4. ~ Unsent(m) /\ ~ Unsent(m)' /\ Sent(m) /\ Sent(m)'
  BY DEF Unsent, Sent
<1>5. \A n \in Msgs : (Unsent(n)' <=> Unsent(n)) /\ (Sent(n)' <=> Sent(n))
  <2>1. \A n \in Msgs \ {m} : (Unsent(n)' <=> Unsent(n)) /\ (Sent(n)' <=> Sent(n))
    BY <1>2 DEF Unsent, Sent
  <2> QED
    BY <1>4, <2>1
<1>6. Fresh'
  BY <1>0, <1>1, <1>4, <1>5 DEF Fresh
<1>7. Started' /\ Says'
  BY <1>0, <1>1, <1>4, <1>5 DEF Started, Says
<1>8. Stages'
  BY <1>0, <1>1, <1>5 DEF Stages, Waiting, Under, Finished
<1>9. \A n \in Msgs \ mixed : n \in Active => n = m
  <2> SUFFICES ASSUME NEW n \in Msgs \ mixed, n \in Active PROVE n = m
    OBVIOUS
  <2>1. Active = {n}
    BY Alone
  <2> QED
    BY <1>3, <2>1
<1> QED
  BY <1>2, <1>3, <1>6, <1>7, <1>8, <1>9

\* The reader of the only message at work has everything the CLI said in sight.
LEMMA InSight ==
  ASSUME IInv, NEW m \in Msgs \ mixed, m \in Active, buf[m] # <<>>
  PROVE  /\ said[m] = Append(out[m], Head(buf[m])) \o (Tail(buf[m]) \o stdout)
         /\ Len(out[m]) + 1 \in DOMAIN said[m] /\ said[m][Len(out[m]) + 1] = Head(buf[m])
         /\ Head(buf[m]) \in Lines /\ Head(buf[m]).of = m
<1>1. out[m] \in Seq(Lines) /\ buf[m] \in Seq(Lines) /\ said[m] \in Seq(Lines) /\ stdout \in Seq(Lines)
  BY Parts, LinesParts
<1>2. said[m] = out[m] \o (buf[m] \o stdout)
  BY Alone
<1>3. said[m] = Append(out[m], Head(buf[m])) \o (Tail(buf[m]) \o stdout)
  BY <1>1, <1>2, MoveLine
<1>4. Head(buf[m]) \in Lines /\ Tail(buf[m]) \in Seq(Lines)
  BY <1>1
<1>5. PICK a \in Seq(Lines) : a = Append(out[m], Head(buf[m]))
  <2>1. \A e \in Lines : Append(out[m], e) \in Seq(Lines)
    BY <1>1
  <2> QED
    BY <1>4, <2>1
<1>6. PICK r \in Seq(Lines) : r = Tail(buf[m]) \o stdout
  BY <1>1, <1>4, ConcatProperties
<1>7. Len(a) = Len(out[m]) + 1 /\ a[Len(out[m]) + 1] = Head(buf[m]) /\ Len(out[m]) + 1 \in 1 .. Len(a)
  BY <1>1, <1>4, <1>5
<1>8. said[m] = a \o r /\ Len(a) \in Nat /\ Len(r) \in Nat
  BY <1>3, <1>5, <1>6
<1>9. Len(out[m]) + 1 \in DOMAIN said[m] /\ said[m][Len(out[m]) + 1] = Head(buf[m])
  <2>1. Len(said[m]) = Len(a) + Len(r) /\ \A i \in 1 .. Len(a) : said[m][i] = a[i]
    BY <1>8, ConcatProperties
  <2> QED
    BY <1>1, <1>7, <1>8, <2>1
<1> QED
  BY <1>3, <1>4, <1>9, Parts DEF Says

\* While a reader reads undisturbed nobody waits and every request it showed
\* has been answered.
LEMMA NobodyWaits ==
  ASSUME IInv, NEW m \in Msgs, turn[m].pc = "read", ~ spoiled, mixed = {}
  PROVE  /\ Active = {m} /\ DOMAIN pending = {} /\ Len(pending) = 0
         /\ \A n \in Msgs : Line(n, "ask") \in Range(out[n]) => answers[n] > 0
<1>0. TypeOK /\ Pairs
  BY Parts
<1>1. Active = {m}
  <2>1. m \in Active
    BY DEF Active
  <2> QED
    BY <2>1, Alone
<1>2. \A n \in Active : turn[n].pc # "wait"
  BY <1>1
<1>3. DOMAIN pending = {}
  BY <1>0, <1>2 DEF Pairs, AnswersPair
<1>4. Len(pending) = 0
  <2>1. pending \in Seq(Msgs)
    BY <1>0, TypeParts DEF PairT
  <2> QED
    BY <1>3, <2>1
<1>5. ASSUME NEW n \in Msgs, Line(n, "ask") \in Range(out[n]) PROVE answers[n] > 0
  <2>1. turn[n].pc # "wait"
    BY <1>2 DEF Active
  <2>2. answers[n] # 0
    BY <1>0, <1>5, <2>1 DEF Pairs
  <2>3. answers[n] \in 0 .. MaxAnswers
    BY <1>0, TypeParts DEF PairT
  <2> QED
    BY <2>2, <2>3, BoundsNat
<1> QED
  BY <1>1, <1>3, <1>4, <1>5

LEMMA ReaderPairs ==
  ASSUME IInv, NEW m \in Msgs, turn[m].pc = "read",
         \A n \in Msgs \ {m} : out'[n] = out[n],
         \/ out'[m] = out[m]
         \/ \E l \in Lines : /\ out'[m] = Append(out[m], l)
                             /\ l.kind = "ask" => turn'[m].pc = "wait"
                             /\ l.kind = "ask" /\ mixed = {} => l = Line(m, "ask"),
         UNCHANGED <<proc, cli, pending, ghostVars>>
  PROVE  Pairs'
<1>0. TypeOK /\ Pairs /\ out[m] \in Seq(Lines)
  BY Parts, LinesParts
<1>1. proc' = proc /\ cli' = cli /\ pending' = pending /\ answers' = answers /\ mixed' = mixed
      /\ spoiled' = spoiled
  BY DEF ghostVars
<1>2. \A n \in Msgs : \A x \in Range(out[n]) : x \in Range(out'[n])
  BY <1>0, RangeAppend
<1>3. \A p \in Msgs : answers'[p] > 0 => \E n \in Msgs : Line(p, "ask") \in Range(out'[n])
  BY <1>0, <1>1, <1>2 DEF Pairs
<1>4. ASSUME ~ spoiled, mixed = {}
      PROVE  /\ \A i \in DOMAIN pending' : answers'[pending'[i]] > 0
             /\ \A n \in Msgs : Line(n, "ask") \in Range(out'[n]) /\ answers'[n] = 0 =>
                  turn'[n].pc = "wait" /\ Last(out'[n]) = Line(n, "ask")
             /\ Len(pending') <= 1
             /\ \A i \in DOMAIN pending' : \E h \in Active' : turn'[h].pc = "wait" /\ Last(out'[h]) = Line(pending'[i], "ask")
             /\ proc' = "alive" /\ cli'.ask # None /\ answers'[cli'.ask] > 0 => pending' = <<cli'.ask>>
  <2>1. DOMAIN pending' = {} /\ Len(pending') <= 1
    BY <1>1, <1>4, NobodyWaits
  <2>2. ASSUME NEW n \in Msgs, Line(n, "ask") \in Range(out'[n]), answers'[n] = 0
        PROVE  turn'[n].pc = "wait" /\ Last(out'[n]) = Line(n, "ask")
    <3>1. Line(n, "ask") \notin Range(out[n])
      BY <1>1, <1>4, <2>2, NobodyWaits
    <3>2. n = m /\ out'[m] # out[m]
      BY <2>2, <3>1
    <3>3. PICK l \in Lines : /\ out'[m] = Append(out[m], l)
                             /\ l.kind = "ask" => turn'[m].pc = "wait"
                             /\ l.kind = "ask" /\ mixed = {} => l = Line(m, "ask")
      BY <3>2
    <3>4. l = Line(n, "ask") /\ Last(out'[m]) = l
      BY <1>0, <2>2, <3>1, <3>2, <3>3, RangeAppend
    <3>5. l.kind = "ask"
      BY <3>4, LineType
    <3> QED
      BY <3>2, <3>3, <3>4, <3>5
  <2>3. proc' = "alive" /\ cli'.ask # None /\ answers'[cli'.ask] > 0 => pending' = <<cli'.ask>>
    BY <1>0, <1>1, <1>4 DEF Pairs, AnswersPair
  <2> QED
    BY <2>1, <2>2, <2>3
<1> QED
  BY <1>1, <1>3, <1>4 DEF Pairs, AnswersPair

\* The reader leaves and tells nothing: its context is over or the CLI is dead.
LEMMA LeaveRest ==
  ASSUME IInv, NEW m \in Msgs, turn[m].pc = "read", Others(m),
         turn'[m].pc = "closed", turn'[m].ctx = turn[m].ctx,
         \A n \in Msgs \ {m} : buf'[n] = buf[n],
         UNCHANGED <<agentVars, over, out, cliVars, pending, ghostVars>>,
         turn[m].ctx \in over \/ proc = "dead"
  PROVE  Rest'
<1>0. TypeOK /\ Fresh /\ Started /\ Says /\ Stages /\ Follows /\ Ends /\ Rested /\ Pairs
  BY Parts
<1>1. /\ proc' = proc /\ over' = over /\ out' = out /\ stdout' = stdout /\ cli' = cli /\ said' = said
      /\ pending' = pending /\ answers' = answers /\ mixed' = mixed /\ spoiled' = spoiled
  BY DEF agentVars, cliVars, ghostVars
<1>2. /\ Fresh' /\ Started' /\ Says' /\ Stages'
      /\ Active' \ {m} = Active \ {m} /\ m \in Active
      /\ \A n \in Msgs \ mixed : n \in Active => n = m
      /\ \A n \in Msgs \ {m} : turn'[n] = turn[n]
  BY <1>1, ReaderKeeps
<1>3. m \notin Active'
  BY DEF Active
<1>4. Follows'
  BY <1>1, <1>2, <1>3 DEF Follows
<1>5. Ends'
  <2> SUFFICES ASSUME NEW n \in Msgs \ mixed, turn'[n].pc = "closed"
               PROVE  /\ IsPrefix(out[n], said[n])
                      /\ turn'[n].ctx \notin over /\ proc = "alive" => (Finished(n) /\ out[n] = said[n]) \/ Cut(n)
    BY <1>1 DEF Ends, Finished, Cut
  <2>1. CASE n = m
    BY <2>1, OutPrefix
  <2>2. CASE n # m
    BY <1>0, <1>2, <2>2 DEF Ends, Cut
  <2> QED
    BY <2>1, <2>2
<1>6. Rested'
  BY <1>0, <1>1 DEF Rested, RestBetweenTurns, Cut
<1>7. Pairs'
  BY <1>1, ReaderPairs
<1> QED
  BY <1>2, <1>4, <1>5, <1>6, <1>7 DEF Rest

LEMMA EndOfFileRest ==
  ASSUME IInv, NEW m \in Msgs, EndOfFile(m)
  PROVE  Rest'
  BY Parts, EndOfFileEffect, LeaveRest

LEMMA SkipLineRest ==
  ASSUME IInv, NEW m \in Msgs, SkipLine(m)
  PROVE  Rest'
  BY Parts, SkipLineEffect, LeaveRest

\* A line too long: what the reader sent is a part of what the CLI said, and
\* the last of it tells.
LEMMA ScanFailsRest ==
  ASSUME IInv, NEW m \in Msgs, ScanFails(m)
  PROVE  Rest'
<1>0. TypeOK /\ Fresh /\ Started /\ Says /\ Stages /\ Follows /\ Ends /\ Rested /\ Pairs
  BY Parts
<1>1. /\ Others(m) /\ turn[m].pc = "read" /\ buf[m] = <<>>
      /\ turn'[m].pc = "closed" /\ turn'[m].ctx = turn[m].ctx
      /\ stdout # <<>> /\ Head(stdout) \in Lines /\ Head(stdout).kind = "long"
      /\ out'[m] = Append(out[m], Head(stdout))
      /\ \A n \in Msgs \ {m} : buf'[n] = buf[n] /\ out'[n] = out[n]
      /\ UNCHANGED <<agentVars, over, cli, said, pending, ghostVars>>
  BY <1>0, ScanFailsEffect
<1>2. /\ proc' = proc /\ over' = over /\ cli' = cli /\ said' = said
      /\ pending' = pending /\ answers' = answers /\ mixed' = mixed /\ spoiled' = spoiled
  BY <1>1 DEF agentVars, ghostVars
<1>3. /\ Fresh' /\ Started' /\ Says' /\ Stages'
      /\ Active' \ {m} = Active \ {m} /\ m \in Active
      /\ \A n \in Msgs \ mixed : n \in Active => n = m
      /\ \A n \in Msgs \ {m} : turn'[n] = turn[n]
  BY <1>1, <1>2, ReaderKeeps
<1>4. m \notin Active'
  BY <1>1 DEF Active
<1>5. /\ out[m] \in Seq(Lines) /\ stdout \in Seq(Lines) /\ said[m] \in Seq(Lines)
      /\ Tail(stdout) \in Seq(Lines) /\ Append(out[m], Head(stdout)) \in Seq(Lines)
  <2>1. out[m] \in Seq(Lines) /\ stdout \in Seq(Lines) /\ said[m] \in Seq(Lines)
    BY <1>0, LinesParts
  <2>2. Tail(stdout) \in Seq(Lines)
    BY <1>1, <2>1
  <2>3. \A e \in Lines : Append(out[m], e) \in Seq(Lines)
    BY <2>1
  <2> QED
    BY <1>1, <2>1, <2>2, <2>3
<1>6. Cut(m)'
  <2>1. \A e \in Lines : Append(out[m], e) # <<>> /\ Last(Append(out[m], e)) = e
    BY <1>5, RangeAppend
  <2> QED
    BY <1>1, <2>1 DEF Cut
<1>7. m \notin mixed => IsPrefix(out'[m], said[m])
  <2> SUFFICES ASSUME m \notin mixed PROVE IsPrefix(out'[m], said[m])
    OBVIOUS
  <2>1. said[m] = out[m] \o (buf[m] \o stdout)
    BY <1>3, Alone
  <2>2. PICK e \in Seq(Lines) : e = <<>>
    <3>1. <<>> \in Seq(Lines)
      OBVIOUS
    <3> QED
      BY <3>1
  <2>3. buf[m] \o stdout = stdout /\ stdout \o e = stdout
    BY <1>1, <1>5, <2>2
  <2>4. out[m] \o (stdout \o e) = Append(out[m], Head(stdout)) \o (Tail(stdout) \o e)
    BY <1>1, <1>5, <2>2, MoveLine
  <2>5. Tail(stdout) \o e \in Seq(Lines)
    BY <1>5, ConcatProperties
  <2>6. IsPrefix(Append(out[m], Head(stdout)), Append(out[m], Head(stdout)) \o (Tail(stdout) \o e))
    BY <1>5, <2>5, PrefixConcat
  <2> QED
    BY <1>1, <2>1, <2>3, <2>4, <2>6
<1>8. Follows'
  BY <1>2, <1>3, <1>4 DEF Follows
<1>9. Ends'
  <2> SUFFICES ASSUME NEW n \in Msgs \ mixed, turn'[n].pc = "closed"
               PROVE  /\ IsPrefix(out'[n], said[n])
                      /\ turn'[n].ctx \notin over /\ proc = "alive" => (Finished(n) /\ out'[n] = said[n]) \/ Cut(n)'
    BY <1>2 DEF Ends, Finished
  <2>1. CASE n = m
    BY <1>6, <1>7, <2>1
  <2>2. CASE n # m
    BY <1>0, <1>1, <1>3, <2>2 DEF Ends, Cut
  <2> QED
    BY <2>1, <2>2
<1>10. Rested'
  BY <1>0, <1>1, <1>2, <1>6 DEF Rested, RestBetweenTurns
<1>11. Pairs'
  BY <1>1, <1>2, ReaderPairs
<1> QED
  BY <1>3, <1>8, <1>9, <1>10, <1>11 DEF Rest

\* A line of text, or a request, goes to the channel.
LEMMA ScanOn ==
  ASSUME IInv, NEW m \in Msgs, ScanLine(m), turn'[m].pc \in {"read", "wait"},
         out'[m] = Append(out[m], Head(buf[m])), buf'[m] = Tail(buf[m]),
         Head(buf[m]).kind # "result", Head(buf[m]).kind = "ask" => turn'[m].pc = "wait"
  PROVE  Rest'
<1>0. TypeOK /\ Fresh /\ Started /\ Says /\ Stages /\ Follows /\ Ends /\ Rested /\ Pairs
  BY Parts
<1>1. /\ Others(m) /\ turn[m].pc = "read" /\ buf[m] # <<>> /\ turn'[m].ctx = turn[m].ctx
      /\ \A n \in Msgs \ {m} : buf'[n] = buf[n] /\ out'[n] = out[n]
      /\ UNCHANGED <<agentVars, over, cliVars, pending, ghostVars>>
  BY <1>0, ScanLineEffect
<1>2. /\ proc' = proc /\ over' = over /\ stdout' = stdout /\ cli' = cli /\ said' = said
      /\ pending' = pending /\ answers' = answers /\ mixed' = mixed /\ spoiled' = spoiled
  BY <1>1 DEF agentVars, cliVars, ghostVars
<1>3. /\ Fresh' /\ Started' /\ Says' /\ Stages'
      /\ Active' \ {m} = Active \ {m} /\ m \in Active
      /\ \A n \in Msgs \ mixed : n \in Active => n = m
      /\ \A n \in Msgs \ {m} : turn'[n] = turn[n]
  BY <1>1, <1>2, ReaderKeeps
<1>4. m \in Active' /\ Active' = Active
  BY <1>3 DEF Active
<1>5. out[m] \in Seq(Lines) /\ buf[m] \in Seq(Lines) /\ Head(buf[m]) \in Lines
  BY <1>0, <1>1, LinesParts
<1>6. Follows'
  <2>1. ASSUME m \notin mixed
        PROVE  /\ Active = {m}
               /\ said[m] = out'[m] \o (buf'[m] \o stdout)
               /\ \A i \in DOMAIN out'[m] : out'[m][i].kind # "result"
               /\ Range(cli.inbox) \subseteq {m} /\ cli.cur \in {m, None}
    <3>0. said[m] = Append(out[m], Head(buf[m])) \o (Tail(buf[m]) \o stdout)
      BY <1>1, <1>3, <2>1, InSight
    <3>1. said[m] = out'[m] \o (buf'[m] \o stdout)
      BY <3>0
    <3>2. /\ Active = {m} /\ NoResult(out[m])
          /\ Range(cli.inbox) \subseteq {m} /\ cli.cur \in {m, None}
      BY <1>3, <2>1, Alone
    <3>3. \A i \in DOMAIN out'[m] : out'[m][i].kind # "result"
      <4>1. \A e \in Lines : \A i \in DOMAIN Append(out[m], e) :
              Append(out[m], e)[i] = e \/ (i \in DOMAIN out[m] /\ Append(out[m], e)[i] = out[m][i])
        BY <1>5
      <4> QED
        BY <1>5, <3>2, <4>1 DEF NoResult
    <3> QED
      BY <3>1, <3>2, <3>3
  <2> QED
    BY <1>2, <1>3, <1>4, <2>1 DEF Follows, NoResult
<1>7. Ends'
  <2>1. \A n \in Msgs : turn'[n].pc = "closed" => n # m /\ turn'[n] = turn[n] /\ out'[n] = out[n]
    BY <1>1, <1>3
  <2> QED
    BY <1>0, <1>2, <2>1 DEF Ends, Finished, Cut
<1>8. Rested'
  BY <1>0, <1>2, <1>4 DEF Rested, RestBetweenTurns, Cut
<1>9. Pairs'
  <2>1. Head(buf[m]).kind = "ask" /\ mixed = {} => Head(buf[m]) = Line(m, "ask")
    <3>1. mixed = {} => Head(buf[m]).of = m
      BY <1>1, <1>3, InSight
    <3> QED
      BY <1>5, <3>1 DEF Lines, Line
  <2> QED
    BY <1>1, <1>2, <1>5, <2>1, ReaderPairs
<1> QED
  BY <1>3, <1>6, <1>7, <1>8, <1>9 DEF Rest

\* The result: it is the last line, and the reader has sent all of them.
LEMMA ScanResult ==
  ASSUME IInv, NEW m \in Msgs, ScanLine(m), turn'[m].pc = "closed",
         out'[m] = Append(out[m], Head(buf[m])), buf'[m] = <<>>,
         Head(buf[m]).kind = "result"
  PROVE  Rest'
<1>0. TypeOK /\ Fresh /\ Started /\ Says /\ Stages /\ Follows /\ Ends /\ Rested /\ Pairs
  BY Parts
<1>1. /\ Others(m) /\ turn[m].pc = "read" /\ buf[m] # <<>> /\ turn'[m].ctx = turn[m].ctx
      /\ \A n \in Msgs \ {m} : buf'[n] = buf[n] /\ out'[n] = out[n]
      /\ UNCHANGED <<agentVars, over, cliVars, pending, ghostVars>>
  BY <1>0, ScanLineEffect
<1>2. /\ proc' = proc /\ over' = over /\ stdout' = stdout /\ cli' = cli /\ said' = said
      /\ pending' = pending /\ answers' = answers /\ mixed' = mixed /\ spoiled' = spoiled
  BY <1>1 DEF agentVars, cliVars, ghostVars
<1>3. /\ Fresh' /\ Started' /\ Says' /\ Stages'
      /\ Active' \ {m} = Active \ {m} /\ m \in Active
      /\ \A n \in Msgs \ mixed : n \in Active => n = m
      /\ \A n \in Msgs \ {m} : turn'[n] = turn[n]
  BY <1>1, <1>2, ReaderKeeps
<1>4. m \notin Active'
  BY DEF Active
<1>5. out[m] \in Seq(Lines) /\ buf[m] \in Seq(Lines) /\ Head(buf[m]) \in Lines /\ Tail(buf[m]) \in Seq(Lines)
      /\ said[m] \in Seq(Lines) /\ stdout \in Seq(Lines)
  BY <1>0, <1>1, LinesParts
<1>6. ASSUME m \notin mixed
      PROVE  Finished(m) /\ said[m] = out'[m] /\ stdout = <<>> /\ Active = {m}
             /\ Range(cli.inbox) \subseteq {m} /\ cli.cur \in {m, None}
  <2>1. /\ said[m] = out'[m] \o (Tail(buf[m]) \o stdout)
        /\ Len(out[m]) + 1 \in DOMAIN said[m] /\ said[m][Len(out[m]) + 1].kind = "result"
    BY <1>3, <1>1, <1>6, InSight
  <2>2. Active = {m} /\ Range(cli.inbox) \subseteq {m} /\ cli.cur \in {m, None}
    BY <1>3, <1>6, Alone
  <2>3. Sent(m)
    BY <1>1 DEF Sent
  <2>4. Finished(m)
    <3>1. said[m] # <<>>
      BY <2>1
    <3> QED
      BY <1>0, <1>6, <2>1, <2>3, <3>1 DEF Stages, Waiting, Under, NoResult
  <2>5. Len(said[m]) = Len(out[m]) + 1
    BY <2>1, <2>4 DEF Finished
  <2>6. PICK r \in Seq(Lines) : r = Tail(buf[m]) \o stdout
    BY <1>5, ConcatProperties
  <2>7. Len(r) = Len(Tail(buf[m])) + Len(stdout)
    BY <1>5, <2>6, ConcatProperties
  <2>8. \A e \in Lines : Append(out[m], e) \in Seq(Lines) /\ Len(Append(out[m], e)) = Len(out[m]) + 1
    BY <1>5
  <2>9. out'[m] \in Seq(Lines) /\ Len(out'[m]) = Len(out[m]) + 1
    BY <1>5, <2>8
  <2>10. said[m] = out'[m] \o r /\ Len(said[m]) = Len(out'[m]) + Len(r)
    BY <2>1, <2>6, <2>9, ConcatProperties
  <2>11. Len(r) = 0 /\ Len(stdout) = 0
    BY <1>5, <2>5, <2>7, <2>9, <2>10
  <2>12. r = <<>> /\ stdout = <<>>
    BY <1>5, <2>11
  <2>13. said[m] = out'[m]
    BY <2>9, <2>10, <2>12
  <2> QED
    BY <2>2, <2>4, <2>12, <2>13
<1>7. Follows'
  BY <1>2, <1>3, <1>4 DEF Follows
<1>8. Ends'
  <2> SUFFICES ASSUME NEW n \in Msgs \ mixed, turn'[n].pc = "closed"
               PROVE  /\ IsPrefix(out'[n], said[n])
                      /\ turn'[n].ctx \notin over /\ proc = "alive" => (Finished(n) /\ out'[n] = said[n]) \/ Cut(n)'
    BY <1>2 DEF Ends, Finished, Cut
  <2>1. CASE n = m
    BY <1>5, <1>6, <2>1, PrefixSelf
  <2>2. CASE n # m
    BY <1>0, <1>1, <1>3, <2>2 DEF Ends, Cut
  <2> QED
    BY <2>1, <2>2
<1>9. Rested'
  <2>1. ASSUME mixed = {}
        PROVE  stdout = <<>> /\ cli = AtRest /\ Active' = {}
    <3>1. Finished(m) /\ stdout = <<>> /\ Active = {m}
          /\ Range(cli.inbox) \subseteq {m} /\ cli.cur \in {m, None}
      BY <1>6, <2>1
    <3>2. cli.cur = None /\ Range(cli.inbox) = {} /\ cli.left = 0 /\ cli.ask = None
      BY <1>0, <3>1 DEF Finished, Rested
    <3>3. cli.inbox = <<>>
      BY <1>0, <3>2, TypeParts, CliParts, NoRange
    <3>4. cli = AtRest
      BY <1>0, <3>2, <3>3, TypeParts, AtRestParts
    <3> QED
      BY <1>3, <1>4, <3>1, <3>4
  <2>2. RestBetweenTurns'
    BY <1>2, <2>1 DEF RestBetweenTurns, Quiet, AtRest, Cut
  <2> QED
    BY <1>0, <1>2, <2>2 DEF Rested
<1>10. Pairs'
  BY <1>1, <1>2, <1>5, ReaderPairs
<1> QED
  BY <1>3, <1>7, <1>8, <1>9, <1>10 DEF Rest

LEMMA ScanLineRest ==
  ASSUME IInv, NEW m \in Msgs, ScanLine(m)
  PROVE  Rest'
<1>1. TypeOK
  BY Parts
<1>2. /\ Others(m) /\ turn[m].pc = "read" /\ turn'[m].ctx = turn[m].ctx
      /\ \A n \in Msgs \ {m} : buf'[n] = buf[n]
      /\ UNCHANGED <<agentVars, over, cliVars, pending, ghostVars>>
  BY <1>1, ScanLineEffect
<1>3. CASE turn[m].ctx \in over /\ turn'[m].pc = "closed" /\ out' = out
  BY <1>2, <1>3, LeaveRest
<1>4. CASE /\ out'[m] = Append(out[m], Head(buf[m]))
           /\ \/ Head(buf[m]).kind = "text" /\ turn'[m].pc = "read" /\ buf'[m] = Tail(buf[m])
              \/ Head(buf[m]).kind = "ask"  /\ turn'[m].pc = "wait" /\ buf'[m] = Tail(buf[m])
  BY <1>4, ScanOn
<1>5. CASE /\ out'[m] = Append(out[m], Head(buf[m]))
           /\ Head(buf[m]).kind = "result" /\ turn'[m].pc = "closed" /\ buf'[m] = <<>>
  BY <1>5, ScanResult
<1> QED
  BY <1>1, <1>3, <1>4, <1>5, ScanLineEffect

-----------------------------------------------------------------------------
(* The user's answers.                                                     *)

\* The reader of an undisturbed turn waits for the request in the queue only.
LEMMA Queued ==
  ASSUME IInv, ~ spoiled, mixed = {}, NEW i \in DOMAIN pending
  PROVE  /\ pending = <<pending[i]>> /\ pending[i] \in Msgs /\ answers[pending[i]] > 0
         /\ \E m \in Msgs : Active = {m} /\ turn[m].pc = "wait" /\ Last(out[m]) = Line(pending[i], "ask")
<1>1. TypeOK /\ Pairs
  BY Parts
<1>2. pending \in Seq(Msgs)
  BY <1>1, TypeParts DEF PairT
<1>3. Len(pending) <= 1 /\ answers[pending[i]] > 0
      /\ \E m \in Active : turn[m].pc = "wait" /\ Last(out[m]) = Line(pending[i], "ask")
  BY <1>1 DEF Pairs, AnswersPair
<1>4. pending = <<pending[i]>> /\ pending[i] \in Msgs
  <2>1. Len(pending) = 1 /\ i = 1
    <3>1. DOMAIN pending = 1 .. Len(pending) /\ Len(pending) \in Nat
      BY <1>2
    <3>2. i \in 1 .. Len(pending)
      BY <3>1
    <3> QED
      BY <1>3, <3>1, <3>2
  <2>2. \A s \in Seq(Msgs) : Len(s) = 1 => s = <<s[1]>> /\ s[1] \in Msgs
    <3> SUFFICES ASSUME NEW s \in Seq(Msgs), Len(s) = 1 PROVE s = <<s[1]>> /\ s[1] \in Msgs
      OBVIOUS
    <3>0. \A j \in 1 .. Len(s) : s[j] \in Msgs
      BY ElementOfSeq
    <3>1. s[1] \in Msgs
      <4>1. 1 \in 1 .. Len(s)
        OBVIOUS
      <4> QED
        BY <3>0, <4>1
    <3>2. PICK t \in Seq(Msgs) : t = <<s[1]>>
      BY <3>1
    <3>3. Len(t) = 1 /\ t[1] = s[1]
      BY <3>1, <3>2
    <3>4. s = t
      BY <3>3, SeqEqual
    <3> QED
      BY <3>1, <3>2, <3>4
  <2> QED
    BY <1>2, <2>1, <2>2
<1>5. PICK m \in Active : turn[m].pc = "wait" /\ Last(out[m]) = Line(pending[i], "ask")
  BY <1>3
<1>6. m \in Msgs \ mixed
  BY DEF Active
<1>7. Active = {m}
  BY <1>5, <1>6, Alone
<1> QED
  BY <1>3, <1>4, <1>5, <1>6, <1>7

LEMMA LineSame ==
  ASSUME NEW p \in Msgs, NEW q \in Msgs, Line(p, "ask") = Line(q, "ask")
  PROVE  p = q
  BY DEF Line

LEMMA RespondRest ==
  ASSUME IInv, NEW p \in Msgs, Respond(p)
  PROVE  Rest'
<1>0. TypeOK /\ Fresh /\ Started /\ Says /\ Stages /\ Follows /\ Ends /\ Rested /\ Pairs
  BY Parts
<1>1. /\ \E m \in Msgs : Line(p, "ask") \in Range(out[m])
      /\ pending' = Append(pending, p)
      /\ answers'[p] = answers[p] + 1 /\ \A q \in Msgs \ {p} : answers'[q] = answers[q]
      /\ spoiled' = (spoiled \/ answers[p] > 0)
      /\ UNCHANGED <<agentVars, over, readVars, cliVars, mixed>>
  BY <1>0, RespondEffect
<1>2. /\ cmd' = cmd /\ proc' = proc /\ over' = over /\ turn' = turn /\ buf' = buf /\ out' = out
      /\ stdout' = stdout /\ cli' = cli /\ said' = said /\ mixed' = mixed
  BY <1>1 DEF agentVars, readVars, cliVars
<1>3. pending \in Seq(Msgs) /\ \A q \in Msgs : answers[q] \in Nat
  BY <1>0, TypeParts, BoundsNat DEF PairT
<1>4. Fresh' /\ Started' /\ Says'
  BY <1>0, <1>2 DEF Fresh, Started, Says, Unsent
<1>5. Stages' /\ Ends'
  BY <1>0, <1>2 DEF Stages, Ends, Waiting, Under, Finished, Sent, Cut
<1>6. Active' = Active
  BY <1>2 DEF Active
<1>7. Follows' /\ Rested'
  BY <1>0, <1>2, <1>6 DEF Follows, NoResult, Rested, RestBetweenTurns, Quiet, AtRest, Cut
<1>8. \A q \in Msgs : answers'[q] > 0 => q = p \/ answers[q] > 0
  BY <1>1
<1>9. \A q \in Msgs : answers[q] > 0 => answers'[q] > 0
  BY <1>1, <1>3
<1>10. answers'[p] > 0
  BY <1>1, <1>3
<1>11. \A q \in Msgs : answers'[q] > 0 => \E m \in Msgs : Line(q, "ask") \in Range(out'[m])
  BY <1>0, <1>1, <1>2, <1>8 DEF Pairs
<1>12. ASSUME ~ spoiled', mixed = {}
       PROVE  /\ pending' = <<p>>
              /\ \A m \in Msgs : Line(m, "ask") \in Range(out[m]) /\ answers'[m] = 0 =>
                   turn[m].pc = "wait" /\ Last(out[m]) = Line(m, "ask")
              /\ p \in Active /\ turn[p].pc = "wait" /\ Last(out[p]) = Line(p, "ask")
              /\ proc = "alive" /\ cli.ask # None /\ answers'[cli.ask] > 0 => cli.ask = p
  <2>1. ~ spoiled /\ answers[p] = 0
    <3>1. ~ spoiled /\ ~ (answers[p] > 0)
      BY <1>1, <1>12, Zenon
    <3> QED
      BY <1>3, <3>1
  <2>2. Line(p, "ask") \in Range(out[p])
    <3>1. PICK m \in Msgs \ mixed : Line(p, "ask") \in Range(out[m])
      BY <1>1, <1>12
    <3> QED
      BY <3>1, OnlyOwn
  <2>3. turn[p].pc = "wait" /\ Last(out[p]) = Line(p, "ask")
    BY <1>0, <1>12, <2>1, <2>2 DEF Pairs
  <2>4. p \in Active
    BY <2>3 DEF Active
  <2>5. DOMAIN pending = {}
    <3> SUFFICES ASSUME NEW i \in DOMAIN pending PROVE FALSE
      OBVIOUS
    <3>1. /\ pending[i] \in Msgs /\ answers[pending[i]] > 0
          /\ \E m \in Msgs : Active = {m} /\ turn[m].pc = "wait" /\ Last(out[m]) = Line(pending[i], "ask")
      BY <1>12, <2>1, Queued
    <3>2. Last(out[p]) = Line(pending[i], "ask")
      BY <2>4, <3>1
    <3>3. pending[i] = p
      BY <2>3, <3>1, <3>2, LineSame
    <3> QED
      BY <2>1, <3>1, <3>3
  <2>6. pending = <<>>
    BY <1>3, <2>5
  <2>7. pending' = <<p>>
    BY <1>1, <2>6
  <2>8. ASSUME proc = "alive", cli.ask # None, answers'[cli.ask] > 0, cli.ask # p PROVE FALSE
    <3>1. cli.ask \in Msgs
      BY <1>0, <2>8, TypeParts, CliParts
    <3>2. pending = <<cli.ask>>
      BY <1>0, <1>8, <1>12, <2>1, <2>8, <3>1 DEF Pairs, AnswersPair
    <3> QED
      BY <2>6, <3>2
  <2>9. \A m \in Msgs : answers'[m] = 0 => m # p /\ answers[m] = 0
    BY <1>1, <1>10
  <2> QED
    BY <1>0, <1>12, <2>1, <2>3, <2>4, <2>7, <2>8, <2>9 DEF Pairs
<1>13. ~ spoiled' /\ mixed' = {} =>
         /\ \A i \in DOMAIN pending' : answers'[pending'[i]] > 0
         /\ Len(pending') <= 1
         /\ \A i \in DOMAIN pending' : \E m \in Active' : turn'[m].pc = "wait" /\ Last(out'[m]) = Line(pending'[i], "ask")
  <2>1. Len(<<p>>) <= 1 /\ \A i \in DOMAIN <<p>> : <<p>>[i] = p
    OBVIOUS
  <2> QED
    BY <1>2, <1>6, <1>10, <1>12, <2>1
<1>14. Pairs'
  BY <1>2, <1>11, <1>12, <1>13 DEF Pairs, AnswersPair
<1> QED
  BY <1>4, <1>5, <1>7, <1>14 DEF Rest

\* The reader goes on after a wait.
LEMMA WaitOver ==
  ASSUME IInv, NEW m \in Msgs, turn[m].pc = "wait", Others(m), turn'[m].pc = "read", turn'[m].ctx = turn[m].ctx,
         UNCHANGED <<agentVars, over, buf, out, stdout, said, mixed>>,
         cli'.inbox = cli.inbox, cli'.cur = cli.cur, cli'.left = cli.left, cli'.ask \in {cli.ask, None}
  PROVE  /\ Fresh' /\ Started' /\ Says' /\ Stages' /\ Follows' /\ Ends' /\ Rested'
         /\ Active' = Active /\ \A n \in Msgs \ {m} : turn'[n] = turn[n]
<1>0. TypeOK /\ Fresh /\ Started /\ Says /\ Stages /\ Follows /\ Ends /\ Rested /\ Pairs
  BY Parts
<1>1. /\ cmd' = cmd /\ proc' = proc /\ over' = over /\ buf' = buf /\ out' = out
      /\ stdout' = stdout /\ said' = said /\ mixed' = mixed
  BY DEF agentVars
<1>2. \A n \in Msgs \ {m} : turn'[n] = turn[n]
  BY DEF Others
<1>3. m \in Active /\ Active' = Active
  BY <1>2 DEF Active
<1>4. \A n \in Msgs : (Unsent(n)' <=> Unsent(n)) /\ (Sent(n)' <=> Sent(n))
  <2>1. \A n \in Msgs \ {m} : (Unsent(n)' <=> Unsent(n)) /\ (Sent(n)' <=> Sent(n))
    BY <1>2 DEF Unsent, Sent
  <2>2. ~ Unsent(m) /\ ~ Unsent(m)' /\ Sent(m) /\ Sent(m)'
    BY DEF Unsent, Sent
  <2> QED
    BY <2>1, <2>2
<1>5. ~ Unsent(m) /\ proc # "none"
  BY <1>0 DEF Started, Unsent
<1>6. Fresh' /\ Started' /\ Says'
  BY <1>0, <1>1, <1>4, <1>5 DEF Fresh, Started, Says
<1>7. Stages'
  BY <1>0, <1>1, <1>4 DEF Stages, Waiting, Under, Finished
<1>8. Follows'
  <2> SUFFICES ASSUME NEW n \in Msgs \ mixed, n \in Active
               PROVE  Active = {n} /\ said[n] = out[n] \o (buf[n] \o stdout) /\ NoResult(out[n])
                      /\ Range(cli.inbox) \subseteq {n} /\ cli.cur \in {n, None}
    <3>1. \A n \in Msgs : NoResult(out[n])' <=> NoResult(out[n])
      BY <1>1 DEF NoResult
    <3>2. Range(cli.inbox)' = Range(cli.inbox)
      OBVIOUS
    <3>3. Follows' <=>
            \A n \in Msgs \ mixed : n \in Active =>
              /\ Active = {n} /\ said[n] = out[n] \o (buf[n] \o stdout) /\ NoResult(out[n])
              /\ Range(cli.inbox) \subseteq {n} /\ cli.cur \in {n, None}
      BY <1>1, <1>3, <3>1, <3>2 DEF Follows
    <3> QED
      BY <3>3
  <2> QED
    BY Alone
<1>9. Ends'
  <2>1. \A n \in Msgs : turn'[n].pc = "closed" => turn'[n] = turn[n]
    BY <1>2
  <2> QED
    BY <1>0, <1>1, <2>1 DEF Ends, Finished, Cut
<1>10. Rested'
  BY <1>0, <1>3 DEF Rested, RestBetweenTurns, Cut
<1> QED
  BY <1>2, <1>3, <1>6, <1>7, <1>8, <1>9, <1>10

LEMMA AnswerRest ==
  ASSUME IInv, NEW m \in Msgs, Answer(m)
  PROVE  Rest'
<1>0. TypeOK /\ Pairs
  BY Parts
<1>1. /\ Others(m) /\ turn[m].pc = "wait" /\ turn'[m].pc = "read" /\ turn'[m].ctx = turn[m].ctx
      /\ pending # <<>> /\ pending' = Tail(pending)
      /\ cli'.inbox = cli.inbox /\ cli'.cur = cli.cur /\ cli'.left = cli.left
      /\ cli'.ask = IF proc = "alive" /\ cli.ask = Head(pending) THEN None ELSE cli.ask
      /\ UNCHANGED <<agentVars, over, buf, out, stdout, said, ghostVars>>
  BY <1>0, AnswerEffect
<1>2. /\ proc' = proc /\ out' = out /\ answers' = answers /\ mixed' = mixed /\ spoiled' = spoiled
  BY <1>1 DEF agentVars, ghostVars
<1>3. cli'.ask \in {cli.ask, None}
  BY <1>1
<1>4. /\ Fresh' /\ Started' /\ Says' /\ Stages' /\ Follows' /\ Ends' /\ Rested'
      /\ Active' = Active /\ \A n \in Msgs \ {m} : turn'[n] = turn[n]
  BY <1>1, <1>2, <1>3, WaitOver
<1>5. ASSUME ~ spoiled, mixed = {}
      PROVE  /\ pending' = <<>>
             /\ \A n \in Msgs : Line(n, "ask") \in Range(out[n]) /\ answers[n] = 0 =>
                  turn'[n].pc = "wait" /\ Last(out[n]) = Line(n, "ask")
             /\ ~ (proc = "alive" /\ cli'.ask # None /\ answers[cli'.ask] > 0)
  <2>1. 1 \in DOMAIN pending
    BY <1>0, <1>1, TypeParts DEF PairT
  <2> DEFINE q == pending[1]
  <2>2. /\ pending = <<q>> /\ q \in Msgs /\ answers[q] > 0
        /\ \E h \in Msgs : Active = {h} /\ turn[h].pc = "wait" /\ Last(out[h]) = Line(q, "ask")
    BY <1>5, <2>1, Queued
  <2> HIDE DEF q
  <2>3. m \in Active
    BY <1>1 DEF Active
  <2>4. Last(out[m]) = Line(q, "ask")
    BY <2>2, <2>3
  <2>5. pending' = <<>> /\ Head(pending) = q
    BY <1>1, <2>2
  <2>6. ASSUME NEW n \in Msgs, Line(n, "ask") \in Range(out[n]), answers[n] = 0
        PROVE  turn'[n].pc = "wait" /\ Last(out[n]) = Line(n, "ask")
    <3>1. turn[n].pc = "wait" /\ Last(out[n]) = Line(n, "ask")
      BY <1>0, <1>5, <2>6 DEF Pairs
    <3>2. n # m
      BY <2>2, <2>4, <2>6, <3>1, LineSame
    <3> QED
      BY <1>4, <3>1, <3>2
  <2>7. ASSUME proc = "alive", cli'.ask # None, answers[cli'.ask] > 0 PROVE FALSE
    <3>1. cli'.ask = cli.ask /\ cli.ask # q
      BY <1>1, <2>5, <2>7
    <3>2. pending = <<cli.ask>>
      BY <1>0, <1>5, <2>7, <3>1 DEF Pairs, AnswersPair
    <3> QED
      BY <2>5, <3>1, <3>2
  <2> QED
    BY <2>5, <2>6, <2>7
<1>6. ~ spoiled /\ mixed = {} => DOMAIN pending' = {} /\ Len(pending') <= 1
  <2>1. Len(<<>>) <= 1 /\ DOMAIN <<>> = {}
    OBVIOUS
  <2> QED
    BY <1>5, <2>1
<1>7. Pairs'
  BY <1>0, <1>2, <1>5, <1>6 DEF Pairs, AnswersPair
<1> QED
  BY <1>4, <1>7 DEF Rest

LEMMA GiveUpRest ==
  ASSUME IInv, NEW m \in Msgs, GiveUp(m)
  PROVE  Rest'
<1>0. TypeOK /\ Pairs
  BY Parts
<1>1. /\ Others(m) /\ turn[m].pc = "wait" /\ turn'[m].pc = "read" /\ turn'[m].ctx = turn[m].ctx /\ spoiled'
      /\ UNCHANGED <<agentVars, over, buf, out, cliVars, pending, answers, mixed>>
  BY <1>0, GiveUpEffect
<1>2. Fresh' /\ Started' /\ Says' /\ Stages' /\ Follows' /\ Ends' /\ Rested'
  BY <1>1, WaitOver DEF cliVars
<1>3. Pairs'
  BY <1>0, <1>1 DEF Pairs, AnswersPair
<1> QED
  BY <1>2, <1>3 DEF Rest

-----------------------------------------------------------------------------
(* Contexts, the process and the CLI.                                      *)

LEMMA EndingRest ==
  ASSUME IInv, Ending
  PROVE  Rest'
<1>0. TypeOK /\ Fresh /\ Started /\ Says /\ Stages /\ Follows /\ Ends /\ Rested /\ Pairs
  BY Parts
<1>1. /\ over \subseteq over' /\ cmd' = cmd
      /\ proc' = proc \/ (proc = "alive" /\ proc' = "dead")
      /\ UNCHANGED <<readVars, cliVars, pending, ghostVars>>
  BY <1>0, EndingEffect
<1>2. /\ turn' = turn /\ buf' = buf /\ out' = out /\ stdout' = stdout /\ cli' = cli /\ said' = said
      /\ pending' = pending /\ answers' = answers /\ mixed' = mixed /\ spoiled' = spoiled
  BY <1>1 DEF readVars, cliVars, ghostVars
<1>3. Active' = Active
  BY <1>2 DEF Active
<1>4. Fresh' /\ Says'
  BY <1>0, <1>2 DEF Fresh, Says, Unsent
<1>5. Started'
  BY <1>0, <1>1, <1>2 DEF Started, Unsent, AtRest
<1>6. Stages'
  BY <1>0, <1>2 DEF Stages, Waiting, Under, Finished, Sent
<1>7. Follows'
  BY <1>0, <1>2, <1>3 DEF Follows, NoResult
<1>8. proc' = "alive" => proc = "alive"
  BY <1>1
<1>9. Ends'
  BY <1>0, <1>1, <1>2, <1>8 DEF Ends, Finished, Cut
<1>10. RestBetweenTurns'
  BY <1>0, <1>1, <1>2, <1>3, <1>8 DEF Rested, RestBetweenTurns, Quiet, AtRest, Cut
<1>11. Rested'
  BY <1>0, <1>2, <1>10 DEF Rested
<1>12. Pairs'
  BY <1>0, <1>2, <1>3, <1>8 DEF Pairs, AnswersPair
<1> QED
  BY <1>4, <1>5, <1>6, <1>7, <1>9, <1>11, <1>12 DEF Rest

\* While the CLI is at work the agent is not at rest.
LEMMA AtWork ==
  ASSUME IInv, proc = "alive", cli.cur # None \/ cli.inbox # <<>>, UNCHANGED <<agentVars, over, turn, out, mixed>>
  PROVE  RestBetweenTurns'
<1>1. ~ Quiet
  BY AtRestType DEF Quiet
<1>2. Active' = Active /\ proc' = proc
  BY DEF Active, agentVars
<1> QED
  BY <1>1, <1>2, Parts DEF Rested, RestBetweenTurns, Cut

LEMMA InterruptRest ==
  ASSUME IInv, Interrupt
  PROVE  Rest'
<1>0. TypeOK /\ Fresh /\ Started /\ Says /\ Stages /\ Follows /\ Ends /\ Rested /\ Pairs
  BY Parts
<1>1. /\ proc = "alive" /\ cli.cur # None
      /\ cli'.inbox = cli.inbox /\ cli'.cur = cli.cur /\ cli'.ask = None
      /\ UNCHANGED <<agentVars, over, readVars, stdout, said, pending, ghostVars>>
  BY <1>0, InterruptEffect
<1>2. /\ cmd' = cmd /\ proc' = proc /\ over' = over /\ turn' = turn /\ buf' = buf /\ out' = out
      /\ stdout' = stdout /\ said' = said
      /\ pending' = pending /\ answers' = answers /\ mixed' = mixed /\ spoiled' = spoiled
  BY <1>1 DEF agentVars, readVars, ghostVars
<1>3. Active' = Active
  BY <1>2 DEF Active
<1>4. Fresh' /\ Started' /\ Says'
  BY <1>0, <1>1, <1>2 DEF Fresh, Started, Says, Unsent
<1>5. Stages' /\ Ends'
  BY <1>0, <1>1, <1>2 DEF Stages, Ends, Waiting, Under, Finished, Sent, Cut
<1>6. Follows'
  BY <1>0, <1>1, <1>2, <1>3 DEF Follows, NoResult
<1>7. Rested'
  BY <1>1, <1>2, AtWork DEF Rested
<1>8. Pairs'
  BY <1>0, <1>1, <1>2, <1>3 DEF Pairs, AnswersPair
<1> QED
  BY <1>4, <1>5, <1>6, <1>7, <1>8 DEF Rest

LEMMA CliTakeRest ==
  ASSUME IInv, CliTake
  PROVE  Rest'
<1>0. TypeOK /\ Fresh /\ Started /\ Says /\ Stages /\ Follows /\ Ends /\ Rested /\ Pairs
  BY Parts
<1>1. /\ proc = "alive" /\ cli.cur = None /\ cli.inbox # <<>>
      /\ cli'.inbox = Tail(cli.inbox) /\ cli'.cur = Head(cli.inbox) /\ cli'.ask = None
      /\ UNCHANGED <<agentVars, over, readVars, stdout, said, pending, ghostVars>>
  BY <1>0, CliTakeEffect
<1>2. /\ cmd' = cmd /\ proc' = proc /\ over' = over /\ turn' = turn /\ buf' = buf /\ out' = out
      /\ stdout' = stdout /\ said' = said
      /\ pending' = pending /\ answers' = answers /\ mixed' = mixed /\ spoiled' = spoiled
  BY <1>1 DEF agentVars, readVars, ghostVars
<1>3. Active' = Active
  BY <1>2 DEF Active
<1>4. PICK s \in Seq(Msgs) : s = cli.inbox /\ s # <<>>
  BY <1>0, <1>1, TypeParts, CliParts
<1>5. Range(cli'.inbox) \subseteq Range(cli.inbox) /\ cli'.cur \in Range(cli.inbox) /\ cli'.cur \in Msgs
  <2>1. DOMAIN s = 1 .. Len(s) /\ 1 \in DOMAIN s /\ s[1] = Head(s) /\ s[1] \in Msgs
    BY <1>4
  <2>2. \A i \in DOMAIN Tail(s) : i + 1 \in DOMAIN s /\ Tail(s)[i] = s[i + 1]
    BY <1>4
  <2> QED
    BY <1>1, <1>4, <2>1, <2>2 DEF Range
<1>6. Fresh' /\ Started' /\ Says'
  BY <1>0, <1>1, <1>2, <1>5 DEF Fresh, Started, Says, Unsent
<1>7. \A n \in Msgs : Finished(n) => Finished(n)'
  BY <1>1, <1>2, <1>5 DEF Finished
<1>8. \A n \in Msgs : Waiting(n) => Under(n)'
  <2> SUFFICES ASSUME NEW n \in Msgs, Waiting(n) PROVE Under(n)'
    OBVIOUS
  <2>1. cli'.inbox = <<>> /\ cli'.cur = n
    BY <1>1 DEF Waiting
  <2>2. said'[n] = <<>>
    BY <1>2 DEF Waiting
  <2>3. \A i \in DOMAIN said'[n] : FALSE
    BY <2>2
  <2> QED
    BY <2>1, <2>3 DEF Under, NoResult
<1>9. \A n \in Msgs : ~ Under(n)
  BY <1>1, NotNone DEF Under
<1>10. Stages'
  BY <1>0, <1>2, <1>7, <1>8, <1>9 DEF Stages, Sent
<1>11. Follows'
  <2>1. \A n \in Msgs : NoResult(out[n])' <=> NoResult(out[n])
    BY <1>2 DEF NoResult
  <2>2. \A n \in Msgs \ mixed : n \in Active => Range(cli'.inbox) \subseteq {n} /\ cli'.cur \in {n, None}
    BY <1>0, <1>5 DEF Follows
  <2> QED
    BY <1>0, <1>2, <1>3, <2>1, <2>2 DEF Follows
<1>12. Ends'
  BY <1>0, <1>2, <1>7 DEF Ends, Cut
<1>13. Rested'
  BY <1>1, <1>2, <1>5, AtWork, NotNone DEF Rested
<1>14. Pairs'
  BY <1>0, <1>1, <1>2, <1>3 DEF Pairs, AnswersPair
<1> QED
  BY <1>6, <1>10, <1>11, <1>12, <1>13, <1>14 DEF Rest

LEMMA CliWriteRest ==
  ASSUME IInv, CliWrite
  PROVE  Rest'
<1>0. TypeOK /\ Fresh /\ Started /\ Says /\ Stages /\ Follows /\ Ends /\ Rested /\ Pairs
  BY Parts
<1>1. /\ proc = "alive" /\ cli.cur \in Msgs /\ cli.ask = None /\ cli'.inbox = cli.inbox
      /\ UNCHANGED <<agentVars, over, readVars, pending, ghostVars>>
  BY <1>0, CliWriteEffect
<1>2. PICK c \in Msgs : c = cli.cur
  BY <1>1
<1>3. PICK k \in {"text", "long", "ask", "result"} :
        /\ stdout' = Append(stdout, Line(c, k))
        /\ said'[c] = Append(said[c], Line(c, k))
        /\ \A n \in Msgs \ {c} : said'[n] = said[n]
        /\ k # "result" => cli'.cur = c
        /\ k = "result" => cli'.cur = None /\ cli'.left = 0
        /\ IF k = "ask" THEN cli'.ask = c /\ Line(c, "ask") \notin Range(said[c])
                        ELSE cli'.ask = None
  BY <1>0, <1>2, CliWriteEffect
<1>4. /\ cmd' = cmd /\ proc' = proc /\ over' = over /\ turn' = turn /\ buf' = buf /\ out' = out
      /\ pending' = pending /\ answers' = answers /\ mixed' = mixed /\ spoiled' = spoiled
  BY <1>1 DEF agentVars, readVars, ghostVars
<1>5. Active' = Active
  BY <1>4 DEF Active
<1>6. /\ said[c] \in Seq(Lines) /\ out[c] \in Seq(Lines) /\ buf[c] \in Seq(Lines) /\ stdout \in Seq(Lines)
      /\ Line(c, k) \in Lines /\ Line(c, k).of = c /\ Line(c, k).kind = k
  BY <1>0, LinesParts, LineType
<1>7. /\ Len(said'[c]) = Len(said[c]) + 1 /\ said'[c] # <<>> /\ Len(said[c]) \in Nat
      /\ DOMAIN said[c] = 1 .. Len(said[c]) /\ DOMAIN said'[c] = 1 .. Len(said[c]) + 1
      /\ said'[c][Len(said[c]) + 1] = Line(c, k)
      /\ \A i \in DOMAIN said[c] : said'[c][i] = said[c][i]
  <2>1. PICK s \in Seq(Lines) : s = said[c]
    BY <1>6
  <2>2. PICK e \in Lines : e = Line(c, k)
    BY <1>6
  <2>3. /\ Len(Append(s, e)) = Len(s) + 1 /\ Append(s, e) # <<>> /\ Len(s) \in Nat
        /\ DOMAIN s = 1 .. Len(s) /\ DOMAIN Append(s, e) = 1 .. Len(s) + 1
        /\ Append(s, e)[Len(s) + 1] = e
        /\ \A i \in DOMAIN s : Append(s, e)[i] = s[i]
    BY <2>1, <2>2
  <2>4. said'[c] = Append(s, e)
    BY <1>3, <2>1, <2>2
  <2> QED
    BY <2>1, <2>2, <2>3, <2>4
<1>8. ~ Unsent(c) /\ ~ Waiting(c) /\ ~ Finished(c)
  BY <1>0, <1>2, NotNone DEF Fresh, Waiting, Finished
<1>9. cli'.cur \in {c, None}
  BY <1>3
<1>10. Fresh' /\ Started'
  <2>1. \A n \in Msgs : Unsent(n) => n # c /\ cli'.cur # n
    BY <1>8, <1>9, NotNone
  <2> QED
    BY <1>0, <1>1, <1>3, <1>4, <2>1 DEF Fresh, Started, Unsent
<1>11. Says'
  <2>1. \A i \in DOMAIN said'[c] : said'[c][i].of = c
    BY <1>0, <1>6, <1>7 DEF Says
  <2> QED
    BY <1>0, <1>3, <2>1 DEF Says
<1>12. \A n \in Msgs \ {c} : Finished(n) => Finished(n)'
  BY <1>1, <1>3, <1>9, NotNone DEF Finished
<1>13. \A n \in Msgs \ {c} : ~ Waiting(n) /\ ~ Under(n)
  BY <1>2, NotNone DEF Waiting, Under
<1>14. Under(c) => Under(c)' \/ Finished(c)'
  <2> SUFFICES ASSUME Under(c) PROVE Under(c)' \/ Finished(c)'
    OBVIOUS
  <2>1. cli.inbox = <<>> /\ \A i \in DOMAIN said[c] : said[c][i].kind # "result"
    BY DEF Under, NoResult
  <2>2. CASE k # "result"
    <3>1. \A i \in DOMAIN said'[c] : said'[c][i].kind # "result"
      BY <1>6, <1>7, <2>1, <2>2
    <3> QED
      BY <1>1, <1>3, <2>1, <2>2, <3>1 DEF Under, NoResult
  <2>3. CASE k = "result"
    <3>1. \A i \in DOMAIN said'[c] : said'[c][i].kind = "result" <=> i = Len(said'[c])
      BY <1>6, <1>7, <2>1, <2>3
    <3>2. c \notin Range(cli'.inbox) /\ cli'.cur # c
      BY <1>1, <1>3, <2>1, <2>3, NotNone DEF Range
    <3> QED
      BY <1>7, <3>1, <3>2 DEF Finished
  <2> QED
    BY <2>2, <2>3
<1>15. Stages'
  BY <1>0, <1>4, <1>8, <1>12, <1>13, <1>14 DEF Stages, Sent
<1>16. Follows'
  <2>1. ASSUME c \notin mixed, c \in Active
        PROVE  Active = {c} /\ said'[c] = out[c] \o (buf[c] \o stdout') /\ NoResult(out[c])
               /\ Range(cli.inbox) \subseteq {c}
    <3>1. Active = {c} /\ said[c] = out[c] \o (buf[c] \o stdout) /\ NoResult(out[c])
          /\ Range(cli.inbox) \subseteq {c}
      BY <2>1, Alone
    <3>2. \A e \in Lines : Append(out[c] \o (buf[c] \o stdout), e) = out[c] \o (buf[c] \o Append(stdout, e))
      BY <1>6, AppendLine
    <3> QED
      BY <1>3, <1>6, <3>1, <3>2
  <2>2. \A n \in Msgs \ mixed : n \in Active => n = c
    BY <1>0, <1>2, NotNone DEF Follows
  <2>3. \A n \in Msgs : NoResult(out[n])' <=> NoResult(out[n])
    BY <1>4 DEF NoResult
  <2>4. Range(cli.inbox)' = Range(cli.inbox)
    BY <1>1
  <2> QED
    BY <1>4, <1>5, <1>9, <2>1, <2>2, <2>3, <2>4 DEF Follows
<1>17. Ends'
  <2>1. ASSUME c \notin mixed, turn[c].pc = "closed"
        PROVE  IsPrefix(out[c], said'[c]) /\ (turn[c].ctx \notin over /\ proc = "alive" => Cut(c))
    <3>1. IsPrefix(out[c], said[c]) /\ (turn[c].ctx \notin over /\ proc = "alive" => Cut(c))
      BY <1>0, <1>8, <2>1 DEF Ends, Cut
    <3>2. \A e \in Lines : IsPrefix(out[c], Append(said[c], e))
      BY <1>6, <3>1, PrefixAppend
    <3> QED
      BY <1>3, <1>6, <3>1, <3>2
  <2> QED
    BY <1>0, <1>3, <1>4, <1>12, <2>1 DEF Ends, Cut
<1>18. Rested'
  <2>1. cli.cur # None
    BY <1>2, NotNone
  <2>2. RestBetweenTurns'
    BY <1>1, <1>4, <2>1, AtWork DEF agentVars
  <2>3. cli'.cur = None => cli'.left = 0 /\ cli'.ask = None
    BY <1>3, NotNone
  <2> QED
    BY <2>2, <2>3 DEF Rested
<1>19. Pairs'
  <2>1. ASSUME mixed = {}, cli'.ask # None
        PROVE  ~ (answers[cli'.ask] > 0)
    <3>1. cli'.ask = c /\ Line(c, "ask") \notin Range(said[c])
      BY <1>3, <2>1
    <3>2. \A m \in Msgs : Line(c, "ask") \notin Range(out[m])
      <4> SUFFICES ASSUME NEW m \in Msgs \ mixed, Line(c, "ask") \in Range(out[m]) PROVE FALSE
        BY <2>1
      <4> QED
        BY <3>1, OnlyOwn
    <3> QED
      BY <1>0, <3>1, <3>2 DEF Pairs
  <2> QED
    BY <1>0, <1>4, <1>5, <2>1 DEF Pairs, AnswersPair
<1> QED
  BY <1>10, <1>11, <1>15, <1>16, <1>17, <1>18, <1>19 DEF Rest

-----------------------------------------------------------------------------
(* The invariant, and what follows from it.                                *)

LEMMA InitInv == Init => IInv
<1> SUFFICES ASSUME Init PROVE IInv
  OBVIOUS
<1>1. TypeOK
  BY InitType
<1>2. /\ cmd = "none" /\ proc = "none" /\ stdout = <<>> /\ cli = AtRest /\ pending = <<>> /\ mixed = {}
      /\ \A m \in Msgs : /\ turn[m].pc = "idle" /\ buf[m] = <<>> /\ out[m] = <<>> /\ said[m] = <<>>
                         /\ answers[m] = 0
  BY DEF Init
<1>3. Range(cli.inbox) = {} /\ cli.cur = None /\ cli.left = 0 /\ cli.ask = None
  BY <1>2, AtRestType DEF Range
<1>4. Active = {}
  BY <1>2 DEF Active
<1>5. Fresh /\ Started
  BY <1>2, <1>3, NotNone DEF Fresh, Started, Unsent
<1>6. Says
  <2>1. \A m \in Msgs : DOMAIN said[m] = {}
    BY <1>2
  <2> QED
    BY <2>1 DEF Says
<1>7. Stages /\ Follows /\ Ends
  BY <1>2, <1>4 DEF Stages, Follows, Ends, Sent, Cut
<1>8. Rested
  BY <1>2, <1>3 DEF Rested, RestBetweenTurns, Cut
<1>9. Pairs
  <2>1. DOMAIN pending = {} /\ Len(pending) <= 1
    BY <1>2
  <2>2. \A m \in Msgs : DOMAIN out[m] = {}
    BY <1>2
  <2> QED
    BY <1>2, <1>3, <2>1, <2>2 DEF Pairs, AnswersPair, Range
<1> QED
  BY <1>1, <1>5, <1>6, <1>7, <1>8, <1>9 DEF IInv, Rest

LEMMA Stutter ==
  ASSUME IInv, UNCHANGED vars
  PROVE  IInv'
<1>0. TypeOK /\ Fresh /\ Started /\ Says /\ Stages /\ Follows /\ Ends /\ Rested /\ Pairs
  BY Parts
<1>1. /\ cmd' = cmd /\ owner' = owner /\ proc' = proc /\ closed' = closed /\ over' = over /\ turn' = turn
      /\ buf' = buf /\ out' = out /\ stdout' = stdout /\ cli' = cli /\ said' = said /\ pending' = pending
      /\ answers' = answers /\ mixed' = mixed /\ spoiled' = spoiled
  BY DEF vars, agentVars, readVars, cliVars, ghostVars
<1>2. TypeOK'
  BY <1>0, <1>1 DEF TypeOK
<1>3. Active' = Active
  BY <1>1 DEF Active
<1>4. Fresh' /\ Started' /\ Says'
  BY <1>0, <1>1 DEF Fresh, Started, Says, Unsent, AtRest
<1>5. Stages' /\ Ends'
  BY <1>0, <1>1 DEF Stages, Ends, Waiting, Under, Finished, Sent, NoResult, Cut
<1>6. Follows' /\ Rested'
  BY <1>0, <1>1, <1>3 DEF Follows, NoResult, Rested, RestBetweenTurns, Quiet, AtRest, Cut
<1>7. Pairs'
  BY <1>0, <1>1, <1>3 DEF Pairs, AnswersPair
<1> QED
  BY <1>2, <1>4, <1>5, <1>6, <1>7 DEF IInv, Rest

LEMMA NextInv == IInv /\ [Next]_vars => IInv'
<1> SUFFICES ASSUME IInv, [Next]_vars PROVE IInv'
  OBVIOUS
<1>0. TypeOK
  BY Parts
<1>1. ASSUME NEW m \in Msgs, Check(m) PROVE IInv'
  <2>1. /\ TypeOK' /\ Others(m) /\ turn[m].pc = "new" /\ turn'[m].pc \in {"start", "write"}
        /\ UNCHANGED <<agentVars, over, buf, out, cliVars, pending, ghostVars>>
    BY <1>0, <1>1, CheckEffect
  <2>2. Unsent(m) /\ Unsent(m)'
    BY <2>1 DEF Unsent
  <2>3. Rest'
    BY <2>1, <2>2, UnsentStep DEF agentVars
  <2> QED
    BY <2>1, <2>3 DEF IInv
<1>2. ASSUME NEW m \in Msgs, Start(m) PROVE IInv'
  <2>1. /\ TypeOK' /\ Others(m) /\ turn[m].pc = "start" /\ turn'[m].pc \in {"failed", "write"}
        /\ UNCHANGED <<over, buf, out, cliVars, pending, ghostVars>>
        /\ \/ cmd' = cmd /\ proc' = proc
           \/ cmd = "none" /\ cmd' # "none" /\ proc' \in {proc, "alive"}
    BY <1>0, <1>2, StartEffect
  <2>2. Unsent(m) /\ Unsent(m)'
    BY <2>1 DEF Unsent
  <2>3. Rest'
    BY <2>1, <2>2, UnsentStep
  <2> QED
    BY <2>1, <2>3 DEF IInv
<1>3. ASSUME NEW m \in Msgs, NEW x \in Ctxs, Accept(m, x) PROVE IInv'
  <2>1. /\ TypeOK' /\ Others(m) /\ turn[m].pc = "idle" /\ turn'[m].pc = "new"
        /\ UNCHANGED <<agentVars, over, buf, out, cliVars, pending, ghostVars>>
    BY <1>0, <1>3, AcceptEffect
  <2>2. Unsent(m) /\ Unsent(m)'
    BY <2>1 DEF Unsent
  <2>3. Rest'
    BY <2>1, <2>2, UnsentStep DEF agentVars
  <2> QED
    BY <2>1, <2>3 DEF IInv
<1>4. ASSUME NEW m \in Msgs, Write(m) PROVE IInv'
  BY <1>0, <1>4, WriteEffect, WriteRest DEF IInv
<1>5. ASSUME NEW m \in Msgs, Fill(m) PROVE IInv'
  BY <1>0, <1>5, FillEffect, FillRest DEF IInv
<1>6. ASSUME NEW m \in Msgs, ScanLine(m) PROVE IInv'
  BY <1>0, <1>6, ScanLineEffect, ScanLineRest DEF IInv
<1>7. ASSUME NEW m \in Msgs, EndOfFile(m) PROVE IInv'
  BY <1>0, <1>7, EndOfFileEffect, EndOfFileRest DEF IInv
<1>8. ASSUME NEW m \in Msgs, Answer(m) PROVE IInv'
  BY <1>0, <1>8, AnswerEffect, AnswerRest DEF IInv
<1>9. ASSUME NEW m \in Msgs, GiveUp(m) PROVE IInv'
  BY <1>0, <1>9, GiveUpEffect, GiveUpRest DEF IInv
<1>10. ASSUME NEW p \in Msgs, Respond(p) PROVE IInv'
  BY <1>0, <1>10, RespondEffect, RespondRest DEF IInv
<1>11. CASE Ending
  BY <1>0, <1>11, EndingEffect, EndingRest DEF IInv
<1>12. CASE Interrupt
  BY <1>0, <1>12, InterruptEffect, InterruptRest DEF IInv
<1>13. CASE CliTake
  BY <1>0, <1>13, CliTakeEffect, CliTakeRest DEF IInv
<1>14. CASE CliWrite
  BY <1>0, <1>14, CliWriteEffect, CliWriteRest DEF IInv
<1>15. CASE UNCHANGED vars
  BY <1>15, Stutter
<1>16. ASSUME NEW m \in Msgs, ScanFails(m) PROVE IInv'
  BY <1>0, <1>16, ScanFailsEffect, ScanFailsRest DEF IInv
<1>17. ASSUME NEW m \in Msgs, SkipLine(m) PROVE IInv'
  BY <1>0, <1>17, SkipLineEffect, SkipLineRest DEF IInv
<1> QED
  BY <1>1, <1>2, <1>3, <1>4, <1>5, <1>6, <1>7, <1>8, <1>9, <1>10, <1>11, <1>12, <1>13, <1>14, <1>15,
     <1>16, <1>17
     DEF Next, Turn, Ending

\* Everything the proofs know of the agent, its readers and the CLI.
THEOREM AgentInvariant == Spec => []IInv
<1>1. Init => IInv
  BY InitInv
<1>2. IInv /\ [Next]_vars => IInv'
  BY NextInv
<1> QED
  BY <1>1, <1>2, PTL DEF Spec

\* The types of the agent's state, its readers' and the CLI's; the queue of
\* answers never exceeds its capacity (claude.go:36-56, 333-354).
THEOREM AgentTypes == Spec => []TypeOK
<1>1. IInv => TypeOK
  BY DEF IInv
<1> QED
  BY <1>1, AgentInvariant, PTL

\* A message nobody mixed with gets its own answer, in order, and all of it
\* unless its context or the process ended or a line was too long, which it is
\* then told (claude.go:138-185).
THEOREM AnswerIsOwn == Spec => []OwnAnswer
<1>1. IInv => OwnAnswer
  <2> SUFFICES ASSUME IInv, NEW m \in Msgs \ mixed
               PROVE  /\ IsPrefix(out[m], said[m])
                      /\ turn[m].pc = "closed" /\ turn[m].ctx \notin over /\ proc = "alive" => out[m] = said[m] \/ Cut(m)
    BY DEF OwnAnswer
  <2> QED
    BY OutPrefix, Parts DEF Ends, Cut
<1> QED
  BY <1>1, AgentInvariant, PTL

\* After turns that nothing disturbed the CLI and its pipe are at rest
\* (claude.go:138-185).
THEOREM RestsBetweenTurns == Spec => []RestBetweenTurns
<1>1. IInv => RestBetweenTurns
  BY DEF IInv, Rest, Rested
<1> QED
  BY <1>1, AgentInvariant, PTL

\* The queue without ids pairs answers with requests, for any capacity and
\* any number of requests (claude.go:187-220, 333-354).
THEOREM AnswersArePaired == Spec => []AnswersPair
<1>1. IInv => AnswersPair
  BY DEF IInv, Rest, Pairs
<1> QED
  BY <1>1, AgentInvariant, PTL
=============================================================================
