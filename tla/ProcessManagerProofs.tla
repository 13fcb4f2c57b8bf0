------------------------ MODULE ProcessManagerProofs ------------------------
(***************************************************************************)
(* The safety of the process table for any sets of sessions and entries,   *)
(* any finite set of connections and any timeout.                          *)
(***************************************************************************)
EXTENDS ProcessManager, FiniteSetTheorems, TLAPS

\* Every entry is filed under the session it was created for, and a caller
\* that loaded an entry loaded it under that session.
Ownership ==
  /\ \A s \in Sessions : processes[s] # NoEntry => owner[processes[s]] = s
  /\ \A c \in Conns : pc[c] \in {"touch", "release"} => owner[call[c].entry] = call[c].sid
  /\ \A c \in Conns : pc[c] = "release" => call[c].sid = sid[c]
  /\ sweep.pc \in {"check", "close", "kill"} => owner[sweep.entry] = sweep.sid

\* An entry not created yet has left no trace.
Untouched ==
  \A e \in Entries : owner[e] = NoSession => e \notin stale /\ e \notin closed /\ age[e] = 0

\* What the sweep may rely on between its steps: the entry it condemned is
\* still unreferenced as long as it is stale, what replaced it is not stale,
\* and what it deleted is not in the table.
SweepKnows ==
  /\ sweep.pc = "close" /\ sweep.entry \in stale => refCount[sweep.entry] = 0
  /\ sweep.pc \in {"check", "close"} /\ processes[sweep.sid] # sweep.entry
       => processes[sweep.sid] \notin stale
  /\ sweep.pc = "kill" => processes[sweep.sid] # sweep.entry

\* Who owns what, and what the sweep knows.
Shape == Ownership /\ Untouched /\ SweepKnows /\ TableHoldsLiveAgents

\* An attached connection holds an entry of its session, the table's own as
\* long as the session was spared by the races.
Holding ==
  \A c \in Conns : sid[c] # NoSession =>
    /\ agent[c] \in Entries /\ owner[agent[c]] = sid[c]
    /\ sid[c] \notin raced => processes[sid[c]] = agent[c]

\* The inductive invariant.
IInv == TypeOK /\ Shape /\ CountCovers /\ OnlyOverwritingLosesAgents /\ Holding
-----------------------------------------------------------------------------
(* Types.                                                                  *)

LEMMA InitType == Init => TypeOK
  BY TimeoutNat DEF Init, TypeOK, Idle, Asleep, Ages, CallType, Ops

\* What a call leaves behind when it returns an entry, and when it hangs up.
LEMMA ReturnType ==
  ASSUME TypeOK, NEW c \in Conns, NEW e \in Entries, call[c].sid \in Sessions, Return(c, e)
  PROVE  /\ open' \in SUBSET Conns
         /\ sid' \in [Conns -> Sessions \cup {NoSession}]
         /\ pc' \in [Conns -> {"idle", "touch", "create", "respond", "release"}]
         /\ call' \in [Conns -> CallType]
         /\ agent' \in [Conns -> Entries \cup {NoEntry}]
         /\ \A d \in Conns : /\ pc'[d] \in {"touch", "release"} => call'[d].entry \in Entries
                             /\ pc'[d] \in {"touch", "create", "release"} => call'[d].sid \in Sessions
  BY DEF TypeOK, Return, Idle, CallType, Ops

LEMMA HangupType ==
  ASSUME TypeOK, NEW c \in Conns, Hangup(c)
  PROVE  /\ open' \in SUBSET Conns
         /\ sid' \in [Conns -> Sessions \cup {NoSession}]
         /\ pc' \in [Conns -> {"idle", "touch", "create", "respond", "release"}]
         /\ call' \in [Conns -> CallType]
         /\ agent' \in [Conns -> Entries \cup {NoEntry}]
         /\ \A d \in Conns : /\ pc'[d] \in {"touch", "release"} => call'[d].entry \in Entries
                             /\ pc'[d] \in {"touch", "create", "release"} => call'[d].sid \in Sessions
  BY DEF TypeOK, Hangup, Idle, CallType, Ops

LEMMA NextType == TypeOK /\ [Next]_vars => TypeOK'
<1> SUFFICES ASSUME TypeOK, [Next]_vars PROVE TypeOK'
  OBVIOUS
<1> USE TimeoutNat
<1>1. ASSUME NEW c \in Conns, Open(c) PROVE TypeOK'
  BY <1>1 DEF Open, TypeOK, entryVars, ghostVars
<1>2. ASSUME NEW c \in Conns, ReadError(c) PROVE TypeOK'
  <2>1. CASE Hangup(c)
    BY <1>2, <2>1, HangupType DEF ReadError, TypeOK, entryVars, ghostVars
  <2>2. CASE ~Hangup(c)
    <3> DEFINE e == processes[sid[c]]
    <3>1. sid[c] \in Sessions /\ e \in Entries
      BY <1>2, <2>2 DEF ReadError, TypeOK
    <3>2. [op |-> "use", sid |-> sid[c], entry |-> e] \in CallType
      BY <3>1 DEF CallType, Ops
    <3>3. /\ pc' = [pc EXCEPT ![c] = "release"]
          /\ call' = [call EXCEPT ![c] = [op |-> "use", sid |-> sid[c], entry |-> e]]
      BY <1>2, <2>2, <3>1, NoSessionFresh DEF ReadError
    <3> HIDE DEF e
    <3> QED BY <1>2, <2>2, <3>1, <3>2, <3>3 DEF ReadError, TypeOK, entryVars, ghostVars
  <2> QED BY <2>1, <2>2
<1>3. ASSUME NEW c \in Conns, WriteError(c) PROVE TypeOK'
  BY <1>3, HangupType DEF WriteError, TypeOK, entryVars, ghostVars
<1>4. ASSUME NEW c \in Conns, Touch(c) PROVE TypeOK'
  <2>1. call[c].entry \in Entries /\ call[c].sid \in Sessions
    <3>1. pc[c] = "touch"
      BY <1>4 DEF Touch
    <3> QED BY <3>1 DEF TypeOK
  <2> QED BY <1>4, <2>1, ReturnType DEF Touch, TypeOK, Ages
<1>5. ASSUME NEW c \in Conns, Create(c) PROVE TypeOK'
  <2>1. call[c].sid \in Sessions
    BY <1>5 DEF Create, TypeOK
  <2> PICK e \in Entries : /\ owner' = [owner EXCEPT ![e] = call[c].sid]
                           /\ refCount' = [refCount EXCEPT ![e] = 1]
                           /\ processes' = [processes EXCEPT ![call[c].sid] = e]
                           /\ Return(c, e)
    BY <1>5 DEF Create
  <2> QED BY <1>5, <2>1, ReturnType DEF Create, TypeOK
<1>6. ASSUME NEW c \in Conns, Respond(c) PROVE TypeOK'
  BY <1>6 DEF Respond, TypeOK, entryVars, ghostVars
<1>7. ASSUME NEW c \in Conns, Release(c) PROVE TypeOK'
  <2>1. call[c].entry \in Entries
    <3>1. pc[c] = "release"
      BY <1>7 DEF Release
    <3> QED BY <3>1 DEF TypeOK
  <2> QED BY <1>7, <2>1, HangupType DEF Release, TypeOK, Ages, ghostVars
<1>8. ASSUME NEW c \in Conns, NEW op \in Ops, NEW s \in Sessions, Lookup(c, op, s) PROVE TypeOK'
  BY <1>8 DEF Lookup, TypeOK, CallType, entryVars, ghostVars
<1>9. CASE Tick
  BY <1>9 DEF Tick, TypeOK, Ages, connVars, ghostVars
<1>10. CASE SweepStart
  BY <1>10 DEF SweepStart, TypeOK, Asleep, entryVars, connVars, ghostVars
<1>11. ASSUME NEW s \in Sessions, SweepVisit(s) PROVE TypeOK'
  BY <1>11 DEF SweepVisit, TypeOK, entryVars, connVars, ghostVars
<1>12. CASE SweepCheck
  BY <1>12 DEF SweepCheck, TypeOK, entryVars, connVars, ghostVars
<1>13. CASE SweepDelete
  BY <1>13 DEF SweepDelete, TypeOK, entryVars, connVars
<1>14. CASE SweepKill
  BY <1>14 DEF SweepKill, TypeOK, connVars, ghostVars
<1>15. CASE SweepEnd
  BY <1>15 DEF SweepEnd, TypeOK, Asleep, entryVars, connVars, ghostVars
<1>16. CASE UNCHANGED vars
  BY <1>16 DEF vars, entryVars, connVars, ghostVars, TypeOK
<1> QED
  BY <1>1, <1>2, <1>3, <1>4, <1>5, <1>6, <1>7, <1>8, <1>9, <1>10, <1>11, <1>12,
     <1>13, <1>14, <1>15, <1>16 DEF Next, Call, Sweep

\* The state of the manager and of its callers keeps its type in every behaviour.
THEOREM TypeCorrect == Spec => []TypeOK
  BY InitType, NextType, PTL DEF Spec

-----------------------------------------------------------------------------
(* Who owns what, and what the sweep knows.                                *)

LEMMA InitShape == Init => Shape
  BY NoEntryFresh DEF Init, Shape, Ownership, Untouched, SweepKnows,
                      TableHoldsLiveAgents, Asleep, Idle

LEMMA NextShape == TypeOK /\ Shape /\ [Next]_vars => Shape'
<1> SUFFICES ASSUME TypeOK, Shape, [Next]_vars PROVE Shape'
  OBVIOUS
<1> USE TimeoutNat, NoEntryFresh, NoSessionFresh
        DEF Shape, Ownership, Untouched, SweepKnows, TableHoldsLiveAgents
<1>1. ASSUME NEW c \in Conns, Open(c) PROVE Shape'
  BY <1>1 DEF TypeOK, Open, entryVars, ghostVars
<1>2. ASSUME NEW c \in Conns, ReadError(c) PROVE Shape'
  BY <1>2 DEF TypeOK, ReadError, Hangup, Idle, entryVars, ghostVars
<1>3. ASSUME NEW c \in Conns, WriteError(c) PROVE Shape'
  BY <1>3 DEF TypeOK, WriteError, Hangup, Idle, entryVars, ghostVars
<1>4. ASSUME NEW c \in Conns, Touch(c) PROVE Shape'
  BY <1>4 DEF TypeOK, Touch, Return, Idle
<1>5. ASSUME NEW c \in Conns, Create(c) PROVE Shape'
  <2> DEFINE s == call[c].sid
  <2>1. s \in Sessions
    BY <1>5 DEF Create, TypeOK
  <2>2. PICK e \in Entries : /\ owner[e] = NoSession
                             /\ owner' = [owner EXCEPT ![e] = s]
                             /\ refCount' = [refCount EXCEPT ![e] = 1]
                             /\ processes' = [processes EXCEPT ![s] = e]
                             /\ Return(c, e)
    BY <1>5 DEF Create
  <2>3. UNCHANGED <<age, closed, sweep, stale>>
    BY <1>5 DEF Create
  <2>4. /\ pc' = [pc EXCEPT ![c] = "respond"]
        /\ call' = [call EXCEPT ![c] = Idle]
        /\ \A d \in Conns \ {c} : sid'[d] = sid[d]
    BY <2>2 DEF Return, TypeOK
  <2> HIDE DEF s
  <2>5. Ownership'
    <3>1. \A r \in Sessions : processes'[r] # NoEntry => owner'[processes'[r]] = r
      BY <2>1, <2>2 DEF TypeOK
    <3>2. ASSUME NEW d \in Conns, pc'[d] \in {"touch", "release"}
          PROVE  owner'[call'[d].entry] = call'[d].sid /\ (pc'[d] = "release" => call'[d].sid = sid'[d])
      <4>1. d # c /\ pc'[d] = pc[d] /\ call'[d] = call[d]
        BY <2>4, <3>2 DEF TypeOK
      <4>2. call[d].entry \in Entries /\ owner[call[d].entry] = call[d].sid
        BY <3>2, <4>1 DEF TypeOK
      <4>3. call[d].entry # e
        BY <2>2, <3>2, <4>1, <4>2 DEF TypeOK
      <4> QED BY <2>2, <2>4, <4>1, <4>2, <4>3 DEF TypeOK
    <3>3. sweep'.pc \in {"check", "close", "kill"} => owner'[sweep'.entry] = sweep'.sid
      BY <2>2, <2>3 DEF TypeOK
    <3> QED BY <3>1, <3>2, <3>3
  <2>6. Untouched' /\ TableHoldsLiveAgents'
    BY <2>1, <2>2, <2>3 DEF TypeOK
  <2>7. SweepKnows'
    BY <2>1, <2>2, <2>3 DEF TypeOK
  <2> QED BY <2>5, <2>6, <2>7
<1>6. ASSUME NEW c \in Conns, Respond(c) PROVE Shape'
  BY <1>6 DEF TypeOK, Respond, entryVars, ghostVars
<1>7. ASSUME NEW c \in Conns, Release(c) PROVE Shape'
  BY <1>7 DEF TypeOK, Release, Hangup, Idle, ghostVars
<1>8. ASSUME NEW c \in Conns, NEW op \in Ops, NEW s \in Sessions, Lookup(c, op, s) PROVE Shape'
  BY <1>8 DEF TypeOK, Lookup, entryVars, ghostVars
<1>9. CASE Tick
  BY <1>9 DEF TypeOK, Tick, Ages, connVars, ghostVars
<1>10. CASE SweepStart
  BY <1>10 DEF TypeOK, SweepStart, Asleep, entryVars, connVars, ghostVars, Ages
<1>11. ASSUME NEW s \in Sessions, SweepVisit(s) PROVE Shape'
  BY <1>11 DEF TypeOK, SweepVisit, entryVars, connVars, ghostVars
<1>12. CASE SweepCheck
  BY <1>12 DEF TypeOK, SweepCheck, IsIdle, entryVars, connVars, ghostVars
<1>13. CASE SweepDelete
  BY <1>13 DEF TypeOK, SweepDelete, entryVars, connVars
<1>14. CASE SweepKill
  BY <1>14 DEF TypeOK, SweepKill, connVars, ghostVars
<1>15. CASE SweepEnd
  BY <1>15 DEF TypeOK, SweepEnd, Asleep, entryVars, connVars, ghostVars
<1>16. CASE UNCHANGED vars
  BY <1>16 DEF TypeOK, vars, entryVars, connVars, ghostVars
<1> QED
  BY <1>1, <1>2, <1>3, <1>4, <1>5, <1>6, <1>7, <1>8, <1>9, <1>10, <1>11, <1>12,
     <1>13, <1>14, <1>15, <1>16 DEF Next, Call, Sweep

-----------------------------------------------------------------------------
(* Reference counts.                                                       *)

LEMMA AttachedFinite ==
  ASSUME NEW s
  PROVE  IsFiniteSet(Attached(s)) /\ Cardinality(Attached(s)) \in Nat
  BY ConnsFinite, FS_Subset, FS_CardinalityType DEF Attached

\* A step that attaches nobody to s and leaves its count keeps the bound.
LEMMA FewerAttached ==
  ASSUME NEW s \in Sessions, IsFiniteSet(Attached(s)),
         Attached(s)' \subseteq Attached(s)
  PROVE  Cardinality(Attached(s)') <= Cardinality(Attached(s))
  BY FS_Subset

LEMMA OneMoreAttached ==
  ASSUME NEW s \in Sessions, NEW c \in Conns,
         Attached(s)' \subseteq Attached(s) \cup {c}
  PROVE  Cardinality(Attached(s)') <= Cardinality(Attached(s)) + 1
<1>1. /\ IsFiniteSet(Attached(s) \cup {c})
      /\ Cardinality(Attached(s) \cup {c}) <= Cardinality(Attached(s)) + 1
  BY AttachedFinite, FS_AddElement
<1>2. Cardinality(Attached(s)') <= Cardinality(Attached(s) \cup {c})
  BY <1>1, FS_Subset
<1>3. Cardinality(Attached(s)') \in Nat /\ Cardinality(Attached(s) \cup {c}) \in Nat
  BY <1>1, FS_Subset, FS_CardinalityType
<1> QED BY <1>1, <1>2, <1>3, AttachedFinite

LEMMA OneLessAttached ==
  ASSUME NEW s \in Sessions, NEW c \in Attached(s),
         Attached(s)' = Attached(s) \ {c}
  PROVE  Cardinality(Attached(s)') = Cardinality(Attached(s)) - 1
  BY AttachedFinite, FS_RemoveElement

\* A step that adds nobody to any session and keeps the table and the counts
\* of its entries keeps CountCovers.
LEMMA CountStable ==
  ASSUME CountCovers, TypeOK, TypeOK',
         \A s \in Sessions : Attached(s)' \subseteq Attached(s),
         UNCHANGED <<processes, refCount>>, raced \subseteq raced'
  PROVE  CountCovers'
<1> SUFFICES ASSUME NEW s \in Sessions, s \notin raced'
             PROVE  Cardinality(Attached(s)') <= Refs(s)'
  BY DEF CountCovers
<1>1. Cardinality(Attached(s)') <= Cardinality(Attached(s)) /\ Cardinality(Attached(s)') \in Nat
  BY AttachedFinite, FewerAttached, FS_Subset, FS_CardinalityType
<1>2. Cardinality(Attached(s)) <= Refs(s) /\ Refs(s)' = Refs(s) /\ Refs(s) \in Int
  BY DEF CountCovers, Refs, TypeOK
<1> QED BY <1>1, <1>2, AttachedFinite

LEMMA InitCount == Init => CountCovers
<1> SUFFICES ASSUME Init PROVE CountCovers
  OBVIOUS
<1>1. \A s \in Sessions : Attached(s) = {} /\ Refs(s) = 0
  BY NoSessionFresh DEF Init, Attached, Refs
<1> QED BY <1>1, FS_EmptySet DEF CountCovers

LEMMA NextCount == TypeOK /\ TypeOK' /\ Shape /\ CountCovers /\ [Next]_vars => CountCovers'
<1> SUFFICES ASSUME TypeOK, TypeOK', Shape, CountCovers, [Next]_vars PROVE CountCovers'
  OBVIOUS
<1> USE NoEntryFresh, NoSessionFresh
<1>1. ASSUME NEW c \in Conns, Open(c) PROVE CountCovers'
  BY <1>1, CountStable DEF Open, Attached, entryVars, ghostVars
<1>2. ASSUME NEW c \in Conns, ReadError(c) PROVE CountCovers'
  BY <1>2, CountStable DEF ReadError, Hangup, Attached, entryVars, ghostVars, TypeOK
<1>3. ASSUME NEW c \in Conns, WriteError(c) PROVE CountCovers'
  BY <1>3, CountStable DEF WriteError, Hangup, Attached, entryVars, ghostVars, TypeOK
<1>4. ASSUME NEW c \in Conns, Touch(c) PROVE CountCovers'
  <2> DEFINE e == call[c].entry
             t == call[c].sid
  <2>1. e \in Entries /\ t \in Sessions /\ owner[e] = t
    <3>1. pc[c] = "touch"
      BY <1>4 DEF Touch
    <3> QED BY <3>1 DEF TypeOK, Shape, Ownership
  <2>2. /\ processes' = processes
        /\ refCount' = [refCount EXCEPT ![e] = @ + 1]
        /\ raced' = IF processes[t] = e THEN raced ELSE raced \cup {t}
        /\ Return(c, e)
    BY <1>4 DEF Touch
  <2> HIDE DEF e, t
  <2> SUFFICES ASSUME NEW s \in Sessions, s \notin raced'
               PROVE  Cardinality(Attached(s)') <= Refs(s)'
    BY DEF CountCovers
  <2>3. s \notin raced /\ Cardinality(Attached(s)) <= Refs(s) /\ Refs(s) \in Int
    BY <2>2 DEF CountCovers, Refs, TypeOK
  <2>4. CASE s = t
    <3>1. Attached(s)' \subseteq Attached(s) \cup {c}
      BY <2>2 DEF Attached, Return, TypeOK
    <3>2. Refs(s)' = Refs(s) + 1
      BY <2>1, <2>2, <2>4 DEF Refs, TypeOK
    <3>3. Cardinality(Attached(s)') \in Nat
      BY <3>1, AttachedFinite, FS_AddElement, FS_Subset, FS_CardinalityType
    <3> QED BY <2>3, <3>1, <3>2, <3>3, OneMoreAttached, AttachedFinite
  <2>5. CASE s # t
    <3>1. Attached(s)' \subseteq Attached(s)
      BY <2>2, <2>5 DEF Attached, Return, TypeOK, t
    <3>2. Refs(s)' = Refs(s)
      BY <2>1, <2>2, <2>5 DEF Refs, TypeOK, Shape, Ownership
    <3>3. Cardinality(Attached(s)') \in Nat
      BY <3>1, AttachedFinite, FS_Subset, FS_CardinalityType
    <3> QED BY <2>3, <3>1, <3>2, <3>3, FewerAttached, AttachedFinite
  <2> QED BY <2>4, <2>5
<1>5. ASSUME NEW c \in Conns, Create(c) PROVE CountCovers'
  <2> DEFINE t == call[c].sid
  <2>1. t \in Sessions
    BY <1>5 DEF Create, TypeOK
  <2>2. PICK e \in Entries : /\ owner[e] = NoSession
                             /\ refCount' = [refCount EXCEPT ![e] = 1]
                             /\ processes' = [processes EXCEPT ![t] = e]
                             /\ Return(c, e)
    BY <1>5 DEF Create
  <2>3. raced' = IF processes[t] = NoEntry THEN raced ELSE raced \cup {t}
    BY <1>5 DEF Create
  <2> HIDE DEF t
  <2> SUFFICES ASSUME NEW s \in Sessions, s \notin raced'
               PROVE  Cardinality(Attached(s)') <= Refs(s)'
    BY DEF CountCovers
  <2>4. s \notin raced /\ Cardinality(Attached(s)) <= Refs(s) /\ Refs(s) \in Int
    BY <2>3 DEF CountCovers, Refs, TypeOK
  <2>5. CASE s = t
    <3>1. Attached(s)' \subseteq Attached(s) \cup {c}
      BY <2>2 DEF Attached, Return, TypeOK
    <3>2. Refs(s)' = 1 /\ Refs(s) = 0
      BY <2>1, <2>2, <2>3, <2>5 DEF Refs, TypeOK
    <3>3. Cardinality(Attached(s)') \in Nat
      BY <3>1, AttachedFinite, FS_AddElement, FS_Subset, FS_CardinalityType
    <3> QED BY <2>4, <3>1, <3>2, <3>3, OneMoreAttached, AttachedFinite
  <2>6. CASE s # t
    <3>1. Attached(s)' \subseteq Attached(s)
      BY <2>2, <2>6 DEF Attached, Return, TypeOK, t
    <3>2. Refs(s)' = Refs(s)
      BY <2>1, <2>2, <2>6 DEF Refs, TypeOK, Shape, Ownership
    <3>3. Cardinality(Attached(s)') \in Nat
      BY <3>1, AttachedFinite, FS_Subset, FS_CardinalityType
    <3> QED BY <2>4, <3>1, <3>2, <3>3, FewerAttached, AttachedFinite
  <2> QED BY <2>5, <2>6
<1>6. ASSUME NEW c \in Conns, Respond(c) PROVE CountCovers'
  BY <1>6, CountStable DEF Respond, Attached, entryVars, ghostVars
<1>7. ASSUME NEW c \in Conns, Release(c) PROVE CountCovers'
  <2> DEFINE e == call[c].entry
             t == sid[c]
  <2>1. e \in Entries /\ owner[e] = t
    <3>1. pc[c] = "release"
      BY <1>7 DEF Release
    <3> QED BY <3>1 DEF TypeOK, Shape, Ownership
  <2>2. /\ processes' = processes
        /\ refCount' = [refCount EXCEPT ![e] = @ - 1]
        /\ raced' = raced
        /\ sid' = [sid EXCEPT ![c] = NoSession]
    BY <1>7 DEF Release, Hangup, ghostVars
  <2> HIDE DEF e
  <2> SUFFICES ASSUME NEW s \in Sessions, s \notin raced'
               PROVE  Cardinality(Attached(s)') <= Refs(s)'
    BY DEF CountCovers
  <2>3. Cardinality(Attached(s)) <= Refs(s) /\ Refs(s) \in Int
    BY <2>2 DEF CountCovers, Refs, TypeOK
  <2>4. CASE s = t
    <3>1. c \in Attached(s) /\ Attached(s)' = Attached(s) \ {c}
      BY <2>2, <2>4 DEF Attached, TypeOK
    <3>2. Refs(s)' \in {Refs(s), Refs(s) - 1}
      BY <2>1, <2>2 DEF Refs, TypeOK
    <3> QED BY <2>3, <3>1, <3>2, OneLessAttached, AttachedFinite
  <2>5. CASE s # t
    <3>1. Attached(s)' = Attached(s)
      BY <2>2, <2>5 DEF Attached, TypeOK
    <3>2. Refs(s)' = Refs(s)
      BY <2>1, <2>2, <2>5 DEF Refs, TypeOK, Shape, Ownership
    <3> QED BY <2>3, <3>1, <3>2
  <2> QED BY <2>4, <2>5
<1>8. ASSUME NEW c \in Conns, NEW op \in Ops, NEW s \in Sessions, Lookup(c, op, s) PROVE CountCovers'
  BY <1>8, CountStable DEF Lookup, Attached, entryVars, ghostVars
<1>9. CASE Tick
  BY <1>9, CountStable DEF Tick, Attached, connVars, ghostVars
<1>10. CASE SweepStart
  BY <1>10, CountStable DEF SweepStart, Attached, entryVars, connVars, ghostVars
<1>11. ASSUME NEW s \in Sessions, SweepVisit(s) PROVE CountCovers'
  BY <1>11, CountStable DEF SweepVisit, Attached, entryVars, connVars, ghostVars
<1>12. CASE SweepCheck
  BY <1>12, CountStable DEF SweepCheck, Attached, entryVars, connVars, ghostVars
<1>13. CASE SweepDelete
  <2> DEFINE t == sweep.sid
             e == processes[t]
  <2>1. /\ sweep.pc = "close"
        /\ processes' = [processes EXCEPT ![t] = NoEntry]
        /\ raced' = IF e # NoEntry /\ e \notin stale THEN raced \cup {t} ELSE raced
        /\ UNCHANGED <<refCount, sid>>
    BY <1>13 DEF SweepDelete, entryVars, connVars
  <2>2. t \in Sessions
    BY <2>1 DEF TypeOK
  <2> SUFFICES ASSUME NEW s \in Sessions, s \notin raced'
               PROVE  Cardinality(Attached(s)') <= Refs(s)'
    BY DEF CountCovers
  <2>3. Cardinality(Attached(s)) <= Refs(s) /\ Attached(s)' = Attached(s)
    BY <2>1 DEF CountCovers, Attached
  <2>4. CASE s = t /\ e # NoEntry
    <3>1. e \in stale
      BY <2>1, <2>4
    <3>2. e = sweep.entry /\ refCount[e] = 0
      BY <2>1, <3>1 DEF Shape, SweepKnows
    <3> QED BY <2>1, <2>2, <2>3, <2>4, <3>2 DEF Refs, TypeOK
  <2>5. CASE s # t \/ e = NoEntry
    BY <2>1, <2>2, <2>3, <2>5 DEF Refs, TypeOK
  <2> QED BY <2>4, <2>5
<1>14. CASE SweepKill
  BY <1>14, CountStable DEF SweepKill, Attached, connVars, ghostVars
<1>15. CASE SweepEnd
  BY <1>15, CountStable DEF SweepEnd, Attached, entryVars, connVars, ghostVars
<1>16. CASE UNCHANGED vars
  BY <1>16, CountStable DEF Attached, vars, entryVars, connVars, ghostVars
<1> QED
  BY <1>1, <1>2, <1>3, <1>4, <1>5, <1>6, <1>7, <1>8, <1>9, <1>10, <1>11, <1>12,
     <1>13, <1>14, <1>15, <1>16 DEF Next, Call, Sweep

-----------------------------------------------------------------------------
(* No agent is lost except by an overwrite.                                *)

LEMMA NextLost ==
  TypeOK /\ TypeOK' /\ Shape /\ OnlyOverwritingLosesAgents /\ [Next]_vars => OnlyOverwritingLosesAgents'
<1> SUFFICES ASSUME TypeOK, TypeOK', Shape, OnlyOverwritingLosesAgents, [Next]_vars
             PROVE  OnlyOverwritingLosesAgents'
  OBVIOUS
<1> USE NoEntryFresh, NoSessionFresh DEF OnlyOverwritingLosesAgents
<1>1. ASSUME NEW c \in Conns, Open(c) PROVE OnlyOverwritingLosesAgents'
  BY <1>1 DEF Open, entryVars, ghostVars
<1>2. ASSUME NEW c \in Conns, ReadError(c) PROVE OnlyOverwritingLosesAgents'
  BY <1>2 DEF ReadError, entryVars, ghostVars
<1>3. ASSUME NEW c \in Conns, WriteError(c) PROVE OnlyOverwritingLosesAgents'
  BY <1>3 DEF WriteError, entryVars, ghostVars
<1>4. ASSUME NEW c \in Conns, Touch(c) PROVE OnlyOverwritingLosesAgents'
  BY <1>4 DEF Touch
<1>5. ASSUME NEW c \in Conns, Create(c) PROVE OnlyOverwritingLosesAgents'
  BY <1>5 DEF Create, TypeOK, Shape, Ownership
<1>6. ASSUME NEW c \in Conns, Respond(c) PROVE OnlyOverwritingLosesAgents'
  BY <1>6 DEF Respond, entryVars, ghostVars
<1>7. ASSUME NEW c \in Conns, Release(c) PROVE OnlyOverwritingLosesAgents'
  BY <1>7 DEF Release, ghostVars
<1>8. ASSUME NEW c \in Conns, NEW op \in Ops, NEW s \in Sessions, Lookup(c, op, s) PROVE OnlyOverwritingLosesAgents'
  BY <1>8 DEF Lookup, entryVars, ghostVars
<1>9. CASE Tick
  BY <1>9 DEF Tick, connVars, ghostVars
<1>10. CASE SweepStart
  BY <1>10 DEF SweepStart, Asleep, entryVars, connVars, ghostVars
<1>11. ASSUME NEW s \in Sessions, SweepVisit(s) PROVE OnlyOverwritingLosesAgents'
  BY <1>11 DEF SweepVisit, entryVars, connVars, ghostVars
<1>12. CASE SweepCheck
  BY <1>12 DEF SweepCheck, TypeOK, entryVars, connVars, ghostVars
<1>13. CASE SweepDelete
  BY <1>13 DEF SweepDelete, TypeOK, entryVars, connVars
<1>14. CASE SweepKill
  BY <1>14 DEF SweepKill, TypeOK, connVars, ghostVars
<1>15. CASE SweepEnd
  BY <1>15 DEF SweepEnd, Asleep, entryVars, connVars, ghostVars
<1>16. CASE UNCHANGED vars
  BY <1>16 DEF vars, entryVars, connVars, ghostVars
<1> QED
  BY <1>1, <1>2, <1>3, <1>4, <1>5, <1>6, <1>7, <1>8, <1>9, <1>10, <1>11, <1>12,
     <1>13, <1>14, <1>15, <1>16 DEF Next, Call, Sweep

\* No step parts a connection from its session's process but by a race.
LEMMA NextHolding ==
  ASSUME TypeOK, Shape, CountCovers, Holding, [Next]_vars
  PROVE  Holding'
<1> USE NoEntryFresh, NoSessionFresh
<1>1. ASSUME NEW c \in Conns, Open(c) PROVE Holding'
  BY <1>1 DEF Open, Holding, entryVars, ghostVars
<1>2. ASSUME NEW c \in Conns, ReadError(c) PROVE Holding'
  BY <1>2 DEF ReadError, Hangup, Holding, TypeOK, entryVars, ghostVars
<1>3. ASSUME NEW c \in Conns, WriteError(c) PROVE Holding'
  BY <1>3 DEF WriteError, Hangup, Holding, TypeOK, entryVars, ghostVars
<1>4. ASSUME NEW c \in Conns, Touch(c) PROVE Holding'
  <2>1. /\ call[c].entry \in Entries /\ call[c].sid \in Sessions
        /\ owner[call[c].entry] = call[c].sid
    BY <1>4 DEF Touch, TypeOK, Shape, Ownership
  <2> QED BY <1>4, <2>1 DEF Touch, Return, Holding, TypeOK
<1>5. ASSUME NEW c \in Conns, Create(c) PROVE Holding'
  <2>1. call[c].sid \in Sessions
    BY <1>5 DEF Create, TypeOK
  <2> PICK e \in Entries : /\ owner[e] = NoSession
                           /\ owner' = [owner EXCEPT ![e] = call[c].sid]
                           /\ processes' = [processes EXCEPT ![call[c].sid] = e]
                           /\ Return(c, e)
    BY <1>5 DEF Create
  <2>2. raced' = IF processes[call[c].sid] = NoEntry THEN raced ELSE raced \cup {call[c].sid}
    BY <1>5 DEF Create
  <2>3. \A d \in Conns : sid[d] # NoSession => agent[d] # e
    BY DEF Holding
  <2> QED BY <2>1, <2>2, <2>3 DEF Return, Holding, TypeOK
<1>6. ASSUME NEW c \in Conns, Respond(c) PROVE Holding'
  BY <1>6 DEF Respond, Holding, entryVars, ghostVars
<1>7. ASSUME NEW c \in Conns, Release(c) PROVE Holding'
  BY <1>7 DEF Release, Hangup, Holding, TypeOK, ghostVars
<1>8. ASSUME NEW c \in Conns, NEW op \in Ops, NEW s \in Sessions, Lookup(c, op, s) PROVE Holding'
  BY <1>8 DEF Lookup, Holding, entryVars, ghostVars
<1>9. CASE Tick
  BY <1>9 DEF Tick, Holding, connVars, ghostVars
<1>10. CASE SweepStart
  BY <1>10 DEF SweepStart, Holding, entryVars, connVars, ghostVars
<1>11. ASSUME NEW s \in Sessions, SweepVisit(s) PROVE Holding'
  BY <1>11 DEF SweepVisit, Holding, entryVars, connVars, ghostVars
<1>12. CASE SweepCheck
  BY <1>12 DEF SweepCheck, Holding, entryVars, connVars, ghostVars
<1>13. CASE SweepDelete
  <2>1. sweep.pc = "close" /\ sweep.sid \in Sessions
    BY <1>13 DEF SweepDelete, TypeOK
  <2>2. ASSUME NEW c \in Conns, sid[c] = sweep.sid PROVE sweep.sid \in raced'
    <3> SUFFICES ASSUME sweep.sid \notin raced' PROVE FALSE
      OBVIOUS
    <3> DEFINE e == processes[sweep.sid]
    <3>1. sweep.sid \notin raced /\ (e # NoEntry => e \in stale)
      BY <1>13 DEF SweepDelete
    <3>2. e = agent[c] /\ e \in Entries
      BY <2>1, <2>2, <3>1 DEF Holding
    <3>3. refCount[e] = 0
      BY <2>1, <3>1, <3>2 DEF Shape, SweepKnows
    <3>4. Cardinality(Attached(sweep.sid)) <= 0
      BY <2>1, <3>1, <3>2, <3>3 DEF CountCovers, Refs
    <3>5. Cardinality(Attached(sweep.sid)) # 0
      <4>1. c \in Attached(sweep.sid)
        BY <2>2 DEF Attached
      <4> QED BY <2>1, <4>1, AttachedFinite, FS_EmptySet
    <3> QED BY <3>4, <3>5, <2>1, AttachedFinite
  <2> QED BY <1>13, <2>1, <2>2 DEF SweepDelete, Holding, TypeOK, entryVars, connVars
<1>14. CASE SweepKill
  BY <1>14 DEF SweepKill, Holding, connVars, ghostVars
<1>15. CASE SweepEnd
  BY <1>15 DEF SweepEnd, Holding, entryVars, connVars, ghostVars
<1>16. CASE UNCHANGED vars
  BY <1>16 DEF vars, Holding, entryVars, connVars, ghostVars
<1> QED
  BY <1>1, <1>2, <1>3, <1>4, <1>5, <1>6, <1>7, <1>8, <1>9, <1>10, <1>11, <1>12,
     <1>13, <1>14, <1>15, <1>16 DEF Next, Call, Sweep

-----------------------------------------------------------------------------
(* The theorems.                                                           *)

LEMMA InitInductive == Init => IInv
<1>1. Init => OnlyOverwritingLosesAgents
  BY DEF Init, OnlyOverwritingLosesAgents
<1>2. Init => Holding
  BY DEF Init, Holding
<1> QED BY <1>1, <1>2, InitType, InitShape, InitCount DEF IInv

LEMMA NextInductive == IInv /\ [Next]_vars => IInv'
  BY NextType, NextShape, NextCount, NextLost, NextHolding DEF IInv

\* The inductive invariant holds in every behaviour of the process table.
THEOREM Inductive == Spec => []IInv
  BY InitInductive, NextInductive, PTL DEF Spec

\* Reference counts never fall below the number of attached connections
\* except through one of the three races (manager.go:42-79, 109-127).
THEOREM CountsCover == Spec => []CountCovers
<1>1. IInv => CountCovers
  BY DEF IInv
<1> QED BY <1>1, Inductive, PTL

\* An attached connection uses the process in the table, or one that a race
\* has overwritten or closed (manager.go:42-89, 109-127).
THEOREM AttachedShare == Spec => []AttachedShareTheProcess
<1>1. IInv => AttachedShareTheProcess
  <2> SUFFICES ASSUME IInv, NEW c \in Conns, sid[c] # NoSession, agent[c] # processes[sid[c]]
               PROVE  /\ sid[c] \in raced
                      /\ \/ agent[c] \in orphans \cup closed
                         \/ sweep.pc = "kill" /\ sweep.entry = agent[c]
    BY DEF AttachedShareTheProcess
  <2>1. /\ agent[c] \in Entries /\ owner[agent[c]] = sid[c]
        /\ sid[c] \in raced
    BY DEF IInv, Holding
  <2> QED BY <2>1 DEF IInv, OnlyOverwritingLosesAgents
<1> QED BY <1>1, Inductive, PTL

\* No lookup hands out an agent that was closed (manager.go:82-89).
THEOREM TableLive == Spec => []TableHoldsLiveAgents
<1>1. IInv => TableHoldsLiveAgents
  BY DEF IInv, Shape
<1> QED BY <1>1, Inductive, PTL

\* Only the create race makes the manager lose an agent (manager.go:64).
THEOREM OnlyOverwritingLoses == Spec => []OnlyOverwritingLosesAgents
<1>1. IInv => OnlyOverwritingLosesAgents
  BY DEF IInv
<1> QED BY <1>1, Inductive, PTL

=============================================================================
