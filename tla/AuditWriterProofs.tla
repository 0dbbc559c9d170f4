------------------------- MODULE AuditWriterProofs --------------------------
(***************************************************************************)
(* Theorems about AuditWriter, for any set of processes, any queue and any *)
(* number of calls.                                                        *)
(***************************************************************************)
EXTENDS AuditWriter, SequenceTheorems, FiniteSetTheorems, TLAPS

InStatement(p) == pc[p] \in {"begin", "head", "commit"}

\* What the writer thread holds at each of its places: a transaction has
\* what it writes, and the thread has run out of commands only when no more
\* can come.
ThreadInv ==
  \A p \in Procs :
    /\ InStatement(p) /\ job[p] = "call" => cmd[p] \in Calls
    /\ InStatement(p) /\ job[p] = "gap" => recorded[p] < observed[p]
    /\ observed[p] <= dropped[p] /\ recorded[p] <= observed[p]
    /\ pc[p] \in {"gone", "recv", "done"} => cmd[p] = NoCall
    /\ life[p] = "off" => pc[p] = "gone"

\* Who is inside a transaction holds the lock, so the head it read is still
\* the head when it commits.
LockInv ==
  \A p \in Procs :
    /\ InTransaction(p) => lock = p
    /\ pc[p] = "commit" => head[p] = Len(rows)

-----------------------------------------------------------------------------
(* Type correctness. *)

LEMMA NoCallIsNoCall == NoCall \notin Calls
BY NoCallAssumption DEF Calls

\* A call that is dropped, or not, leaves the tally and its history typed,
\* and the tally never shrinks.
LEMMA DropTypes ==
  ASSUME TypeOK, NEW p \in Procs, NEW n \in Calls,
         Drop(p, n) \/ UNCHANGED <<dropped, lost>>
  PROVE  /\ dropped' \in [Procs -> Nat] /\ lost' \in [Procs -> SUBSET Calls]
         /\ \A q \in Procs : dropped[q] <= dropped'[q]
<1>1. CASE UNCHANGED <<dropped, lost>>
  BY <1>1 DEF TypeOK
<1>2. CASE Drop(p, n)
  <2>1. dropped' = [dropped EXCEPT ![p] = @ + 1] /\ dropped \in [Procs -> Nat]
    BY <1>2 DEF Drop, TypeOK
  <2>2. lost' = [lost EXCEPT ![p] = @ \cup {n}] /\ lost \in [Procs -> SUBSET Calls]
    BY <1>2 DEF Drop, TypeOK
  <2>3. QED
    BY <2>1, <2>2
<1>3. QED
  BY <1>1, <1>2

LEMMA InitTypes == Init => TypeOK /\ ThreadInv
<1> SUFFICES ASSUME Init PROVE TypeOK /\ ThreadInv
  OBVIOUS
<1>1. TypeOK
  BY MaxCallsIsNat DEF Init, TypeOK, Calls, Lives
<1>2. ThreadInv
  BY DEF Init, ThreadInv, InStatement
<1>3. QED
  BY <1>1, <1>2

LEMMA NextTypes ==
  ASSUME TypeOK, ThreadInv, [Next]_vars
  PROVE  TypeOK'
<1> USE NoCallIsNoCall, MaxCallsIsNat DEF TypeOK, ThreadInv, InStatement
<1>1. ASSUME NEW p \in Procs, Start(p) PROVE TypeOK'
  BY <1>1 DEF Start, dbVars, Lives
<1>2. ASSUME NEW p \in Procs, LogDurable(p) PROVE TypeOK'
  <2>1. sent[p] + 1 \in 0..MaxCalls /\ sent[p] + 1 \in Calls
    BY <1>2 DEF LogDurable, Calls
  <2>2. Append(queue[p], sent[p] + 1) \in Seq(Calls)
    BY <2>1, AppendProperties
  <2>3. QED
    BY <1>2, <2>1, <2>2 DEF LogDurable, dbVars, threadVars
<1>3. ASSUME NEW p \in Procs, RecoveryDone(p) PROVE TypeOK'
  BY <1>3 DEF RecoveryDone, MoveOn, dbVars, threadVars, Lives
<1>4. ASSUME NEW p \in Procs, StartProxying(p) PROVE TypeOK'
  BY <1>4 DEF StartProxying, MoveOn, dbVars, threadVars, Lives
<1>5. ASSUME NEW p \in Procs, CloseHandles(p) PROVE TypeOK'
  BY <1>5 DEF CloseHandles, MoveOn, dbVars, threadVars, Lives
<1>6. ASSUME NEW p \in Procs, StartFails(p) PROVE TypeOK'
  BY <1>6 DEF StartFails, MoveOn, dbVars, threadVars, Lives
<1>7. ASSUME NEW p \in Procs, DrainTimesOut(p) PROVE TypeOK'
  BY <1>7 DEF DrainTimesOut, MoveOn, dbVars, threadVars, Lives
<1>8. ASSUME NEW p \in Procs, LogCall(p) PROVE TypeOK'
  <2>1. sent[p] + 1 \in 0..MaxCalls /\ sent[p] + 1 \in Calls
    BY <1>8 DEF LogCall, Calls
  <2>2. Append(queue[p], sent[p] + 1) \in Seq(Calls)
    BY <2>1, AppendProperties
  <2>3. queue' \in [Procs -> Seq(Calls)] /\ sent' \in [Procs -> 0..MaxCalls]
    BY <1>8, <2>1, <2>2 DEF LogCall
  <2>4. dropped' \in [Procs -> Nat] /\ lost' \in [Procs -> SUBSET Calls]
    BY <1>8, <2>1, DropTypes DEF LogCall
  <2>5. QED
    BY <1>8, <2>3, <2>4 DEF LogCall, dbVars, threadVars
<1>9. ASSUME NEW p \in Procs, Drained(p) PROVE TypeOK'
  BY <1>9 DEF Drained, Finished, dbVars, Lives
<1>10. ASSUME NEW p \in Procs, Leave(p) PROVE TypeOK'
  BY <1>10 DEF Leave, CutOff, Lives
<1>11. ASSUME NEW p \in Procs, Crash(p) PROVE TypeOK'
  BY <1>11 DEF Crash, CutOff, Lives
<1>12. ASSUME NEW p \in Procs, Receive(p) PROVE TypeOK'
  <2>1. Head(queue[p]) \in Calls /\ Tail(queue[p]) \in Seq(Calls)
    BY <1>12, HeadTailProperties DEF Receive, CommandWaiting
  <2>2. QED
    BY <1>12, <2>1 DEF Receive, NextCommand, Goto, dbVars, sideVars
<1>13. ASSUME NEW p \in Procs, ChannelClosed(p) PROVE TypeOK'
  BY <1>13 DEF ChannelClosed, Goto, dbVars, sideVars
<1>14. ASSUME NEW p \in Procs, ReadTally(p) PROVE TypeOK'
  BY <1>14 DEF ReadTally, AfterMarker, Goto, dbVars, sideVars
<1>15. ASSUME NEW p \in Procs, Begin(p) PROVE TypeOK'
  BY <1>15 DEF Begin, CanBegin, Goto, sideVars
<1>16. ASSUME NEW p \in Procs, ReadHead(p) PROVE TypeOK'
  BY <1>16 DEF ReadHead, Goto, dbVars, sideVars
<1>17. ASSUME NEW p \in Procs, CommitCall(p) PROVE TypeOK'
  <2>1. cmd[p] \in Calls
    BY <1>17 DEF CommitCall
  <2>2. Log!NewRow(p, "call", cmd[p], head[p]) \in Log!Rows
    BY <2>1 DEF Log!NewRow, Log!Rows, Calls
  <2>3. rows' \in Seq(Log!Rows)
    BY <1>17, <2>2, AppendProperties DEF CommitCall
  <2>4. ack' \in [Procs -> {"none", "waiting", "ok", "err"}]
    BY <1>17 DEF CommitCall, Answer
  <2>5. QED
    BY <1>17, <2>3, <2>4 DEF CommitCall, Goto
<1>18. ASSUME NEW p \in Procs, CommitGap(p) PROVE TypeOK'
  <2>1. observed[p] - recorded[p] \in Nat
    BY <1>18 DEF CommitGap
  <2>2. Log!NewRow(p, "gap", MarkerSize(p), head[p]) \in Log!Rows
    BY <2>1 DEF MarkerSize, Log!NewRow, Log!Rows
  <2>3. rows' \in Seq(Log!Rows)
    BY <1>18, <2>2, AppendProperties DEF CommitGap
  <2>4. QED
    BY <1>18, <2>3 DEF CommitGap, RecordedByMarker, AfterMarker, Goto, sideVars
<1>19. ASSUME NEW p \in Procs, CallFails(p) PROVE TypeOK'
  <2>1. cmd[p] \in Calls
    BY <1>19 DEF CallFails, Rollback, InTransaction
  <2>2. dropped' \in [Procs -> Nat] /\ lost' \in [Procs -> SUBSET Calls]
    BY <1>19, <2>1, DropTypes DEF CallFails
  <2>3. lock' \in Procs \cup {NoProc} /\ rows' = rows
    BY <1>19 DEF CallFails, Rollback
  <2>4. QED
    BY <1>19, <2>2, <2>3 DEF CallFails, Answer, Goto
<1>20. ASSUME NEW p \in Procs, GapFails(p) PROVE TypeOK'
  BY <1>20 DEF GapFails, Rollback, InTransaction, AfterMarker, Goto, sideVars
<1>21. CASE UNCHANGED vars
  BY <1>21 DEF vars
<1>22. QED
  BY <1>1, <1>2, <1>3, <1>4, <1>5, <1>6, <1>7, <1>8, <1>9, <1>10, <1>11, <1>12, <1>13, <1>14, <1>15, <1>16, <1>17, <1>18, <1>19, <1>20, <1>21
     DEF Next, ProcStep, WriterStep, Terminated

LEMMA NextThread ==
  ASSUME TypeOK, ThreadInv, [Next]_vars
  PROVE  ThreadInv'
<1> USE NoCallIsNoCall, MaxCallsIsNat DEF TypeOK, ThreadInv, InStatement
<1>1. ASSUME NEW p \in Procs, Start(p) PROVE ThreadInv'
  BY <1>1 DEF Start, dbVars, Lives
<1>2. ASSUME NEW p \in Procs, LogDurable(p) PROVE ThreadInv'
  BY <1>2 DEF LogDurable, dbVars, threadVars, Calls
<1>3. ASSUME NEW p \in Procs, RecoveryDone(p) PROVE ThreadInv'
  BY <1>3 DEF RecoveryDone, MoveOn, dbVars, threadVars, Lives
<1>4. ASSUME NEW p \in Procs, StartProxying(p) PROVE ThreadInv'
  BY <1>4 DEF StartProxying, MoveOn, dbVars, threadVars, Lives
<1>5. ASSUME NEW p \in Procs, CloseHandles(p) PROVE ThreadInv'
  BY <1>5 DEF CloseHandles, MoveOn, dbVars, threadVars, Lives
<1>6. ASSUME NEW p \in Procs, StartFails(p) PROVE ThreadInv'
  BY <1>6 DEF StartFails, MoveOn, dbVars, threadVars, Lives
<1>7. ASSUME NEW p \in Procs, DrainTimesOut(p) PROVE ThreadInv'
  BY <1>7 DEF DrainTimesOut, MoveOn, dbVars, threadVars, Lives
<1>8. ASSUME NEW p \in Procs, LogCall(p) PROVE ThreadInv'
  <2>1. sent[p] + 1 \in Calls
    BY <1>8 DEF LogCall, Calls
  <2>2. dropped' \in [Procs -> Nat] /\ \A q \in Procs : dropped[q] <= dropped'[q]
    BY <1>8, <2>1, DropTypes DEF LogCall
  <2>3. UNCHANGED <<pc, cmd, job, observed, recorded, life>>
    BY <1>8 DEF LogCall, threadVars
  <2>4. QED
    BY <2>2, <2>3
<1>9. ASSUME NEW p \in Procs, Drained(p) PROVE ThreadInv'
  BY <1>9 DEF Drained, Finished, dbVars, Lives
<1>10. ASSUME NEW p \in Procs, Leave(p) PROVE ThreadInv'
  BY <1>10 DEF Leave, CutOff, Lives
<1>11. ASSUME NEW p \in Procs, Crash(p) PROVE ThreadInv'
  BY <1>11 DEF Crash, CutOff, Lives
<1>12. ASSUME NEW p \in Procs, Receive(p) PROVE ThreadInv'
  BY <1>12 DEF Receive, CommandWaiting, NextCommand, Goto, dbVars, sideVars
<1>13. ASSUME NEW p \in Procs, ChannelClosed(p) PROVE ThreadInv'
  BY <1>13 DEF ChannelClosed, Goto, dbVars, sideVars
<1>14. ASSUME NEW p \in Procs, ReadTally(p) PROVE ThreadInv'
  <2>1. CASE dropped[p] > recorded[p]
    <3>1. /\ observed' = [observed EXCEPT ![p] = dropped[p]]
          /\ job' = [job EXCEPT ![p] = "gap"] /\ pc' = [pc EXCEPT ![p] = "begin"]
          /\ UNCHANGED <<life, dropped, cmd, recorded>> /\ life[p] # "off"
      BY <1>14, <2>1 DEF ReadTally, Goto, sideVars, Alive
    <3>2. observed[p] \in Nat /\ dropped[p] \in Nat /\ recorded[p] \in Nat
      OBVIOUS
    <3>3. QED
      BY <2>1, <3>1, <3>2
  <2>2. CASE ~(dropped[p] > recorded[p]) /\ cmd[p] = NoCall
    <3>1. /\ observed' = [observed EXCEPT ![p] = dropped[p]]
          /\ job' = [job EXCEPT ![p] = "call"] /\ pc' = [pc EXCEPT ![p] = "done"]
          /\ UNCHANGED <<life, dropped, cmd, recorded>> /\ life[p] # "off"
      BY <1>14, <2>2 DEF ReadTally, AfterMarker, Goto, sideVars, Alive
    <3>2. observed[p] \in Nat /\ dropped[p] \in Nat /\ recorded[p] \in Nat
      OBVIOUS
    <3>3. QED
      BY <2>2, <3>1, <3>2
  <2>3. CASE ~(dropped[p] > recorded[p]) /\ cmd[p] # NoCall
    <3>1. /\ observed' = [observed EXCEPT ![p] = dropped[p]]
          /\ job' = [job EXCEPT ![p] = "call"] /\ pc' = [pc EXCEPT ![p] = "begin"]
          /\ UNCHANGED <<life, dropped, cmd, recorded>> /\ life[p] # "off"
      BY <1>14, <2>3 DEF ReadTally, AfterMarker, Goto, sideVars, Alive
    <3>2. observed[p] \in Nat /\ dropped[p] \in Nat /\ recorded[p] \in Nat
      OBVIOUS
    <3>3. QED
      BY <2>3, <3>1, <3>2
  <2>4. QED
    BY <2>1, <2>2, <2>3
<1>15. ASSUME NEW p \in Procs, Begin(p) PROVE ThreadInv'
  BY <1>15 DEF Begin, CanBegin, Goto, sideVars
<1>16. ASSUME NEW p \in Procs, ReadHead(p) PROVE ThreadInv'
  BY <1>16 DEF ReadHead, Goto, dbVars, sideVars
<1>17. ASSUME NEW p \in Procs, CommitCall(p) PROVE ThreadInv'
  BY <1>17 DEF CommitCall, Answer, Goto, Log!NewRow, Log!Rows, Calls
<1>18. ASSUME NEW p \in Procs, CommitGap(p) PROVE ThreadInv'
  BY <1>18 DEF CommitGap, MarkerSize, RecordedByMarker, AfterMarker, Goto, Log!NewRow, Log!Rows, sideVars
<1>19. ASSUME NEW p \in Procs, CallFails(p) PROVE ThreadInv'
  <2>1. cmd[p] \in Calls
    BY <1>19 DEF CallFails, Rollback, InTransaction
  <2>2. dropped' \in [Procs -> Nat] /\ \A q \in Procs : dropped[q] <= dropped'[q]
    BY <1>19, <2>1, DropTypes DEF CallFails
  <2>3. /\ cmd' = [cmd EXCEPT ![p] = NoCall] /\ pc' = [pc EXCEPT ![p] = "recv"]
        /\ UNCHANGED <<job, observed, recorded, life>> /\ life[p] # "off"
    BY <1>19 DEF CallFails, Goto, Rollback, Alive
  <2>4. QED
    BY <2>2, <2>3
<1>20. ASSUME NEW p \in Procs, GapFails(p) PROVE ThreadInv'
  BY <1>20 DEF GapFails, Rollback, InTransaction, AfterMarker, Goto, sideVars
<1>21. CASE UNCHANGED vars
  BY <1>21 DEF vars
<1>22. QED
  BY <1>1, <1>2, <1>3, <1>4, <1>5, <1>6, <1>7, <1>8, <1>9, <1>10, <1>11, <1>12, <1>13, <1>14, <1>15, <1>16, <1>17, <1>18, <1>19, <1>20, <1>21
     DEF Next, ProcStep, WriterStep, Terminated

\* The type invariant holds for every set of processes: the rows the writer
\* builds are well formed, so a marker never declares a negative number and
\* no row is built without a command in hand (writer_loop,
\* persist_audit_gap).
THEOREM TypeCorrect == Spec => [](TypeOK /\ ThreadInv)
<1>1. Init => TypeOK /\ ThreadInv
  BY InitTypes
<1>2. (TypeOK /\ ThreadInv) /\ [Next]_vars => (TypeOK /\ ThreadInv)'
  BY NextTypes, NextThread
<1>3. QED
  BY <1>1, <1>2, PTL DEF Spec

-----------------------------------------------------------------------------
(* The chain has no fork. *)

\* A row that carries the hash of the head extends a linear chain.
LEMMA AppendLinear ==
  ASSUME TypeOK, ChainIsLinear, NEW r \in Log!Rows, r.prev = Len(rows),
         rows' = Append(rows, r)
  PROVE  ChainIsLinear'
<1>1. rows \in Seq(Log!Rows) /\ Len(rows) \in Nat
  BY DEF TypeOK
<1>2. /\ DOMAIN rows' = 1..(Len(rows) + 1)
      /\ \A i \in 1..Len(rows) : rows'[i] = rows[i]
      /\ rows'[Len(rows) + 1] = r
  BY <1>1, AppendProperties
<1>3. SUFFICES ASSUME NEW i \in DOMAIN rows' PROVE rows'[i].prev = i - 1
  BY DEF ChainIsLinear
<1>4. CASE i \in 1..Len(rows)
  BY <1>1, <1>2, <1>4 DEF ChainIsLinear
<1>5. CASE i = Len(rows) + 1
  BY <1>1, <1>2, <1>5
<1>6. QED
  BY <1>1, <1>2, <1>4, <1>5

\* A step that moves one thread within what the lock allows, and appends
\* nothing, keeps LockInv and the chain.
LEMMA QuietKeepsLock ==
  ASSUME TypeOK, LockInv, ChainIsLinear, UNCHANGED <<rows, lock, head>>,
         NEW p \in Procs, NEW place \in {"gone", "recv", "tally", "begin", "done"},
         pc' = pc \/ pc' = [pc EXCEPT ![p] = place]
  PROVE  LockInv' /\ ChainIsLinear'
BY DEF TypeOK, LockInv, InTransaction, ChainIsLinear

\* The same for a step that gives up the lock its thread may hold.
LEMMA ReleaseKeepsLock ==
  ASSUME TypeOK, LockInv, NEW p \in Procs,
         NEW place \in {"gone", "recv", "tally", "begin", "done"},
         pc' = [pc EXCEPT ![p] = place], UNCHANGED head,
         \/ lock' = NoProc /\ InTransaction(p)
         \/ lock' = (IF lock = p THEN NoProc ELSE lock) /\ UNCHANGED rows
         \/ UNCHANGED <<lock, rows>>
  PROVE  LockInv'
<1>1. SUFFICES ASSUME NEW q \in Procs, pc'[q] \in {"head", "commit"}
               PROVE lock' = q /\ (pc'[q] = "commit" => head'[q] = Len(rows'))
  BY DEF LockInv, InTransaction
<1>2. q # p /\ pc'[q] = pc[q]
  BY <1>1 DEF TypeOK
<1>3. lock = q /\ (pc[q] = "commit" => head[q] = Len(rows))
  BY <1>1, <1>2 DEF LockInv, InTransaction
<1>4. ~InTransaction(p)
  BY <1>2, <1>3 DEF LockInv
<1>5. QED
  BY <1>2, <1>3, <1>4

LEMMA NextChain ==
  ASSUME TypeOK, ThreadInv, LockInv, ChainIsLinear, [Next]_vars
  PROVE  LockInv' /\ ChainIsLinear'
<1>1. ASSUME NEW p \in Procs,
             \/ LogDurable(p) \/ RecoveryDone(p) \/ StartProxying(p)
             \/ StartFails(p) \/ LogCall(p) \/ CloseHandles(p) \/ DrainTimesOut(p)
      PROVE  LockInv' /\ ChainIsLinear'
  <2>1. UNCHANGED <<rows, lock, head, pc>>
    BY <1>1 DEF LogDurable, RecoveryDone, StartProxying, StartFails, LogCall,
                CloseHandles, DrainTimesOut, MoveOn, dbVars, threadVars
  <2>2. QED
    BY <2>1, QuietKeepsLock
<1>2. ASSUME NEW p \in Procs,
             \/ Start(p) \/ Drained(p) \/ Receive(p) \/ ChannelClosed(p)
             \/ ReadTally(p)
      PROVE  LockInv' /\ ChainIsLinear'
  <2>1. /\ UNCHANGED <<rows, lock, head>>
        /\ \E place \in {"gone", "recv", "tally", "begin", "done"} :
             pc' = [pc EXCEPT ![p] = place]
    BY <1>2 DEF Start, Drained, Receive, ChannelClosed, ReadTally, Goto,
                AfterMarker, dbVars
  <2>2. QED
    BY <2>1, QuietKeepsLock
<1>3. ASSUME NEW p \in Procs, Leave(p) \/ Crash(p)
      PROVE  LockInv' /\ ChainIsLinear'
  <2>1. /\ pc' = [pc EXCEPT ![p] = "gone"] /\ UNCHANGED <<rows, head>>
        /\ lock' = (IF lock = p THEN NoProc ELSE lock)
    BY <1>3 DEF Leave, Crash, CutOff
  <2>2. QED
    BY <2>1, ReleaseKeepsLock DEF ChainIsLinear
<1>4. ASSUME NEW p \in Procs, Begin(p) PROVE LockInv' /\ ChainIsLinear'
  <2>1. /\ lock = NoProc /\ lock' = p /\ UNCHANGED <<rows, head>>
        /\ pc' = [pc EXCEPT ![p] = "head"]
    BY <1>4 DEF Begin, CanBegin, Goto
  <2>2. \A q \in Procs : ~InTransaction(q)
    BY <2>1, NoProcAssumption DEF LockInv
  <2>3. QED
    BY <2>1, <2>2 DEF TypeOK, LockInv, InTransaction, ChainIsLinear
<1>5. ASSUME NEW p \in Procs, ReadHead(p) PROVE LockInv' /\ ChainIsLinear'
  <2>1. /\ pc[p] = "head" /\ head' = [head EXCEPT ![p] = Len(rows)]
        /\ pc' = [pc EXCEPT ![p] = "commit"] /\ UNCHANGED <<rows, lock>>
    BY <1>5 DEF ReadHead, Goto, dbVars
  <2>2. QED
    BY <2>1 DEF TypeOK, LockInv, InTransaction, ChainIsLinear
<1>6. ASSUME NEW p \in Procs, CommitCall(p) PROVE LockInv' /\ ChainIsLinear'
  <2>1. /\ pc[p] = "commit" /\ lock' = NoProc /\ UNCHANGED head
        /\ pc' = [pc EXCEPT ![p] = "recv"]
        /\ rows' = Append(rows, Log!NewRow(p, "call", cmd[p], head[p]))
    BY <1>6 DEF CommitCall, Goto
  <2>2. head[p] = Len(rows) /\ InTransaction(p) /\ head[p] \in Nat
    BY <2>1 DEF LockInv, InTransaction, TypeOK
  <2>3. cmd[p] \in Calls
    BY <1>6 DEF CommitCall, ThreadInv, InStatement
  <2>4. /\ Log!NewRow(p, "call", cmd[p], head[p]) \in Log!Rows
        /\ Log!NewRow(p, "call", cmd[p], head[p]).prev = Len(rows)
    BY <2>2, <2>3 DEF Log!NewRow, Log!Rows, Calls
  <2>5. ChainIsLinear'
    BY <2>1, <2>4, AppendLinear
  <2>6. QED
    BY <2>1, <2>2, <2>5, ReleaseKeepsLock
<1>7. ASSUME NEW p \in Procs, CommitGap(p) PROVE LockInv' /\ ChainIsLinear'
  <2>1. /\ pc[p] = "commit" /\ lock' = NoProc /\ UNCHANGED head
        /\ pc' = [pc EXCEPT ![p] = AfterMarker(p)]
        /\ rows' = Append(rows, Log!NewRow(p, "gap", MarkerSize(p), head[p]))
    BY <1>7 DEF CommitGap, Goto
  <2>2. head[p] = Len(rows) /\ InTransaction(p) /\ head[p] \in Nat
    BY <2>1 DEF LockInv, InTransaction, TypeOK
  <2>3. MarkerSize(p) \in Nat
    BY <1>7 DEF CommitGap, ThreadInv, InStatement, MarkerSize, TypeOK
  <2>4. /\ Log!NewRow(p, "gap", MarkerSize(p), head[p]) \in Log!Rows
        /\ Log!NewRow(p, "gap", MarkerSize(p), head[p]).prev = Len(rows)
    BY <2>2, <2>3 DEF Log!NewRow, Log!Rows
  <2>5. ChainIsLinear'
    BY <2>1, <2>4, AppendLinear
  <2>6. AfterMarker(p) \in {"gone", "recv", "tally", "begin", "done"}
    BY DEF AfterMarker
  <2>7. QED
    BY <2>1, <2>2, <2>5, <2>6, ReleaseKeepsLock
<1>8. ASSUME NEW p \in Procs, CallFails(p) \/ GapFails(p)
      PROVE  LockInv' /\ ChainIsLinear'
  <2>1. /\ UNCHANGED <<rows, head>>
        /\ lock' = (IF InTransaction(p) THEN NoProc ELSE lock)
        /\ \E place \in {"gone", "recv", "tally", "begin", "done"} :
             pc' = [pc EXCEPT ![p] = place]
    BY <1>8 DEF CallFails, GapFails, Rollback, Goto, AfterMarker
  <2>2. LockInv'
    BY <2>1, ReleaseKeepsLock
  <2>3. QED
    BY <2>1, <2>2 DEF ChainIsLinear
<1>9. CASE UNCHANGED vars
  BY <1>9 DEF vars, LockInv, InTransaction, ChainIsLinear
<1>10. QED
  BY <1>1, <1>2, <1>3, <1>4, <1>5, <1>6, <1>7, <1>8, <1>9
     DEF Next, ProcStep, WriterStep, Terminated

\* No interleaving, failure or kill of any number of processes forks the
\* chain: the head is read under the write lock that the commit releases
\* (insert_row_with_key).
THEOREM ChainNeverForks == Spec => []ChainIsLinear
<1>1. Init => LockInv /\ ChainIsLinear
  BY DEF Init, LockInv, InTransaction, ChainIsLinear
<1>2. (TypeOK /\ ThreadInv) /\ (LockInv /\ ChainIsLinear) /\ [Next]_vars
        => (LockInv /\ ChainIsLinear)'
  BY NextChain
<1>3. QED
  BY <1>1, <1>2, TypeCorrect, PTL DEF Spec

-----------------------------------------------------------------------------
(* Every call is accounted for. *)

Ordered(q) == \A i, j \in DOMAIN q : i < j => q[i] < q[j]

\* The calls of one process pass, in order, from the channel to the writer's
\* hand to the database, or to the tally; only the end of the process makes
\* one vanish.
AccountOf(p) ==
  /\ Ordered(queue[p])
  /\ \A m \in Stored(p), n \in InHand(p) \cup Queued(p) : m < n
  /\ \A m \in InHand(p), n \in Queued(p) : m < n
  /\ Stored(p) \cup Queued(p) \cup InHand(p) \cup lost[p] \subseteq 1..sent[p]
  /\ lost[p] \cap (Stored(p) \cup Queued(p) \cup InHand(p)) = {}
  /\ IsFiniteSet(lost[p]) /\ Cardinality(lost[p]) = dropped[p]
  /\ life[p] # "cut" =>
       1..sent[p] \subseteq Stored(p) \cup Queued(p) \cup InHand(p) \cup lost[p]

\* A writer with nothing more to write has a closed and empty channel, and
\* who reports success has such a writer.
EndOf(p) ==
  /\ pc[p] \notin {"gone", "recv"} /\ cmd[p] = NoCall
       => queue[p] = <<>> /\ ~HandlesOpen(p)
  /\ life[p] = "exited" => queue[p] = <<>> /\ cmd[p] = NoCall /\ pc[p] = "gone"
  /\ exit[p] = "ok" => life[p] = "exited" /\ dropped[p] = 0
  /\ life[p] = "off" => pc[p] = "gone" /\ exit[p] = "none"

AccountInv == \A p \in Procs : AccountOf(p) /\ EndOf(p)

\* The rows of a process are in the order of its calls.
OrderInv ==
  /\ \A i \in DOMAIN rows : rows[i].kind = "call" => rows[i].n \in Calls
  /\ RowsKeepCallOrder

LEMMA AppendOrdered ==
  ASSUME NEW q \in Seq(Calls), NEW n \in Calls, Ordered(q),
         \A m \in {q[i] : i \in DOMAIN q} : m < n
  PROVE  /\ Ordered(Append(q, n))
         /\ {Append(q, n)[i] : i \in DOMAIN Append(q, n)} = {q[i] : i \in DOMAIN q} \cup {n}
<1> DEFINE a == Append(q, n)
<1>1. /\ Len(q) \in Nat /\ DOMAIN q = 1..Len(q) /\ DOMAIN a = 1..(Len(q) + 1)
      /\ \A i \in 1..Len(q) : a[i] = q[i]
      /\ a[Len(q) + 1] = n
  BY AppendProperties
<1>2. Ordered(a)
  <2>1. SUFFICES ASSUME NEW i \in DOMAIN a, NEW j \in DOMAIN a, i < j
                 PROVE a[i] < a[j]
    BY DEF Ordered
  <2>2. i \in 1..Len(q)
    BY <1>1, <2>1
  <2>3. CASE j \in 1..Len(q)
    BY <1>1, <2>1, <2>2, <2>3 DEF Ordered
  <2>4. CASE j = Len(q) + 1
    BY <1>1, <2>2, <2>4
  <2>5. QED
    BY <1>1, <2>3, <2>4
<1>3. {a[i] : i \in DOMAIN a} = {q[i] : i \in DOMAIN q} \cup {n}
  <2>1. ASSUME NEW x \in {a[i] : i \in DOMAIN a} PROVE x \in {q[i] : i \in DOMAIN q} \cup {n}
    BY <1>1
  <2>2. ASSUME NEW x \in {q[i] : i \in DOMAIN q} \cup {n} PROVE x \in {a[i] : i \in DOMAIN a}
    BY <1>1
  <2>3. QED
    BY <2>1, <2>2
<1>4. QED
  BY <1>2, <1>3

LEMMA TailOrdered ==
  ASSUME NEW q \in Seq(Calls), q # <<>>, Ordered(q)
  PROVE  /\ Head(q) \in Calls
         /\ Ordered(Tail(q))
         /\ {q[i] : i \in DOMAIN q} = {Head(q)} \cup {Tail(q)[i] : i \in DOMAIN Tail(q)}
         /\ \A n \in {Tail(q)[i] : i \in DOMAIN Tail(q)} : Head(q) < n
<1> DEFINE t == Tail(q)
<1>1. /\ Len(q) \in Nat \ {0} /\ DOMAIN q = 1..Len(q)
      /\ Head(q) = q[1] /\ Head(q) \in Calls
      /\ t \in Seq(Calls) /\ DOMAIN t = 1..(Len(q) - 1)
      /\ \A i \in 1..(Len(q) - 1) : t[i] = q[i + 1]
  BY HeadTailProperties, EmptySeq
<1>2. Ordered(t)
  BY <1>1 DEF Ordered
<1>3. \A i \in DOMAIN t : Head(q) < t[i]
  BY <1>1 DEF Ordered
<1>4. ASSUME NEW i \in DOMAIN q PROVE q[i] \in {Head(q)} \cup {t[j] : j \in DOMAIN t}
  <2>1. CASE i = 1
    BY <1>1, <2>1
  <2>2. CASE i # 1
    <3>1. i - 1 \in DOMAIN t /\ t[i - 1] = q[i]
      BY <1>1, <2>2
    <3>2. QED
      BY <3>1
  <2>3. QED
    BY <2>1, <2>2
<1>5. \A i \in DOMAIN t : t[i] \in {q[j] : j \in DOMAIN q}
  BY <1>1
<1>6. Head(q) \in {q[j] : j \in DOMAIN q}
  BY <1>1
<1>7. QED
  BY <1>1, <1>2, <1>3, <1>4, <1>5, <1>6

\* What a committed row adds to the stored calls of each process.
LEMMA StoredAppend ==
  ASSUME TypeOK, NEW p \in Procs, NEW k \in {"call", "gap"}, NEW n \in Nat, NEW h,
         k = "call" => n \in Calls,
         rows' = Append(rows, Log!NewRow(p, k, n, h))
  PROVE  \A q \in Procs :
           Stored(q)' = IF q = p /\ k = "call" THEN Stored(q) \cup {n} ELSE Stored(q)
<1> DEFINE r == Log!NewRow(p, k, n, h)
<1>1. /\ Len(rows) \in Nat /\ DOMAIN rows = 1..Len(rows)
      /\ DOMAIN rows' = 1..(Len(rows) + 1)
      /\ \A i \in 1..Len(rows) : rows'[i] = rows[i]
      /\ rows'[Len(rows) + 1] = r
  BY AppendProperties DEF TypeOK
<1>2. r.proc = p /\ r.kind = k /\ r.n = n
  BY DEF Log!NewRow
<1>3. SUFFICES ASSUME NEW q \in Procs
               PROVE  Stored(q)' = IF q = p /\ k = "call" THEN Stored(q) \cup {n} ELSE Stored(q)
  OBVIOUS
<1>4. ASSUME NEW m \in Calls
      PROVE  m \in Stored(q)' <=> m \in Stored(q) \/ (q = p /\ k = "call" /\ m = n)
  BY <1>1, <1>2 DEF Stored, Log!RecordedIn, Log!Calls, Calls
<1>5. Stored(q) \subseteq Calls /\ Stored(q)' \subseteq Calls
  BY DEF Stored, Log!RecordedIn, Log!Calls, Calls
<1>6. QED
  BY <1>4, <1>5

\* The rows stay in order when a call later than all stored ones is added.
LEMMA OrderAppend ==
  ASSUME TypeOK, OrderInv, NEW p \in Procs, NEW k \in {"call", "gap"}, NEW n \in Nat, NEW h,
         k = "call" => n \in Calls /\ \A m \in Stored(p) : m < n,
         rows' = Append(rows, Log!NewRow(p, k, n, h))
  PROVE  OrderInv'
<1> DEFINE r == Log!NewRow(p, k, n, h)
<1>1. /\ Len(rows) \in Nat /\ DOMAIN rows = 1..Len(rows)
      /\ DOMAIN rows' = 1..(Len(rows) + 1)
      /\ \A i \in 1..Len(rows) : rows'[i] = rows[i]
      /\ rows'[Len(rows) + 1] = r
  BY AppendProperties DEF TypeOK
<1>2. r.proc = p /\ r.kind = k /\ r.n = n
  BY DEF Log!NewRow
<1>3. \A i \in DOMAIN rows' : rows'[i].kind = "call" => rows'[i].n \in Calls
  BY <1>1, <1>2 DEF OrderInv
<1>4. ASSUME NEW i \in DOMAIN rows', NEW j \in DOMAIN rows', i < j,
             rows'[i].proc = rows'[j].proc, rows'[i].kind = "call", rows'[j].kind = "call"
      PROVE  rows'[i].n < rows'[j].n
  <2>1. i \in DOMAIN rows /\ rows'[i] = rows[i]
    BY <1>1, <1>4
  <2>2. CASE j \in DOMAIN rows
    BY <1>1, <1>4, <2>1, <2>2 DEF OrderInv, RowsKeepCallOrder
  <2>3. CASE j = Len(rows) + 1
    <3>1. rows[i].proc = p /\ rows[i].kind = "call" /\ rows[i].n \in Calls /\ k = "call"
      BY <1>1, <1>2, <1>4, <2>1, <2>3 DEF OrderInv
    <3>2. rows[i].n \in Stored(p)
      BY <2>1, <3>1 DEF Stored, Log!RecordedIn, Log!Calls, Calls
    <3>3. QED
      BY <1>1, <1>2, <2>1, <2>3, <3>1, <3>2
  <2>4. QED
    BY <1>1, <2>2, <2>3
<1>5. QED
  BY <1>3, <1>4 DEF OrderInv, RowsKeepCallOrder

LEMMA SameAccount ==
  ASSUME AccountInv, NEW q \in Procs,
         UNCHANGED <<sent[q], queue[q], dropped[q], lost[q], cmd[q]>>,
         Stored(q)' = Stored(q),
         life'[q] # "cut" => life[q] # "cut"
  PROVE  AccountOf(q)'
BY DEF AccountInv, AccountOf, Ordered, Queued, InHand

LEMMA SameEnd ==
  ASSUME AccountInv, NEW q \in Procs,
         UNCHANGED <<life[q], queue[q], dropped[q], cmd[q], exit[q], pc[q]>>
  PROVE  EndOf(q)'
BY DEF AccountInv, EndOf, HandlesOpen

\* The steps that move a process or its thread and no call.
LEMMA MovesKeepAccount ==
  ASSUME TypeOK, ThreadInv, AccountInv, NEW p \in Procs,
         \/ Start(p) \/ RecoveryDone(p) \/ StartProxying(p) \/ StartFails(p)
         \/ CloseHandles(p) \/ DrainTimesOut(p) \/ Drained(p) \/ ChannelClosed(p)
         \/ ReadTally(p) \/ Begin(p) \/ ReadHead(p) \/ GapFails(p)
  PROVE  AccountInv' /\ UNCHANGED rows
<1>1. UNCHANGED <<rows, sent, queue, dropped, lost, cmd>>
  BY DEF Start, RecoveryDone, StartProxying, StartFails, CloseHandles,
         DrainTimesOut, MoveOn, Drained, ChannelClosed, ReadTally, Begin, ReadHead,
         GapFails, Rollback, dbVars, sideVars, threadVars
<1>2. \A q \in Procs : life'[q] # "cut" => life[q] # "cut"
  BY DEF Start, RecoveryDone, StartProxying, StartFails, CloseHandles,
         DrainTimesOut, MoveOn, Drained, ChannelClosed, ReadTally, Begin, ReadHead,
         GapFails, sideVars, TypeOK
<1>3. \A q \in Procs : AccountOf(q)'
  BY <1>1, <1>2, SameAccount DEF Stored
<1>4. ASSUME NEW q \in Procs, q # p PROVE EndOf(q)'
  <2>1. UNCHANGED <<life[q], exit[q], pc[q]>>
    BY <1>4 DEF Start, RecoveryDone, StartProxying, StartFails, CloseHandles,
         DrainTimesOut, MoveOn, Drained, ChannelClosed, ReadTally, Begin, ReadHead,
         GapFails, Goto, sideVars, threadVars, TypeOK
  <2>2. QED
    BY <1>1, <2>1, SameEnd
<1>5. EndOf(p)'
  <2>. USE <1>1 DEF TypeOK, ThreadInv, InStatement, AccountInv, EndOf, HandlesOpen
  <2>1. CASE Start(p)
    BY <2>1 DEF Start
  <2>2. CASE RecoveryDone(p) \/ StartProxying(p) \/ CloseHandles(p)
    BY <2>2 DEF RecoveryDone, StartProxying, CloseHandles, MoveOn, threadVars
  <2>3. CASE StartFails(p) \/ DrainTimesOut(p)
    BY <2>3 DEF StartFails, DrainTimesOut, MoveOn, threadVars
  <2>4. CASE Drained(p)
    BY <2>4 DEF Drained, Finished
  <2>5. CASE ChannelClosed(p)
    BY <2>5 DEF ChannelClosed, Goto, sideVars
  <2>6. CASE ReadTally(p)
    BY <2>6 DEF ReadTally, AfterMarker, Goto, sideVars
  <2>7. CASE Begin(p) \/ ReadHead(p)
    BY <2>7 DEF Begin, ReadHead, Goto, sideVars
  <2>8. CASE GapFails(p)
    BY <2>8 DEF GapFails, Rollback, InTransaction, AfterMarker, Goto, sideVars
  <2>9. QED
    BY <2>1, <2>2, <2>3, <2>4, <2>5, <2>6, <2>7, <2>8
<1>6. QED
  BY <1>1, <1>3, <1>4, <1>5 DEF AccountInv
\* A call that enters the channel is the newest of its process.
LEMMA SubmitKeepsAccount ==
  ASSUME TypeOK, AccountInv, NEW p \in Procs, sent[p] + 1 \in Calls, HandlesOpen(p),
         UNCHANGED <<rows, dropped, lost, cmd, life, exit, pc>>,
         sent' = [sent EXCEPT ![p] = sent[p] + 1],
         queue' = [queue EXCEPT ![p] = Append(@, sent[p] + 1)]
  PROVE  AccountOf(p)' /\ EndOf(p)'
<1>. DEFINE n == sent[p] + 1
            held == Stored(p) \cup Queued(p) \cup InHand(p) \cup lost[p]
<1>1. /\ queue[p] \in Seq(Calls) /\ sent[p] \in Nat /\ n \in Calls
      /\ AccountOf(p) /\ EndOf(p)
  BY DEF TypeOK, AccountInv
<1>2. /\ queue'[p] = Append(queue[p], n) /\ sent'[p] = n
      /\ Stored(p)' = Stored(p) /\ InHand(p)' = InHand(p)
  BY DEF TypeOK, Stored, InHand
<1>3. \A m \in held : m \in 1..sent[p]
  BY <1>1 DEF AccountOf
<1>4. \A m \in held : m < n /\ m # n
  BY <1>1, <1>3
<1>5. Ordered(Append(queue[p], n)) /\ Queued(p)' = Queued(p) \cup {n}
  <2>1. Ordered(queue[p]) /\ \A m \in {queue[p][i] : i \in DOMAIN queue[p]} : m < n
    BY <1>1, <1>4 DEF AccountOf, Queued
  <2>2. QED
    <3>1. /\ Ordered(Append(queue[p], n))
          /\ {Append(queue[p], n)[i] : i \in DOMAIN Append(queue[p], n)}
               = {queue[p][i] : i \in DOMAIN queue[p]} \cup {n}
      BY <1>1, <2>1, AppendOrdered
    <3>2. QED
      BY <1>2, <3>1 DEF Queued
<1>6. 1..n = 1..sent[p] \cup {n}
  BY <1>1
<1>7. AccountOf(p)'
  <2>1. /\ Ordered(queue'[p])
        /\ \A m \in Stored(p), k \in InHand(p) \cup Queued(p)' : m < k
        /\ \A m \in InHand(p), k \in Queued(p)' : m < k
    BY <1>1, <1>2, <1>4, <1>5 DEF AccountOf
  <2>2. /\ Stored(p) \cup Queued(p)' \cup InHand(p) \cup lost[p] \subseteq 1..n
        /\ lost[p] \cap (Stored(p) \cup Queued(p)' \cup InHand(p)) = {}
        /\ life[p] # "cut" =>
             1..n \subseteq Stored(p) \cup Queued(p)' \cup InHand(p) \cup lost[p]
    BY <1>1, <1>4, <1>5, <1>6 DEF AccountOf
  <2>3. QED
    BY <1>1, <1>2, <2>1, <2>2 DEF AccountOf
<1>8. EndOf(p)'
  BY <1>1 DEF EndOf, HandlesOpen
<1>9. QED
  BY <1>7, <1>8

LEMMA LogDurableAccount ==
  ASSUME TypeOK, AccountInv, NEW p \in Procs, LogDurable(p)
  PROVE  AccountInv' /\ UNCHANGED rows
<1>. DEFINE n == sent[p] + 1
<1>1. /\ UNCHANGED <<rows, dropped, lost, cmd, life, exit, pc>>
      /\ sent' = [sent EXCEPT ![p] = n]
      /\ queue' = [queue EXCEPT ![p] = Append(@, n)]
      /\ n \in Calls /\ life[p] = "recovering"
  BY MaxCallsIsNat DEF LogDurable, dbVars, threadVars, TypeOK, Calls
<1>2. ASSUME NEW q \in Procs, q # p PROVE AccountOf(q)' /\ EndOf(q)'
  BY <1>1, <1>2, SameAccount, SameEnd DEF TypeOK, Stored
<1>3. AccountOf(p)' /\ EndOf(p)'
  BY <1>1, SubmitKeepsAccount DEF HandlesOpen
<1>4. QED
  BY <1>1, <1>2, <1>3 DEF AccountInv
\* A call that enters the tally is counted once.
LEMMA TallyAdds ==
  ASSUME TypeOK, NEW p \in Procs, NEW n \in Calls, Drop(p, n), n \notin lost[p],
         IsFiniteSet(lost[p]), Cardinality(lost[p]) = dropped[p]
  PROVE  /\ lost'[p] = lost[p] \cup {n} /\ dropped'[p] = dropped[p] + 1
         /\ IsFiniteSet(lost'[p]) /\ Cardinality(lost'[p]) = dropped'[p]
         /\ \A q \in Procs : q # p => lost'[q] = lost[q] /\ dropped'[q] = dropped[q]
<1>1. /\ lost'[p] = lost[p] \cup {n} /\ dropped'[p] = dropped[p] + 1
      /\ \A q \in Procs : q # p => lost'[q] = lost[q] /\ dropped'[q] = dropped[q]
  BY DEF Drop, TypeOK
<1>2. /\ IsFiniteSet(lost[p] \cup {n})
      /\ Cardinality(lost[p] \cup {n}) = Cardinality(lost[p]) + 1
  BY FS_AddElement
<1>3. QED
  BY <1>1, <1>2

LEMMA LogCallAccount ==
  ASSUME TypeOK, AccountInv, NEW p \in Procs, LogCall(p)
  PROVE  AccountInv' /\ UNCHANGED rows
<1>. DEFINE n == sent[p] + 1
<1>1. /\ UNCHANGED <<rows, cmd, life, exit, pc>>
      /\ sent' = [sent EXCEPT ![p] = n]
      /\ n \in Calls /\ life[p] \in {"starting", "running"}
  BY MaxCallsIsNat DEF LogCall, dbVars, threadVars, TypeOK, Calls
<1>2. CASE queue' = [queue EXCEPT ![p] = Append(@, n)] /\ UNCHANGED <<dropped, lost>>
  <2>1. ASSUME NEW q \in Procs, q # p PROVE AccountOf(q)' /\ EndOf(q)'
    BY <1>1, <1>2, <2>1, SameAccount, SameEnd DEF TypeOK, Stored
  <2>2. AccountOf(p)' /\ EndOf(p)'
    BY <1>1, <1>2, SubmitKeepsAccount DEF HandlesOpen
  <2>3. QED
    BY <1>1, <2>1, <2>2 DEF AccountInv
<1>3. CASE Drop(p, n) /\ UNCHANGED queue
  <2>1. /\ AccountOf(p) /\ EndOf(p) /\ sent[p] \in Nat /\ sent'[p] = n
        /\ \A q \in Procs : UNCHANGED <<Stored(q), Queued(q), InHand(q)>>
    BY <1>1, <1>3 DEF AccountInv, TypeOK, Stored, Queued, InHand
  <2>2. n \notin Stored(p) \cup Queued(p) \cup InHand(p) \cup lost[p]
    BY <2>1 DEF AccountOf
  <2>3. /\ lost'[p] = lost[p] \cup {n} /\ dropped'[p] = dropped[p] + 1
        /\ IsFiniteSet(lost'[p]) /\ Cardinality(lost'[p]) = dropped'[p]
        /\ \A q \in Procs : q # p => lost'[q] = lost[q] /\ dropped'[q] = dropped[q]
    BY <1>1, <1>3, <2>1, <2>2, TallyAdds DEF AccountOf
  <2>4. ASSUME NEW q \in Procs, q # p PROVE AccountOf(q)' /\ EndOf(q)'
    BY <1>1, <1>3, <2>1, <2>3, <2>4, SameAccount, SameEnd DEF TypeOK
  <2>5. 1..n = 1..sent[p] \cup {n}
    BY <2>1
  <2>6. AccountOf(p)'
    BY <1>1, <1>3, <2>1, <2>2, <2>3, <2>5 DEF AccountOf
  <2>7. EndOf(p)'
    BY <1>1, <1>3, <2>1 DEF EndOf, HandlesOpen
  <2>8. QED
    BY <1>1, <2>4, <2>6, <2>7 DEF AccountInv
<1>4. QED
  BY <1>1, <1>2, <1>3 DEF LogCall

LEMMA ReceiveAccount ==
  ASSUME TypeOK, ThreadInv, AccountInv, NEW p \in Procs, Receive(p)
  PROVE  AccountInv' /\ UNCHANGED rows
<1>1. /\ UNCHANGED <<rows, sent, dropped, lost, life, exit>>
      /\ queue' = [queue EXCEPT ![p] = Tail(@)]
      /\ cmd' = [cmd EXCEPT ![p] = Head(queue[p])]
      /\ pc' = [pc EXCEPT ![p] = "tally"]
      /\ pc[p] = "recv" /\ queue[p] # <<>> /\ cmd[p] = NoCall
  BY DEF Receive, CommandWaiting, NextCommand, Goto, dbVars, sideVars, ThreadInv
<1>2. ASSUME NEW q \in Procs, q # p PROVE AccountOf(q)' /\ EndOf(q)'
  BY <1>1, <1>2, SameAccount, SameEnd DEF TypeOK, Stored
<1>3. AccountOf(p) /\ EndOf(p) /\ queue[p] \in Seq(Calls)
  BY DEF AccountInv, TypeOK
<1>4. /\ Head(queue[p]) \in Calls /\ Ordered(Tail(queue[p]))
      /\ Queued(p) = {Head(queue[p])} \cup Queued(p)'
      /\ \A n \in Queued(p)' : Head(queue[p]) < n
  <2>1. queue'[p] = Tail(queue[p]) /\ Ordered(queue[p])
    BY <1>1, <1>3 DEF AccountOf, TypeOK
  <2>2. /\ Head(queue[p]) \in Calls /\ Ordered(Tail(queue[p]))
        /\ {queue[p][i] : i \in DOMAIN queue[p]}
             = {Head(queue[p])} \cup {Tail(queue[p])[i] : i \in DOMAIN Tail(queue[p])}
        /\ \A n \in {Tail(queue[p])[i] : i \in DOMAIN Tail(queue[p])} : Head(queue[p]) < n
    BY <1>1, <1>3, <2>1, TailOrdered
  <2>3. QED
    BY <2>1, <2>2 DEF Queued
<1>5. /\ InHand(p) = {} /\ InHand(p)' = {Head(queue[p])}
      /\ cmd'[p] # NoCall /\ Stored(p)' = Stored(p)
  BY <1>1, <1>4, NoCallIsNoCall DEF InHand, TypeOK, Stored
<1>6. AccountOf(p)'
  BY <1>1, <1>3, <1>4, <1>5 DEF AccountOf, TypeOK
<1>7. EndOf(p)'
  BY <1>1, <1>3, <1>5 DEF EndOf, TypeOK
<1>8. QED
  BY <1>1, <1>2, <1>6, <1>7 DEF AccountInv
LEMMA CommitCallAccount ==
  ASSUME TypeOK, ThreadInv, AccountInv, OrderInv, NEW p \in Procs, CommitCall(p)
  PROVE  AccountInv' /\ OrderInv'
<1>1. /\ UNCHANGED <<sent, queue, dropped, lost, life, exit>>
      /\ cmd' = [cmd EXCEPT ![p] = NoCall] /\ pc' = [pc EXCEPT ![p] = "recv"]
      /\ rows' = Append(rows, Log!NewRow(p, "call", cmd[p], head[p]))
      /\ cmd[p] \in Calls /\ cmd[p] \in Nat
      /\ pc[p] = "commit" /\ life[p] # "exited"
  BY DEF CommitCall, Goto, Alive, ThreadInv, InStatement, Calls
<1>2. \A q \in Procs : Stored(q)' = IF q = p THEN Stored(q) \cup {cmd[p]} ELSE Stored(q)
  BY <1>1, StoredAppend
<1>3. ASSUME NEW q \in Procs, q # p PROVE AccountOf(q)' /\ EndOf(q)'
  BY <1>1, <1>2, <1>3, SameAccount, SameEnd DEF TypeOK
<1>4. AccountOf(p) /\ EndOf(p)
  BY DEF AccountInv
<1>5. /\ InHand(p) = {cmd[p]} /\ InHand(p)' = {} /\ Queued(p)' = Queued(p)
      /\ Stored(p)' = Stored(p) \cup {cmd[p]}
  BY <1>1, <1>2, NoCallIsNoCall DEF InHand, Queued, TypeOK
<1>6. AccountOf(p)'
  BY <1>1, <1>4, <1>5 DEF AccountOf, TypeOK
<1>7. EndOf(p)'
  BY <1>1, <1>4, NoCallIsNoCall DEF EndOf, TypeOK
<1>8. OrderInv'
  BY <1>1, <1>4, <1>5, OrderAppend DEF AccountOf
<1>9. QED
  BY <1>3, <1>6, <1>7, <1>8 DEF AccountInv

LEMMA CommitGapAccount ==
  ASSUME TypeOK, ThreadInv, AccountInv, OrderInv, NEW p \in Procs, CommitGap(p)
  PROVE  AccountInv' /\ OrderInv'
<1>1. /\ UNCHANGED <<sent, queue, dropped, lost, life, exit, cmd>>
      /\ pc' = [pc EXCEPT ![p] = AfterMarker(p)]
      /\ rows' = Append(rows, Log!NewRow(p, "gap", MarkerSize(p), head[p]))
      /\ pc[p] = "commit" /\ life[p] # "exited" /\ life[p] # "off"
  BY DEF CommitGap, Goto, Alive, sideVars
<1>2. MarkerSize(p) \in Nat
  BY DEF CommitGap, MarkerSize, ThreadInv, InStatement, TypeOK
<1>3. \A q \in Procs : Stored(q)' = Stored(q)
  BY <1>1, <1>2, StoredAppend
<1>4. \A q \in Procs : AccountOf(q)'
  BY <1>1, <1>3, SameAccount
<1>5. ASSUME NEW q \in Procs, q # p PROVE EndOf(q)'
  BY <1>1, <1>5, SameEnd DEF TypeOK
<1>6. EndOf(p)'
  BY <1>1 DEF EndOf, HandlesOpen, AfterMarker, AccountInv, TypeOK
<1>7. OrderInv'
  BY <1>1, <1>2, OrderAppend
<1>8. QED
  BY <1>4, <1>5, <1>6, <1>7 DEF AccountInv

LEMMA CallFailsAccount ==
  ASSUME TypeOK, ThreadInv, AccountInv, NEW p \in Procs, CallFails(p)
  PROVE  AccountInv' /\ UNCHANGED rows
<1>1. /\ UNCHANGED <<rows, sent, queue, life, exit>>
      /\ cmd' = [cmd EXCEPT ![p] = NoCall] /\ pc' = [pc EXCEPT ![p] = "recv"]
      /\ cmd[p] \in Calls /\ Drop(p, cmd[p])
      /\ pc[p] \in {"begin", "head", "commit"} /\ life[p] \notin {"exited", "off"}
  BY DEF CallFails, Rollback, Goto, Alive, ThreadInv, InStatement, InTransaction
<1>2. AccountOf(p) /\ EndOf(p) /\ InHand(p) = {cmd[p]} /\ InHand(p)' = {}
  BY <1>1, NoCallIsNoCall DEF AccountInv, InHand, TypeOK
<1>3. \A q \in Procs : UNCHANGED <<Stored(q), Queued(q)>>
  BY <1>1 DEF Stored, Queued
<1>4. /\ lost'[p] = lost[p] \cup {cmd[p]} /\ dropped'[p] = dropped[p] + 1
      /\ IsFiniteSet(lost'[p]) /\ Cardinality(lost'[p]) = dropped'[p]
      /\ \A q \in Procs : q # p => lost'[q] = lost[q] /\ dropped'[q] = dropped[q]
  BY <1>1, <1>2, TallyAdds DEF AccountOf
<1>5. ASSUME NEW q \in Procs, q # p PROVE AccountOf(q)' /\ EndOf(q)'
  BY <1>1, <1>3, <1>4, <1>5, SameAccount, SameEnd DEF TypeOK
<1>6. cmd[p] \notin Stored(p) \cup Queued(p)
  <2>1. \A m \in Stored(p) \cup Queued(p) : m \in 1..sent[p] /\ cmd[p] \in 1..sent[p]
    BY <1>2 DEF AccountOf
  <2>2. sent[p] \in Nat
    BY DEF TypeOK
  <2>3. QED
    BY <1>2, <2>1, <2>2 DEF AccountOf
<1>7. AccountOf(p)'
  BY <1>1, <1>2, <1>3, <1>4, <1>6 DEF AccountOf, TypeOK
<1>8. EndOf(p)'
  BY <1>1, <1>2, NoCallIsNoCall DEF EndOf, TypeOK
<1>9. QED
  BY <1>1, <1>5, <1>7, <1>8 DEF AccountInv

LEMMA CutOffAccount ==
  ASSUME TypeOK, AccountInv, NEW p \in Procs, CutOff(p), Alive(p)
  PROVE  AccountInv' /\ UNCHANGED rows
<1>1. /\ UNCHANGED <<rows, sent, dropped, lost, exit>>
      /\ life' = [life EXCEPT ![p] = "cut"] /\ queue' = [queue EXCEPT ![p] = <<>>]
      /\ pc' = [pc EXCEPT ![p] = "gone"] /\ cmd' = [cmd EXCEPT ![p] = NoCall]
  BY DEF CutOff
<1>2. ASSUME NEW q \in Procs, q # p PROVE AccountOf(q)' /\ EndOf(q)'
  BY <1>1, <1>2, SameAccount, SameEnd DEF TypeOK, Stored
<1>3. AccountOf(p) /\ EndOf(p) /\ life[p] # "exited"
  BY DEF AccountInv, Alive
<1>4. Queued(p)' = {} /\ InHand(p)' = {} /\ Stored(p)' = Stored(p)
  BY <1>1, EmptySeq DEF Queued, InHand, Stored, TypeOK
<1>5. Ordered(queue'[p])
  BY <1>1, EmptySeq DEF Ordered, TypeOK
<1>6. AccountOf(p)'
  BY <1>1, <1>3, <1>4, <1>5 DEF AccountOf, TypeOK
<1>7. EndOf(p)'
  BY <1>1, <1>3 DEF EndOf, TypeOK
<1>8. QED
  BY <1>1, <1>2, <1>6, <1>7 DEF AccountInv
LEMMA NextAccount ==
  ASSUME TypeOK, ThreadInv, AccountInv, OrderInv, [Next]_vars
  PROVE  AccountInv' /\ OrderInv'
<1>1. ASSUME UNCHANGED rows PROVE OrderInv'
  BY <1>1 DEF OrderInv, RowsKeepCallOrder
<1>2. ASSUME NEW p \in Procs,
             \/ Start(p) \/ RecoveryDone(p) \/ StartProxying(p) \/ StartFails(p)
             \/ CloseHandles(p) \/ DrainTimesOut(p) \/ Drained(p)
             \/ ChannelClosed(p) \/ ReadTally(p) \/ Begin(p) \/ ReadHead(p)
             \/ GapFails(p)
      PROVE  AccountInv' /\ OrderInv'
  BY <1>1, <1>2, MovesKeepAccount
<1>3. ASSUME NEW p \in Procs, LogDurable(p) PROVE AccountInv' /\ OrderInv'
  BY <1>1, <1>3, LogDurableAccount
<1>4. ASSUME NEW p \in Procs, LogCall(p) PROVE AccountInv' /\ OrderInv'
  BY <1>1, <1>4, LogCallAccount
<1>5. ASSUME NEW p \in Procs, Receive(p) PROVE AccountInv' /\ OrderInv'
  BY <1>1, <1>5, ReceiveAccount
<1>6. ASSUME NEW p \in Procs, CommitCall(p) PROVE AccountInv' /\ OrderInv'
  BY <1>6, CommitCallAccount
<1>7. ASSUME NEW p \in Procs, CommitGap(p) PROVE AccountInv' /\ OrderInv'
  BY <1>7, CommitGapAccount
<1>8. ASSUME NEW p \in Procs, CallFails(p) PROVE AccountInv' /\ OrderInv'
  BY <1>1, <1>8, CallFailsAccount
<1>9. ASSUME NEW p \in Procs, Leave(p) \/ Crash(p) PROVE AccountInv' /\ OrderInv'
  BY <1>1, <1>9, CutOffAccount DEF Leave, Crash, Alive
<1>10. CASE UNCHANGED vars
  <2>1. \A q \in Procs : AccountOf(q)' /\ EndOf(q)'
    BY <1>10, SameAccount, SameEnd DEF vars, Stored
  <2>2. QED
    BY <1>1, <1>10, <2>1 DEF vars, AccountInv
<1>11. QED
  BY <1>2, <1>3, <1>4, <1>5, <1>6, <1>7, <1>8, <1>9, <1>10
     DEF Next, ProcStep, WriterStep, Terminated

LEMMA InitAccount == Init => AccountInv /\ OrderInv
<1>. SUFFICES ASSUME Init PROVE AccountInv /\ OrderInv
  OBVIOUS
<1>1. ASSUME NEW p \in Procs PROVE AccountOf(p) /\ EndOf(p)
  <2>1. Stored(p) = {} /\ Queued(p) = {} /\ InHand(p) = {} /\ lost[p] = {}
    BY DEF Init, Stored, Log!RecordedIn, Queued, InHand
  <2>2. /\ queue[p] = <<>> /\ sent[p] = 0 /\ dropped[p] = 0 /\ life[p] = "off"
        /\ pc[p] = "gone" /\ exit[p] = "none"
    BY DEF Init
  <2>3. IsFiniteSet({}) /\ Cardinality({}) = 0
    BY FS_EmptySet
  <2>4. AccountOf(p)
    BY <2>1, <2>2, <2>3 DEF AccountOf, Ordered
  <2>5. EndOf(p)
    BY <2>2 DEF EndOf
  <2>6. QED
    BY <2>4, <2>5
<1>2. OrderInv
  BY DEF Init, OrderInv, RowsKeepCallOrder
<1>3. QED
  BY <1>1, <1>2 DEF AccountInv

\* The accounts of all processes stay right together.
THEOREM AccountsBalance == Spec => [](AccountInv /\ OrderInv)
<1>1. Init => AccountInv /\ OrderInv
  BY InitAccount
<1>2. (TypeOK /\ ThreadInv) /\ (AccountInv /\ OrderInv) /\ [Next]_vars
        => (AccountInv /\ OrderInv)'
  BY NextAccount
<1>3. QED
  BY <1>1, <1>2, TypeCorrect, PTL DEF Spec

\* Each call of each process is in one place only, until the process is cut
\* off (DbHandle::log, writer_loop, DropTally).
THEOREM NoCallVanishes == Spec => []EveryCallIsAccountedFor
<1>1. ASSUME TypeOK, AccountInv PROVE EveryCallIsAccountedFor
  <2>1. SUFFICES ASSUME NEW p \in Procs, life[p] # "cut"
                 PROVE  /\ 1..sent[p] = UNION {Places(p)[i] : i \in 1..4}
                        /\ \A i, j \in 1..4 : i # j => Places(p)[i] \cap Places(p)[j] = {}
                        /\ Cardinality(lost[p]) = dropped[p]
    BY DEF EveryCallIsAccountedFor
  <2>2. AccountOf(p) /\ sent[p] \in Nat
    BY <1>1 DEF AccountInv, TypeOK
  <2>3. /\ Places(p)[1] = Stored(p) /\ Places(p)[2] = Queued(p)
        /\ Places(p)[3] = InHand(p) /\ Places(p)[4] = lost[p]
    BY DEF Places
  <2>4. UNION {Places(p)[i] : i \in 1..4}
          = Stored(p) \cup Queued(p) \cup InHand(p) \cup lost[p]
    <3>1. 1..4 = {1, 2, 3, 4}
      OBVIOUS
    <3>2. QED
      BY <2>3, <3>1, Zenon
  <2>5. /\ Stored(p) \cap Queued(p) = {} /\ Stored(p) \cap InHand(p) = {}
        /\ Queued(p) \cap InHand(p) = {} /\ Stored(p) \cap lost[p] = {}
        /\ Queued(p) \cap lost[p] = {} /\ InHand(p) \cap lost[p] = {}
    BY <2>2 DEF AccountOf
  <2>6. QED
    BY <2>1, <2>2, <2>3, <2>4, <2>5 DEF AccountOf
<1>2. QED
  BY <1>1, TypeCorrect, AccountsBalance, PTL

\* A process that reports success has recorded every call it logged
\* (wait_for_drain; the outcome of the drain in proxy::run).
THEOREM SuccessIsComplete == Spec => []SuccessMeansComplete
<1>1. ASSUME TypeOK, AccountInv PROVE SuccessMeansComplete
  <2>1. SUFFICES ASSUME NEW p \in Procs, exit[p] = "ok" PROVE Stored(p) = 1..sent[p]
    BY DEF SuccessMeansComplete
  <2>2. AccountOf(p) /\ EndOf(p)
    BY <1>1 DEF AccountInv
  <2>3. /\ life[p] = "exited" /\ dropped[p] = 0
        /\ Queued(p) = {} /\ InHand(p) = {}
    BY <2>1, <2>2 DEF EndOf, Queued, InHand
  <2>4. lost[p] = {}
    BY <2>2, <2>3, FS_EmptySet DEF AccountOf
  <2>5. QED
    BY <2>2, <2>3, <2>4 DEF AccountOf
<1>2. QED
  BY <1>1, TypeCorrect, AccountsBalance, PTL

\* The rows of a process are its calls in the order it logged them: one
\* channel, one thread (writer_loop).
THEOREM CallOrderKept == Spec => []RowsKeepCallOrder
<1>1. OrderInv => RowsKeepCallOrder
  BY DEF OrderInv
<1>2. QED
  BY <1>1, AccountsBalance, PTL
-----------------------------------------------------------------------------
(* The writer implements the audit log. *)

LEMMA LogCardinality ==
  ASSUME NEW S
  PROVE  Log!Cardinality(S) = Cardinality(S)
BY DEF Cardinality, Log!Cardinality

LEMMA StepIsLogStep ==
  ASSUME TypeOK, ThreadInv, LockInv, AccountInv, [Next]_vars
  PROVE  [Log!LogNext]_Log!logVars
<1>. USE DEF Log!logVars
<1>1. ASSUME NEW p \in Procs, CommitCall(p) PROVE Log!LogNext
  <2>1. /\ rows' = Append(rows, Log!NewRow(p, "call", cmd[p], Len(rows)))
        /\ UNCHANGED <<lost, recorded>> /\ cmd[p] \in Calls
    BY <1>1 DEF CommitCall, LockInv, ThreadInv, InStatement
  <2>2. cmd[p] \in InHand(p)
    BY <2>1, NoCallIsNoCall DEF InHand
  <2>3. cmd[p] \notin lost[p] /\ \A m \in Stored(p) : m < cmd[p]
    BY <2>2 DEF AccountInv, AccountOf
  <2>4. Log!Record(p)
    BY <2>1, <2>3 DEF Log!Record, Log!Calls, Calls, Stored
  <2>5. QED
    BY <2>4 DEF Log!LogNext
<1>2. ASSUME NEW p \in Procs, CommitGap(p) PROVE Log!LogNext
  <2>. DEFINE k == observed[p] - recorded[p]
  <2>1. /\ rows' = Append(rows, Log!NewRow(p, "gap", k, Len(rows)))
        /\ recorded' = [recorded EXCEPT ![p] = observed[p]] /\ UNCHANGED lost
        /\ recorded[p] < observed[p] /\ observed[p] <= dropped[p]
    BY <1>2 DEF CommitGap, MarkerSize, RecordedByMarker, LockInv, ThreadInv, InStatement
  <2>2. /\ Cardinality(lost[p]) = dropped[p] /\ dropped[p] \in Nat
        /\ recorded[p] \in Nat /\ observed[p] \in Nat
    BY DEF AccountInv, AccountOf, TypeOK
  <2>3. /\ k \in 1..Cardinality(lost[p])
        /\ recorded[p] + k <= Cardinality(lost[p]) /\ recorded[p] + k = observed[p]
    BY <2>1, <2>2
  <2>4. recorded' = [recorded EXCEPT ![p] = @ + k]
    BY <2>1, <2>3
  <2>5. Log!Declare(p)
    <3>. HIDE DEF k
    <3>1. /\ k \in 1..Cardinality(lost[p])
          /\ recorded[p] + k <= Cardinality(lost[p])
          /\ rows' = Append(rows, Log!NewRow(p, "gap", k, Len(rows)))
          /\ recorded' = [recorded EXCEPT ![p] = @ + k]
      BY <2>1, <2>3, <2>4
    <3>2. QED
      BY <2>1, <3>1, LogCardinality, Zenon DEF Log!Declare
  <2>6. QED
    BY <2>5 DEF Log!LogNext
<1>3. ASSUME NEW p \in Procs, NEW n \in Calls, Drop(p, n),
             n \notin lost[p] \cup Stored(p), UNCHANGED <<rows, recorded>>
      PROVE  Log!LogNext
  <2>1. Log!Lose(p)
    BY <1>3 DEF Drop, Log!Lose, Log!Calls, Calls, Stored
  <2>2. QED
    BY <2>1 DEF Log!LogNext
<1>4. ASSUME NEW p \in Procs, CallFails(p) PROVE Log!LogNext
  <2>1. /\ cmd[p] \in Calls /\ Drop(p, cmd[p]) /\ UNCHANGED <<rows, recorded>>
    BY <1>4 DEF CallFails, Rollback, ThreadInv, InStatement, InTransaction
  <2>2. cmd[p] \in InHand(p)
    BY <2>1, NoCallIsNoCall DEF InHand
  <2>3. /\ cmd[p] \in 1..sent[p] /\ cmd[p] \notin lost[p]
        /\ \A m \in Stored(p) : m < cmd[p] /\ m \in 1..sent[p]
    BY <2>2 DEF AccountInv, AccountOf
  <2>4. cmd[p] \notin lost[p] \cup Stored(p)
    BY <2>3 DEF TypeOK
  <2>5. QED
    BY <1>3, <2>1, <2>4
<1>5. ASSUME NEW p \in Procs, LogCall(p) PROVE Log!LogNext \/ UNCHANGED Log!logVars
  <2>1. UNCHANGED <<rows, recorded>> /\ sent[p] + 1 \in Calls
    BY <1>5, MaxCallsIsNat DEF LogCall, dbVars, threadVars, TypeOK, Calls
  <2>2. \A m \in lost[p] \cup Stored(p) : m \in 1..sent[p]
    BY DEF AccountInv, AccountOf
  <2>3. sent[p] + 1 \notin lost[p] \cup Stored(p)
    BY <2>2 DEF TypeOK
  <2>4. Drop(p, sent[p] + 1) \/ UNCHANGED lost
    BY <1>5 DEF LogCall
  <2>5. QED
    BY <1>3, <2>1, <2>3, <2>4
<1>6. ASSUME NEW p \in Procs,
             \/ Start(p) \/ LogDurable(p) \/ RecoveryDone(p) \/ StartProxying(p)
             \/ StartFails(p) \/ CloseHandles(p) \/ DrainTimesOut(p) \/ Drained(p)
             \/ Leave(p) \/ Crash(p) \/ Receive(p) \/ ChannelClosed(p)
             \/ ReadTally(p) \/ Begin(p) \/ ReadHead(p) \/ GapFails(p)
      PROVE  UNCHANGED Log!logVars
  BY <1>6 DEF Start, LogDurable, RecoveryDone, StartProxying, StartFails, CloseHandles,
       DrainTimesOut, MoveOn, Drained, Leave, Crash, CutOff, Receive, ChannelClosed,
       ReadTally, Begin, ReadHead, GapFails, Rollback, dbVars, threadVars
<1>7. CASE UNCHANGED vars
  BY <1>7 DEF vars
<1>8. QED
  BY <1>1, <1>2, <1>4, <1>5, <1>6, <1>7 DEF Next, ProcStep, WriterStep, Terminated

\* Every behaviour of the processes and their writers is a behaviour of the
\* audit log: it only grows, never forks, repeats or reorders a process's
\* calls, and its markers declare no loss that did not happen.
THEOREM WriterImplementsLog == Spec => IsAuditLog
<1>1. Init => Log!LogInit
  BY DEF Init, Log!LogInit
<1>2. Spec => []LockInv
  <2>1. Init => LockInv /\ ChainIsLinear
    BY DEF Init, LockInv, InTransaction, ChainIsLinear
  <2>2. (TypeOK /\ ThreadInv) /\ (LockInv /\ ChainIsLinear) /\ [Next]_vars
          => (LockInv /\ ChainIsLinear)'
    BY NextChain
  <2>3. QED
    BY <2>1, <2>2, TypeCorrect, PTL DEF Spec
<1>3. TypeOK /\ ThreadInv /\ LockInv /\ AccountInv /\ [Next]_vars
        => [Log!LogNext]_Log!logVars
  BY StepIsLogStep
<1>4. QED
  BY <1>1, <1>2, <1>3, TypeCorrect, AccountsBalance, PTL
     DEF Spec, IsAuditLog, Log!LogSpec

-----------------------------------------------------------------------------
(* The markers add up. *)

\* f counts up what the markers of p among the rows declare.
Sums(f, p) ==
  f = [i \in 0..Len(rows) |->
         IF i = 0 THEN 0
         ELSE IF rows[i].proc = p /\ rows[i].kind = "gap" THEN f[i - 1] + rows[i].n
         ELSE f[i - 1]]

\* There is such a sum, and whatever is one ends with what is recorded.
MarkersInv ==
  \A p \in Procs : (\E f : Sums(f, p)) /\ \A f : Sums(f, p) => f[Len(rows)] = recorded[p]

\* A row more, and the sums go on with it.
LEMMA SumsGrow ==
  ASSUME TypeOK, NEW r \in Log!Rows, rows' = Append(rows, r), NEW p \in Procs,
         \E f : Sums(f, p), NEW n, \A f : Sums(f, p) => f[Len(rows)] = n
  PROVE  /\ \E f : Sums(f, p)'
         /\ \A f : Sums(f, p)' =>
              f[Len(rows')] = IF r.proc = p /\ r.kind = "gap" THEN n + r.n ELSE n
<1>1. rows \in Seq(Log!Rows) /\ Len(rows) \in Nat
  BY DEF TypeOK
<1>2. /\ Len(rows') = Len(rows) + 1 /\ rows'[Len(rows) + 1] = r
      /\ \A i \in 1..Len(rows) : rows'[i] = rows[i]
  BY <1>1, AppendProperties
<1>3. PICK l \in Nat : l = Len(rows)
  BY <1>1
<1> DEFINE More(f, i) == IF rows'[i].proc = p /\ rows'[i].kind = "gap" THEN f[i - 1] + rows'[i].n
                         ELSE f[i - 1]
           Upto(f, i) == IF rows[i].proc = p /\ rows[i].kind = "gap" THEN f[i - 1] + rows[i].n
                         ELSE f[i - 1]
<1>4. ASSUME NEW f PROVE Sums(f, p) <=> f = [i \in 0..l |-> IF i = 0 THEN 0 ELSE Upto(f, i)]
  BY <1>3, Zenon DEF Sums
<1>5. ASSUME NEW f PROVE Sums(f, p)' <=> f = [i \in 0..(l + 1) |-> IF i = 0 THEN 0 ELSE More(f, i)]
  <2>1. Len(rows') = l + 1
    BY <1>2, <1>3
  <2>2. QED
    BY <2>1, Zenon DEF Sums
<1>6. ASSUME NEW f, NEW i \in 1..l PROVE More(f, i) = Upto(f, i)
  BY <1>2, <1>3
<1>7. ASSUME NEW f PROVE More(f, l + 1) = IF r.proc = p /\ r.kind = "gap" THEN f[l] + r.n ELSE f[l]
  <2>1. rows'[l + 1] = r /\ (l + 1) - 1 = l
    BY <1>2, <1>3
  <2>2. QED
    BY <2>1, Zenon
<1>8. \E f : Sums(f, p)'
  <2>1. PICK f : f = [i \in 0..l |-> IF i = 0 THEN 0 ELSE Upto(f, i)]
    BY <1>4
  <2>2. PICK x : x = More(f, l + 1)
    OBVIOUS
  <2>3. PICK g : g = [i \in 0..(l + 1) |-> IF i = l + 1 THEN x ELSE f[i]]
    OBVIOUS
  <2>4. ASSUME NEW i \in 0..(l + 1) PROVE g[i] = IF i = 0 THEN 0 ELSE More(g, i)
    <3>1. CASE i = 0
      BY <2>1, <2>3, <3>1
    <3>2. CASE i \in 1..l
      <4>1. g[i] = f[i] /\ g[i - 1] = f[i - 1]
        BY <2>3, <3>2
      <4>2. f[i] = Upto(f, i)
        BY <2>1, <3>2
      <4>3. More(g, i) = More(f, i)
        BY <4>1, Zenon
      <4>4. More(f, i) = Upto(f, i)
        BY <1>6, <3>2
      <4> HIDE DEF More, Upto
      <4>5. i # 0
        BY <3>2
      <4>6. QED
        BY <4>1, <4>2, <4>3, <4>4, <4>5, Zenon
    <3>3. CASE i = l + 1
      <4>1. g[i] = x /\ g[l] = f[l] /\ i # 0
        BY <2>3, <3>3
      <4>2. More(g, l + 1) = More(f, l + 1)
        BY <1>7, <4>1, Zenon
      <4> HIDE DEF More, Upto
      <4>3. QED
        BY <2>2, <3>3, <4>1, <4>2, Zenon
    <3> HIDE DEF More, Upto
    <3>4. i = 0 \/ i \in 1..l \/ i = l + 1
      OBVIOUS
    <3>5. QED
      BY <3>1, <3>2, <3>3, <3>4
  <2> HIDE DEF More
  <2>5. g = [i \in 0..(l + 1) |-> IF i = 0 THEN 0 ELSE More(g, i)]
    BY <2>3, <2>4
  <2>6. QED
    BY <1>5, <2>5
<1>9. ASSUME NEW g, Sums(g, p)'
      PROVE  g[Len(rows')] = IF r.proc = p /\ r.kind = "gap" THEN n + r.n ELSE n
  <2>1. g = [i \in 0..(l + 1) |-> IF i = 0 THEN 0 ELSE More(g, i)]
    BY <1>5, <1>9
  <2>2. PICK f : f = [i \in 0..l |-> g[i]]
    OBVIOUS
  <2>3. ASSUME NEW i \in 0..l PROVE f[i] = IF i = 0 THEN 0 ELSE Upto(f, i)
    <3>1. CASE i = 0
      BY <2>1, <2>2, <3>1
    <3>2. CASE i \in 1..l
      <4>1. f[i] = g[i] /\ f[i - 1] = g[i - 1]
        BY <2>2, <3>2
      <4>2. g[i] = More(g, i)
        <5>1. i \in 0..(l + 1) /\ i # 0
          BY <3>2
        <5>2. QED
          BY <2>1, <5>1
      <4>3. Upto(g, i) = Upto(f, i)
        BY <4>1, Zenon
      <4>4. More(g, i) = Upto(g, i)
        BY <1>6, <3>2
      <4>5. i # 0
        BY <3>2
      <4> HIDE DEF More, Upto
      <4>6. QED
        BY <4>1, <4>2, <4>3, <4>4, <4>5, Zenon
    <3>3. QED
      BY <3>1, <3>2
  <2> HIDE DEF Upto
  <2>4. f = [i \in 0..l |-> IF i = 0 THEN 0 ELSE Upto(f, i)]
    BY <2>2, <2>3
  <2>5. Sums(f, p)
    BY <1>4, <2>4
  <2>6. g[l] = n
    BY <1>3, <2>2, <2>5
  <2>7. g[l + 1] = More(g, l + 1)
    <3> HIDE DEF More
    <3>1. QED
      BY <2>1
  <2>8. Len(rows') = l + 1
    BY <1>2, <1>3
  <2>9. QED
    BY <1>7, <2>6, <2>7, <2>8, Zenon
<1>10. QED
  BY <1>8, <1>9

LEMMA NextMarkers ==
  ASSUME TypeOK, ThreadInv, LockInv, MarkersInv, [Next]_vars
  PROVE  MarkersInv'
<1>1. ASSUME UNCHANGED <<rows, recorded>> PROVE MarkersInv'
  <2>1. ASSUME NEW f, NEW q PROVE Sums(f, q)' <=> Sums(f, q)
    BY <1>1 DEF Sums
  <2>2. QED
    BY <1>1, <2>1 DEF MarkersInv
<1>2. ASSUME NEW q \in Procs
      PROVE  (\E f : Sums(f, q)) /\ \A f : Sums(f, q) => f[Len(rows)] = recorded[q]
  BY DEF MarkersInv
<1>3. ASSUME NEW p \in Procs, CommitCall(p) PROVE MarkersInv'
  <2>1. PICK r : r = Log!NewRow(p, "call", cmd[p], head[p])
    OBVIOUS
  <2>2. rows' = Append(rows, r) /\ recorded' = recorded /\ cmd[p] \in Calls /\ head[p] \in Nat
    BY <1>3, <2>1 DEF CommitCall, ThreadInv, InStatement, TypeOK
  <2>3. r \in Log!Rows /\ r.kind # "gap"
    BY <2>1, <2>2 DEF Log!NewRow, Log!Rows, Calls
  <2>4. ASSUME NEW q \in Procs
        PROVE  (\E f : Sums(f, q)') /\ \A f : Sums(f, q)' => f[Len(rows')] = recorded'[q]
    <3>1. PICK n : n = recorded[q]
      OBVIOUS
    <3>2. (\E f : Sums(f, q)) /\ \A f : Sums(f, q) => f[Len(rows)] = n
      BY <1>2, <3>1
    <3>3. /\ \E f : Sums(f, q)'
          /\ \A f : Sums(f, q)' =>
               f[Len(rows')] = IF r.proc = q /\ r.kind = "gap" THEN n + r.n ELSE n
      <4>1. rows' = Append(rows, r) /\ r \in Log!Rows
        BY <2>2, <2>3
      <4>2. QED
        BY <3>2, <4>1, SumsGrow
    <3>4. QED
      BY <2>2, <2>3, <3>1, <3>3
  <2>5. QED
    BY <2>4 DEF MarkersInv
<1>4. ASSUME NEW p \in Procs, CommitGap(p) PROVE MarkersInv'
  <2>1. PICK r : r = Log!NewRow(p, "gap", MarkerSize(p), head[p])
    OBVIOUS
  <2>2. /\ rows' = Append(rows, r) /\ head[p] \in Nat
        /\ recorded' = [recorded EXCEPT ![p] = observed[p]] /\ recorded[p] < observed[p]
        /\ MarkerSize(p) = observed[p] - recorded[p]
        /\ recorded \in [Procs -> Nat] /\ observed[p] \in Nat
    BY <1>4, <2>1 DEF CommitGap, ThreadInv, InStatement, TypeOK, MarkerSize, RecordedByMarker
  <2>3. /\ r \in Log!Rows /\ r.kind = "gap" /\ r.proc = p
        /\ recorded[p] + r.n = observed[p]
    <3>1. r = [proc |-> p, kind |-> "gap", n |-> MarkerSize(p), prev |-> head[p]]
      BY <2>1 DEF Log!NewRow
    <3>2. MarkerSize(p) \in Nat /\ recorded[p] + MarkerSize(p) = observed[p]
      BY <2>2
    <3>3. QED
      BY <2>2, <3>1, <3>2 DEF Log!Rows
  <2>4. ASSUME NEW q \in Procs
        PROVE  (\E f : Sums(f, q)') /\ \A f : Sums(f, q)' => f[Len(rows')] = recorded'[q]
    <3>1. PICK n : n = recorded[q]
      OBVIOUS
    <3>2. (\E f : Sums(f, q)) /\ \A f : Sums(f, q) => f[Len(rows)] = n
      BY <1>2, <3>1
    <3>3. /\ \E f : Sums(f, q)'
          /\ \A f : Sums(f, q)' =>
               f[Len(rows')] = IF r.proc = q /\ r.kind = "gap" THEN n + r.n ELSE n
      <4>1. rows' = Append(rows, r) /\ r \in Log!Rows
        BY <2>2, <2>3
      <4>2. QED
        BY <3>2, <4>1, SumsGrow
    <3>4. (IF r.proc = q /\ r.kind = "gap" THEN n + r.n ELSE n) = recorded'[q]
      BY <2>2, <2>3, <3>1
    <3>5. QED
      BY <3>3, <3>4
  <2>5. QED
    BY <2>4 DEF MarkersInv
<1>5. ASSUME NEW p \in Procs,
             \/ Start(p) \/ LogDurable(p) \/ RecoveryDone(p) \/ StartProxying(p)
             \/ StartFails(p) \/ CloseHandles(p) \/ DrainTimesOut(p) \/ Drained(p)
             \/ Leave(p) \/ Crash(p) \/ Receive(p) \/ ChannelClosed(p)
             \/ ReadTally(p) \/ Begin(p) \/ ReadHead(p) \/ GapFails(p)
             \/ LogCall(p) \/ CallFails(p)
      PROVE  UNCHANGED <<rows, recorded>>
  BY <1>5 DEF Start, LogDurable, RecoveryDone, StartProxying, StartFails, CloseHandles,
       DrainTimesOut, MoveOn, Drained, Leave, Crash, CutOff, Receive, ChannelClosed,
       ReadTally, Begin, ReadHead, GapFails, LogCall, CallFails, Rollback, dbVars, threadVars
<1>6. CASE UNCHANGED vars
  BY <1>1, <1>6 DEF vars
<1>7. QED
  BY <1>1, <1>3, <1>4, <1>5, <1>6 DEF Next, ProcStep, WriterStep, Terminated

LEMMA InitMarkers == Init => MarkersInv
<1> SUFFICES ASSUME Init, NEW p \in Procs
             PROVE  (\E f : Sums(f, p)) /\ \A f : Sums(f, p) => f[Len(rows)] = recorded[p]
  BY DEF MarkersInv
<1>1. rows = <<>> /\ Len(rows) = 0 /\ recorded[p] = 0
  BY DEF Init
<1>2. PICK g : g = [i \in 0..0 |-> 0]
  OBVIOUS
<1>3. Sums(g, p)
  BY <1>1, <1>2 DEF Sums
<1>4. ASSUME NEW f, Sums(f, p) PROVE f[0] = 0
  BY <1>1, <1>4 DEF Sums
<1>5. QED
  BY <1>1, <1>3, <1>4

\* For any processes, queue and calls: what the gap markers of a process declare
\* is what its writer has recorded, and never more than was lost, though markers
\* fail and drops race them (persist_audit_gap).
THEOREM MarkersDeclareTheLoss == Spec => []MarkersAddUp
<1>1. Spec => []LockInv
  <2>1. Init => LockInv /\ ChainIsLinear
    BY DEF Init, LockInv, InTransaction, ChainIsLinear
  <2>2. (TypeOK /\ ThreadInv) /\ (LockInv /\ ChainIsLinear) /\ [Next]_vars
          => (LockInv /\ ChainIsLinear)'
    BY NextChain
  <2>3. QED
    BY <2>1, <2>2, TypeCorrect, PTL DEF Spec
<1>2. Init => MarkersInv
  BY InitMarkers
<1>3. TypeOK /\ ThreadInv /\ LockInv /\ MarkersInv /\ [Next]_vars => MarkersInv'
  BY NextMarkers
<1>4. ASSUME TypeOK, ThreadInv, AccountInv, MarkersInv PROVE MarkersAddUp
  <2>1. SUFFICES ASSUME NEW p \in Procs
                 PROVE  Declared(p) = recorded[p] /\ recorded[p] <= Cardinality(lost[p])
    BY DEF MarkersAddUp
  <2>2. recorded[p] <= Cardinality(lost[p])
    <3>1. Cardinality(lost[p]) = dropped[p]
      BY <1>4 DEF AccountInv, AccountOf
    <3>2. observed[p] <= dropped[p] /\ recorded[p] <= observed[p]
      BY <1>4 DEF ThreadInv
    <3>3. observed[p] \in Nat /\ dropped[p] \in Nat /\ recorded[p] \in Nat
      BY <1>4 DEF TypeOK
    <3>4. QED
      BY <3>1, <3>2, <3>3
  <2>3. Declared(p) = recorded[p]
    <3> DEFINE sum == CHOOSE f : f = [i \in 0..Len(rows) |->
                        IF i = 0 THEN 0
                        ELSE IF rows[i].proc = p /\ rows[i].kind = "gap" THEN f[i - 1] + rows[i].n
                        ELSE f[i - 1]]
    <3>1. (\E f : Sums(f, p)) /\ \A f : Sums(f, p) => f[Len(rows)] = recorded[p]
      BY <1>4 DEF MarkersInv
    <3>2. Sums(sum, p)
      BY <3>1, Zenon DEF Sums
    <3>3. Declared(p) = sum[Len(rows)]
      BY Zenon DEF Declared
    <3>4. QED
      BY <3>1, <3>2, <3>3, Zenon
  <2>4. QED
    BY <2>2, <2>3
<1>5. QED
  BY <1>1, <1>2, <1>3, <1>4, TypeCorrect, AccountsBalance, PTL DEF Spec
=============================================================================
