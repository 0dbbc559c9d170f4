---------------------------- MODULE AuditWriter -----------------------------
(***************************************************************************)
(* The audit writer of src/src/db/writer.rs, in several processes that     *)
(* share one database: the bounded queue a DbHandle submits to, the drop   *)
(* tally, the writer thread with its gap markers, the IMMEDIATE            *)
(* transaction each row is written in, the durable replies of the recovery *)
(* scan, and the bounded drain of a shutdown (src/src/proxy.rs,            *)
(* src/src/http/server.rs).                                                *)
(*                                                                         *)
(* A process name stands for one life of a process: a restart is another   *)
(* name. A call is its number in the order its process logged it. A row's  *)
(* hash is the row's position, as in AuditLog.                             *)
(***************************************************************************)
EXTENDS Naturals, Sequences, FiniteSets

CONSTANTS
  Procs,          \* process lives that open the database
  Capacity,       \* CHANNEL_CAPACITY, the bound of the queue
  MaxCalls,       \* bound: the calls one process logs
  NoProc, NoCall  \* the write lock is free; no command in hand

ASSUME CapacityAssumption == Capacity \in Nat \ {0}
ASSUME MaxCallsIsNat == MaxCalls \in Nat
ASSUME NoProcAssumption == NoProc \notin Procs
ASSUME NoCallAssumption == NoCall \notin Nat

VARIABLES
  (* the database *)
  rows,           \* tool_calls, in id order
  lock,           \* who holds SQLite's write lock
  (* per process, the submitting side *)
  life,           \* where the process is between its start and its end:
                  \* "cut" if it ended with the writer still at work
  sent,           \* how many calls it has submitted
  queue,          \* the channel: call numbers
  dropped,        \* the DropTally
  ack,            \* the reply of its last durable write
  exit,           \* the exit status it reports
  (* per process, the writer thread *)
  pc,             \* where the thread is
  cmd,            \* the command it took from the channel
  job,            \* what its transaction writes: the command or a marker
  observed,       \* the tally as persist_audit_gap read it
  recorded,       \* recorded_drops
  head,           \* the chain head its transaction read
  (* history *)
  lost            \* per process, the calls the tally counts

dbVars     == <<rows, lock>>
sideVars   == <<life, sent, ack, exit>>
threadVars == <<pc, cmd, job, observed, recorded, head>>
vars == <<rows, lock, life, sent, queue, dropped, ack, exit,
          pc, cmd, job, observed, recorded, head, lost>>

\* The abstract log this module implements.
Log == INSTANCE AuditLog WITH chain <- rows, declared <- recorded

Calls == 1..MaxCalls

Lives == {"off", "recovering", "starting", "running", "closing", "leaving",
          "exited", "cut"}

\* The process exists; its threads may run.
Alive(p) == life[p] \in {"recovering", "starting", "running", "closing",
                         "leaving"}

\* A sender of the channel is alive.
HandlesOpen(p) == life[p] \in {"recovering", "starting", "running"}

\* The writer holds the write lock: between BEGIN IMMEDIATE and the end of
\* the transaction.
InTransaction(p) == pc[p] \in {"head", "commit"}

TypeOK ==
  /\ rows \in Seq(Log!Rows)
  /\ lock \in Procs \cup {NoProc}
  /\ life \in [Procs -> Lives]
  /\ sent \in [Procs -> 0..MaxCalls]
  /\ queue \in [Procs -> Seq(Calls)]
  /\ dropped \in [Procs -> Nat]
  /\ ack \in [Procs -> {"none", "waiting", "ok", "err"}]
  /\ exit \in [Procs -> {"none", "ok", "error"}]
  /\ pc \in [Procs -> {"gone", "recv", "tally", "begin", "head", "commit",
                       "done"}]
  /\ cmd \in [Procs -> Calls \cup {NoCall}]
  /\ job \in [Procs -> {"call", "gap"}]
  /\ observed \in [Procs -> Nat]
  /\ recorded \in [Procs -> Nat]
  /\ head \in [Procs -> Nat]
  /\ lost \in [Procs -> SUBSET Calls]

Init ==
  /\ rows = <<>>
  /\ lock = NoProc
  /\ life = [p \in Procs |-> "off"]
  /\ sent = [p \in Procs |-> 0]
  /\ queue = [p \in Procs |-> <<>>]
  /\ dropped = [p \in Procs |-> 0]
  /\ ack = [p \in Procs |-> "none"]
  /\ exit = [p \in Procs |-> "none"]
  /\ pc = [p \in Procs |-> "gone"]
  /\ cmd = [p \in Procs |-> NoCall]
  /\ job = [p \in Procs |-> "call"]
  /\ observed = [p \in Procs |-> 0]
  /\ recorded = [p \in Procs |-> 0]
  /\ head = [p \in Procs |-> 0]
  /\ lost = [p \in Procs |-> {}]

-----------------------------------------------------------------------------
(* The submitting side. *)

\* spawn_writer_with_key: the database opened, so the thread starts.
Start(p) ==
  /\ life[p] = "off"
  /\ life' = [life EXCEPT ![p] = "recovering"]
  /\ pc' = [pc EXCEPT ![p] = "recv"]
  /\ UNCHANGED <<dbVars, sent, queue, dropped, ack, exit,
                 cmd, job, observed, recorded, head, lost>>

\* log_durable, from the recovery scan of the start-up. The scan is the only
\* submitter at that time and waits for each reply, so the queue has room:
\* the time-out on a full queue cannot be reached.
LogDurable(p) ==
  /\ life[p] = "recovering"
  /\ ack[p] # "waiting"
  /\ sent[p] < MaxCalls
  /\ sent' = [sent EXCEPT ![p] = @ + 1]
  /\ queue' = [queue EXCEPT ![p] = Append(@, sent[p] + 1)]
  /\ ack' = [ack EXCEPT ![p] = "waiting"]
  /\ UNCHANGED <<dbVars, threadVars, life, dropped, exit, lost>>

\* A step of the process that only moves it on.
MoveOn(p, from, to) ==
  /\ life[p] = from
  /\ life' = [life EXCEPT ![p] = to]
  /\ UNCHANGED <<dbVars, threadVars, sent, queue, dropped, ack, lost>>

\* The scan is over; the session's start and its heartbeats are logged.
RecoveryDone(p) ==
  /\ ack[p] # "waiting"
  /\ MoveOn(p, "recovering", "starting")
  /\ UNCHANGED exit

\* The target, or the listeners, are up, and calls are logged.
StartProxying(p) ==
  /\ MoveOn(p, "starting", "running")
  /\ UNCHANGED exit

\* The target cannot be started, or a listener bound: the process returns
\* the error without waiting for its writer.
StartFails(p) ==
  /\ MoveOn(p, "starting", "leaving")
  /\ exit' = [exit EXCEPT ![p] = "error"]

\* A drop that only warns.
DropUncounted(p, n) == UNCHANGED <<dropped, lost>>

\* A call is counted as lost by the tally.
Drop(p, n) ==
  /\ dropped' = [dropped EXCEPT ![p] = @ + 1]
  /\ lost' = [lost EXCEPT ![p] = @ \cup {n}]

\* DbHandle::log: try_send, and a full queue drops the call and counts it.
LogCall(p) ==
  /\ life[p] \in {"starting", "running"}
  /\ sent[p] < MaxCalls
  /\ sent' = [sent EXCEPT ![p] = @ + 1]
  /\ \/ /\ Len(queue[p]) < Capacity
        /\ queue' = [queue EXCEPT ![p] = Append(@, sent[p] + 1)]
        /\ UNCHANGED <<dropped, lost>>
     \/ /\ Len(queue[p]) = Capacity
        /\ Drop(p, sent[p] + 1)
        /\ UNCHANGED queue
  /\ UNCHANGED <<dbVars, threadVars, life, ack, exit>>

\* The shutdown drops the last sender, which closes the channel.
CloseHandles(p) ==
  /\ MoveOn(p, "running", "closing")
  /\ UNCHANGED exit

\* A shutdown that does not wait for the thread.
FinishedUnjoined(p) == TRUE

\* The writer thread has ended.
Finished(p) == pc[p] = "done"

\* wait_for_drain joins the finished thread; any drop makes the process
\* report an error.
Drained(p) ==
  /\ life[p] = "closing"
  /\ Finished(p)
  /\ life' = [life EXCEPT ![p] = "exited"]
  /\ exit' = [exit EXCEPT ![p] = IF dropped[p] = 0 THEN "ok" ELSE "error"]
  /\ pc' = [pc EXCEPT ![p] = "gone"]
  /\ UNCHANGED <<dbVars, sent, queue, dropped, ack,
                 cmd, job, observed, recorded, head, lost>>

\* wait_for_drain gives up. The thread is not joined: it works on until the
\* process is gone.
DrainTimesOut(p) ==
  /\ ~Finished(p)
  /\ MoveOn(p, "closing", "leaving")
  /\ exit' = [exit EXCEPT ![p] = "error"]

\* The end of a process ends its thread wherever it is: SQLite undoes the
\* open transaction and frees its lock, the queue is gone.
CutOff(p) ==
  /\ life' = [life EXCEPT ![p] = "cut"]
  /\ lock' = IF lock = p THEN NoProc ELSE lock
  /\ queue' = [queue EXCEPT ![p] = <<>>]
  /\ pc' = [pc EXCEPT ![p] = "gone"]
  /\ cmd' = [cmd EXCEPT ![p] = NoCall]
  /\ UNCHANGED <<rows, sent, dropped, ack, exit,
                 job, observed, recorded, head, lost>>

\* The process returns its error and exits.
Leave(p) ==
  /\ life[p] = "leaving"
  /\ CutOff(p)

\* The process is killed, or the machine stops.
Crash(p) ==
  /\ Alive(p)
  /\ CutOff(p)

-----------------------------------------------------------------------------
(* The writer thread: writer_loop, persist_audit_gap, insert_row_with_key. *)

Goto(p, place) == pc' = [pc EXCEPT ![p] = place]

\* A loop that stops at the shutdown, whatever is queued.
CommandWaitingWhileOpen(p) == queue[p] # <<>> /\ HandlesOpen(p)

\* rx.iter() yields what is queued even when the channel is closed.
CommandWaiting(p) == queue[p] # <<>>

\* The newest command first.
NewestCommand(p) == queue[p][Len(queue[p])]

\* The channel is a queue: the oldest command first.
NextCommand(p) == Head(queue[p])

\* The loop takes the next command.
Receive(p) ==
  /\ Alive(p)
  /\ pc[p] = "recv"
  /\ CommandWaiting(p)
  /\ cmd' = [cmd EXCEPT ![p] = NextCommand(p)]
  /\ queue' = [queue EXCEPT ![p] = Tail(@)]
  /\ Goto(p, "tally")
  /\ UNCHANGED <<dbVars, sideVars, dropped, job, observed, recorded, head,
                 lost>>

\* The channel is closed and empty: the loop ends, and one last marker is
\* due.
ChannelClosed(p) ==
  /\ Alive(p)
  /\ pc[p] = "recv"
  /\ queue[p] = <<>>
  /\ ~HandlesOpen(p)
  /\ Goto(p, "tally")
  /\ UNCHANGED <<dbVars, sideVars, queue, dropped, cmd, job, observed,
                 recorded, head, lost>>

\* The final marker forgets that there is no command after it.
AlwaysBegin(p) == "begin"

\* Where the thread goes when persist_audit_gap returns.
AfterMarker(p) == IF cmd[p] = NoCall THEN "done" ELSE "begin"

\* persist_audit_gap reads the tally, and writes a marker if it has grown.
ReadTally(p) ==
  /\ Alive(p)
  /\ pc[p] = "tally"
  /\ observed' = [observed EXCEPT ![p] = dropped[p]]
  /\ IF dropped[p] > recorded[p]
     THEN job' = [job EXCEPT ![p] = "gap"] /\ Goto(p, "begin")
     ELSE job' = [job EXCEPT ![p] = "call"] /\ Goto(p, AfterMarker(p))
  /\ UNCHANGED <<dbVars, sideVars, queue, dropped, cmd, recorded, head,
                 lost>>

\* A deferred BEGIN: the lock is not awaited.
CanBeginDeferred(p) == TRUE

\* BEGIN IMMEDIATE waits for the write lock.
CanBegin(p) == lock = NoProc

\* BEGIN IMMEDIATE takes the write lock.
Begin(p) ==
  /\ Alive(p)
  /\ pc[p] = "begin"
  /\ CanBegin(p)
  /\ lock' = p
  /\ Goto(p, "head")
  /\ UNCHANGED <<rows, sideVars, queue, dropped, cmd, job, observed,
                 recorded, head, lost>>

\* last_hash, inside the transaction.
ReadHead(p) ==
  /\ Alive(p)
  /\ pc[p] = "head"
  /\ head' = [head EXCEPT ![p] = Len(rows)]
  /\ Goto(p, "commit")
  /\ UNCHANGED <<dbVars, sideVars, queue, dropped, cmd, job, observed,
                 recorded, lost>>

\* A durable command is answered when its transaction is over.
Answer(p, reply) ==
  ack' = [ack EXCEPT ![p] = IF @ = "waiting" THEN reply ELSE @]

\* INSERT and COMMIT of a command.
CommitCall(p) ==
  /\ Alive(p)
  /\ pc[p] = "commit"
  /\ job[p] = "call"
  /\ rows' = Append(rows, Log!NewRow(p, "call", cmd[p], head[p]))
  /\ lock' = NoProc
  /\ Answer(p, "ok")
  /\ cmd' = [cmd EXCEPT ![p] = NoCall]
  /\ Goto(p, "recv")
  /\ UNCHANGED <<life, sent, exit, queue, dropped, job, observed, recorded,
                 head, lost>>

\* Each marker declares the whole tally.
MarkerOfWholeTally(p) == observed[p]

\* A marker declares the drops no marker has recorded.
MarkerSize(p) == observed[p] - recorded[p]

\* The tally is read again after the marker is written.
RecordedFromTally(p) == dropped[p]

\* What the marker covers once it is written: the tally it was built from.
RecordedByMarker(p) == observed[p]

\* INSERT and COMMIT of a gap marker.
CommitGap(p) ==
  /\ Alive(p)
  /\ pc[p] = "commit"
  /\ job[p] = "gap"
  /\ rows' = Append(rows, Log!NewRow(p, "gap", MarkerSize(p), head[p]))
  /\ lock' = NoProc
  /\ recorded' = [recorded EXCEPT ![p] = RecordedByMarker(p)]
  /\ job' = [job EXCEPT ![p] = "call"]
  /\ Goto(p, AfterMarker(p))
  /\ UNCHANGED <<sideVars, queue, dropped, cmd, observed, head, lost>>

\* BEGIN fails (the busy time-out, an I/O error) or the transaction does,
\* and is rolled back.
Rollback(p) ==
  /\ Alive(p)
  /\ pc[p] = "begin" \/ InTransaction(p)
  /\ lock' = IF InTransaction(p) THEN NoProc ELSE lock
  /\ UNCHANGED rows

\* A command that could not be written is dropped and counted.
CallFails(p) ==
  /\ job[p] = "call"
  /\ Rollback(p)
  /\ Drop(p, cmd[p])
  /\ Answer(p, "err")
  /\ cmd' = [cmd EXCEPT ![p] = NoCall]
  /\ Goto(p, "recv")
  /\ UNCHANGED <<life, sent, exit, queue, job, observed, recorded, head>>

\* A marker that could not be written is left to the next command.
GapFails(p) ==
  /\ job[p] = "gap"
  /\ Rollback(p)
  /\ job' = [job EXCEPT ![p] = "call"]
  /\ Goto(p, AfterMarker(p))
  /\ UNCHANGED <<sideVars, queue, dropped, cmd, observed, recorded, head,
                 lost>>

WriterStep(p) ==
  \/ Receive(p) \/ ChannelClosed(p) \/ ReadTally(p)
  \/ Begin(p) \/ ReadHead(p) \/ CommitCall(p) \/ CommitGap(p)
  \/ CallFails(p) \/ GapFails(p)

-----------------------------------------------------------------------------
Terminated ==
  /\ \A p \in Procs : life[p] \in {"exited", "cut"}
  /\ UNCHANGED vars

ProcStep(p) ==
  \/ Start(p) \/ LogDurable(p) \/ RecoveryDone(p) \/ StartProxying(p)
  \/ StartFails(p) \/ LogCall(p)
  \/ CloseHandles(p) \/ Drained(p) \/ DrainTimesOut(p) \/ Leave(p)
  \/ Crash(p) \/ WriterStep(p)

Next == (\E p \in Procs : ProcStep(p)) \/ Terminated

\* The operating system schedules the writer thread, whose statements return
\* within their busy time-out, and a process told to stop goes on returning.
Fairness ==
  \A p \in Procs : /\ WF_vars(WriterStep(p))
                   /\ WF_vars(Drained(p))
                   /\ WF_vars(Leave(p))

Spec == Init /\ [][Next]_vars

FairSpec == Spec /\ Fairness
-----------------------------------------------------------------------------
(* Properties. *)

\* The calls of p by where they are: in the database, in the channel, with
\* the writer, in the tally.
Stored(p)  == Log!RecordedIn(rows, p)
Queued(p)  == {queue[p][i] : i \in DOMAIN queue[p]}
InHand(p)  == {cmd[p]} \ {NoCall}
Places(p)  == <<Stored(p), Queued(p), InHand(p), lost[p]>>

\* However the transactions of several processes interleave, fail and are
\* cut off, the prev_hash of each row is the hash of the row before it: one
\* chain, no fork (insert_row_with_key).
ChainIsLinear ==
  \A i \in DOMAIN rows : rows[i].prev = i - 1

\* Unless its process was cut off, each call that was logged is in exactly
\* one place: a row, the channel, the writer's hand or the tally, and the
\* tally is their number (DropTally: "entries this session did not record").
EveryCallIsAccountedFor ==
  \A p \in Procs : life[p] # "cut" =>
    /\ 1..sent[p] = UNION {Places(p)[i] : i \in 1..4}
    /\ \A i, j \in 1..4 : i # j => Places(p)[i] \cap Places(p)[j] = {}
    /\ Cardinality(lost[p]) = dropped[p]

\* The rows of one process are its calls in the order it logged them, none
\* twice, whatever was dropped in between.
RowsKeepCallOrder ==
  \A i, j \in DOMAIN rows :
    (/\ i < j
     /\ rows[i].proc = rows[j].proc
     /\ rows[i].kind = "call" /\ rows[j].kind = "call")
      => rows[i].n < rows[j].n

\* The losses that the gap markers of p declare.
Declared(p) ==
  LET sum[i \in 0..Len(rows)] ==
        IF i = 0 THEN 0
        ELSE IF rows[i].proc = p /\ rows[i].kind = "gap" THEN sum[i - 1] + rows[i].n
        ELSE sum[i - 1]
  IN  sum[Len(rows)]

\* The gap markers of a process add up to the drops its writer has recorded,
\* never more than were lost: a marker that failed is retried with the rest,
\* and a drop that races the marker is left to the next one
\* (persist_audit_gap).
MarkersAddUp ==
  \A p \in Procs : Declared(p) = recorded[p] /\ recorded[p] <= Cardinality(lost[p])

\* A process that reports success has every call it logged in the database:
\* a drop, a failed insert or a drain that gave up is never a silent loss
\* (wait_for_drain and the match on its outcome in proxy::run).
SuccessMeansComplete ==
  \A p \in Procs : exit[p] = "ok" => Stored(p) = 1..sent[p]

\* The database is the abstract audit log: no step rewrites, forks, repeats
\* or reorders it, and no marker declares a loss that did not happen.
IsAuditLog == Log!LogSpec

\* A process that closes its channel comes to its end: the writer drains
\* what is queued, even if every insert fails, writes its last marker, and
\* wait_for_drain returns.
ShutdownEnds ==
  \A p \in Procs : life[p] = "closing" ~> life[p] \in {"exited", "cut"}
=============================================================================
