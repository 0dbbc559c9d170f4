---------------------------- MODULE LeaseRecovery ---------------------------
(***************************************************************************)
(* How a session that died is found and recorded: the liveness lease of    *)
(* src/src/lease.rs, the recovery scan of src/src/recovery.rs, and their   *)
(* place in the start and the shutdown of a process (src/src/proxy.rs).    *)
(*                                                                         *)
(* Each process runs one session and has one lease, a file that it keeps   *)
(* locked; all three go by the process's name. Of its writer there is the  *)
(* queue: AuditWriter has the rest.                                        *)
(***************************************************************************)
EXTENDS Naturals, Sequences

CONSTANTS
  Procs,        \* processes that share the database
  Killable,     \* those that may be killed
  Faulty,       \* the processes whose lease, reads and writes may fail
  SlowDrain,    \* a shutdown may give up on its writer
  NoProc        \* nobody

ASSUME SubsetsAssumption == Killable \subseteq Procs /\ Faulty \subseteq Procs
ASSUME SlowDrainAssumption == SlowDrain \in BOOLEAN
ASSUME NoProcAssumption == NoProc \notin Procs

VARIABLES
  rows,         \* the lifecycle rows of the database
  holder,       \* per lease, the process that holds its lock
  pc,           \* per process, where it is
  seen,         \* per process, the candidates its scan has left
  target,       \* per process, the session it may find abandoned
  reply,        \* per process, the reply to its durable write
  queue         \* per process, the rows its writer has yet to write

vars == <<rows, holder, pc, seen, target, reply, queue>>

\* A "bare" start names no lease.
Row == [kind : {"start", "bare", "end", "abandoned"}, session : Procs]

TypeOK ==
  /\ rows \in Seq(Row)
  /\ holder \in [Procs -> Procs \cup {NoProc}]
  /\ pc \in [Procs -> {"off", "scan", "next", "recheck", "await", "start", "running",
                       "draining", "leaving", "gone"}]
  /\ seen \in [Procs -> SUBSET Procs]
  /\ target \in [Procs -> Procs \cup {NoProc}]
  /\ reply \in [Procs -> {"none", "waiting", "ok", "err"}]
  /\ queue \in [Procs -> Seq(Row)]
  /\ \A p \in Procs : pc[p] \in {"recheck", "await"} =>
       target[p] # NoProc /\ holder[target[p]] = p

Init ==
  /\ rows = <<>>
  /\ holder = [p \in Procs |-> NoProc]
  /\ pc = [p \in Procs |-> "off"]
  /\ seen = [p \in Procs |-> {}]
  /\ target = [p \in Procs |-> NoProc]
  /\ reply = [p \in Procs |-> "none"]
  /\ queue = [p \in Procs |-> <<>>]

At(p, place) == pc[p] = place

Goto(p, place) == pc' = [pc EXCEPT ![p] = place]

Alive(p) == pc[p] \notin {"off", "gone"}

Recorded(kind, s) == [kind |-> kind, session |-> s] \in {rows[i] : i \in DOMAIN rows}

\* The session has a row that closes it.
Closed(s) == Recorded("end", s) \/ Recorded("abandoned", s)

\* A lock file that outlives its process.
LeftBehind(p) == holder

\* The locks of p's open files end with them.
Released(p) == [s \in Procs |-> IF holder[s] = p THEN NoProc ELSE holder[s]]

-----------------------------------------------------------------------------
(* Start-up: the lease, the scan, the start row. *)

\* SessionLease::create; without a lease the process goes on.
CreateLease(p) ==
  /\ At(p, "off")
  /\ \/ holder' = [holder EXCEPT ![p] = p]
     \/ p \in Faulty /\ UNCHANGED holder
  /\ Goto(p, "scan")
  /\ UNCHANGED <<rows, seen, target, reply, queue>>

\* candidates: a start that names a lease, and no row that closes the session.
Unclosed(s) == Recorded("start", s) /\ ~Closed(s)

Scan(p) ==
  /\ At(p, "scan")
  /\ \/ seen' = [seen EXCEPT ![p] = {s \in Procs : Unclosed(s)}]
     \/ p \in Faulty /\ UNCHANGED seen
  /\ Goto(p, "next")
  /\ UNCHANGED <<rows, holder, target, reply, queue>>

\* The file is there: reason enough.
LeaseExists(s) == TRUE

\* try_lock succeeds if no process holds the lock.
LeaseIsFree(s) == holder[s] = NoProc

\* SessionLease::try_recover of the next candidate, in no particular order.
TryRecover(p) ==
  /\ At(p, "next")
  /\ \E s \in seen[p] :
       /\ seen' = [seen EXCEPT ![p] = @ \ {s}]
       /\ \/ /\ LeaseIsFree(s)
             /\ holder' = [holder EXCEPT ![s] = p]
             /\ target' = [target EXCEPT ![p] = s]
             /\ Goto(p, "recheck")
          \/ /\ ~LeaseIsFree(s) \/ p \in Faulty
             /\ UNCHANGED <<holder, target, pc>>
  /\ UNCHANGED <<rows, reply, queue>>

\* The scan's own reading is trusted.
StillOpen(s) == TRUE

\* session_state, read again under the lease.
OpenUnderLease(s) == ~Closed(s)

\* The lease of the candidate goes out of scope.
NextCandidate(p) ==
  /\ holder' = [holder EXCEPT ![target[p]] = NoProc]
  /\ target' = [target EXCEPT ![p] = NoProc]
  /\ Goto(p, "next")

\* Read the session's rows again; if it is still open, log_durable.
Recheck(p) ==
  /\ At(p, "recheck")
  /\ \/ /\ OpenUnderLease(target[p])
        /\ queue' = [queue EXCEPT ![p] =
                       Append(@, [kind |-> "abandoned", session |-> target[p]])]
        /\ reply' = [reply EXCEPT ![p] = "waiting"]
        /\ Goto(p, "await")
        /\ UNCHANGED <<holder, target>>
     \/ /\ ~OpenUnderLease(target[p]) \/ p \in Faulty
        /\ NextCandidate(p)
        /\ UNCHANGED <<queue, reply>>
  /\ UNCHANGED <<rows, seen>>

\* log_durable waits, without a limit, for the transaction to be over.
Replied(p) == reply[p] \in {"ok", "err"}

Answered(p) ==
  /\ At(p, "await")
  /\ Replied(p)
  /\ reply' = [reply EXCEPT ![p] = "none"]
  /\ NextCandidate(p)
  /\ UNCHANGED <<rows, seen, queue>>

ScanDone(p) ==
  /\ At(p, "next")
  /\ seen[p] = {}
  /\ Goto(p, "start")
  /\ UNCHANGED <<rows, holder, seen, target, reply, queue>>

\* DbHandle::log of a lifecycle row; a full queue drops it.
Log(p, kind) ==
  queue' \in {[queue EXCEPT ![p] = Append(@, [kind |-> kind, session |-> p])]}
               \cup (IF p \in Faulty THEN {queue} ELSE {})

LogStart(p) ==
  /\ At(p, "start")
  /\ Log(p, IF holder[p] = p THEN "start" ELSE "bare")
  /\ Goto(p, "running")
  /\ UNCHANGED <<rows, holder, seen, target, reply>>

-----------------------------------------------------------------------------
(* The writer thread: the rows that wait are written, or fail, in order. *)

Reply(p, r) == reply' = [reply EXCEPT ![p] = IF @ = "waiting" THEN r ELSE @]

Commit(p) ==
  /\ Alive(p)
  /\ queue[p] # <<>>
  /\ rows' = Append(rows, Head(queue[p]))
  /\ queue' = [queue EXCEPT ![p] = Tail(@)]
  /\ Reply(p, "ok")
  /\ UNCHANGED <<holder, pc, seen, target>>

CommitFails(p) ==
  /\ p \in Faulty
  /\ Alive(p)
  /\ queue[p] # <<>>
  /\ queue' = [queue EXCEPT ![p] = Tail(@)]
  /\ Reply(p, "err")
  /\ UNCHANGED <<rows, holder, pc, seen, target>>

-----------------------------------------------------------------------------
(* The end of a process. *)

\* The lease is let go when the shutdown begins.
ReleasedAtOnce(p) == Released(p)

\* The lease is kept while the writer drains.
KeptForDrain(p) == holder

\* The shutdown logs the end row and closes the writer's queue.
Stop(p) ==
  /\ At(p, "running")
  /\ Log(p, "end")
  /\ holder' = KeptForDrain(p)
  /\ Goto(p, "draining")
  /\ UNCHANGED <<rows, seen, target, reply>>

\* wait_for_drain, then the lease is dropped and run returns.
Drained(p) ==
  /\ At(p, "draining")
  /\ queue[p] = <<>>
  /\ holder' = Released(p)
  /\ Goto(p, "gone")
  /\ UNCHANGED <<rows, seen, target, reply, queue>>

\* run returns an error: the target did not start, or the drain timed out.
\* Its lease is dropped; its writer works on until the process has exited.
ReturnsError(p) ==
  /\ At(p, "running") \/ (SlowDrain /\ At(p, "draining") /\ queue[p] # <<>>)
  /\ holder' = Released(p)
  /\ Goto(p, "leaving")
  /\ UNCHANGED <<rows, seen, target, reply, queue>>

\* The process is gone: the system frees its locks, its queue is lost.
Dies(p) ==
  /\ holder' = Released(p)
  /\ queue' = [queue EXCEPT ![p] = <<>>]
  /\ Goto(p, "gone")
  /\ UNCHANGED <<rows, seen, target, reply>>

Exit(p) == At(p, "leaving") /\ Dies(p)

Kill(p) == p \in Killable /\ Alive(p) /\ Dies(p)

StartStep(p) ==
  \/ CreateLease(p) \/ Scan(p) \/ TryRecover(p) \/ Recheck(p)
  \/ Answered(p) \/ ScanDone(p) \/ LogStart(p)

WriterStep(p) == Commit(p) \/ CommitFails(p)

AllGone == (\A p \in Procs : At(p, "gone")) /\ UNCHANGED vars

Next ==
  \/ \E p \in Procs :
       \/ StartStep(p) \/ WriterStep(p)
       \/ Stop(p) \/ Drained(p) \/ ReturnsError(p) \/ Exit(p) \/ Kill(p)
  \/ AllGone

\* A process starts some day and goes on with its start; its writer writes.
Fairness == \A p \in Procs : WF_vars(StartStep(p)) /\ WF_vars(WriterStep(p))

Spec == Init /\ [][Next]_vars

FairSpec == Spec /\ Fairness
-----------------------------------------------------------------------------
(* Properties. *)

\* However many processes start together over one dead session, the session
\* is recorded as abandoned once (recover_abandoned: "making recovery
\* idempotent across concurrent starters").
AbandonedOnce ==
  \A i, j \in DOMAIN rows :
    rows[i] = rows[j] /\ rows[i].kind = "abandoned" => i = j

\* A session is never recorded as abandoned while its process still proxies
\* or drains, however long it takes and whoever scans (SessionLease).
LiveIsNeverAbandoned ==
  \A s \in Procs : Recorded("abandoned", s) => pc[s] \in {"leaving", "gone"}

\* A session that recorded its clean end is not recorded as abandoned too:
\* the lease is kept "through the durable writer drain so a concurrent
\* recovery scan cannot mistake this session for a dead process".
EndedIsNotAbandoned ==
  \A s \in Procs : ~(Recorded("end", s) /\ Recorded("abandoned", s))

\* A session that died after its start was recorded does not stay open for
\* ever: one more start of a process closes it, unless one that was about to
\* is killed over it, or failed at it.
DeadIsClosed ==
  \A s \in Procs, q \in Procs \ (Killable \cup Faulty) :
    (At(s, "gone") /\ Recorded("start", s) /\ At(q, "off"))
      ~> \/ Closed(s)
         \/ \E r \in Killable \ {s} : At(r, "gone")
         \/ \E r \in Faulty \ {s} : ~At(r, "off")
=============================================================================
