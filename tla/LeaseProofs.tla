----------------------------- MODULE LeaseProofs -----------------------------
(***************************************************************************)
(* Theorems about LeaseRecovery, for any number of processes, whoever of   *)
(* them is killed and whatever fails.                                      *)
(***************************************************************************)
EXTENDS LeaseRecovery, SequenceTheorems, TLAPS

\* The row that a scan writes of a session, and the rows that wait in p's queue.
AbandonedRow(s) == [kind |-> "abandoned", session |-> s]

Waits(p) == {queue[p][i] : i \in DOMAIN queue[p]}

\* p has tried to record its start.
Started(p) == pc[p] \in {"running", "draining", "leaving", "gone"}

\* p has given up its lease.
Dead(p) == pc[p] \in {"leaving", "gone"}

\* What a process has in its queue at each place.
QueueInv ==
  \A p \in Procs :
    /\ pc[p] \in {"off", "scan", "next", "recheck", "start", "gone"} => queue[p] = <<>>
    /\ At(p, "await") => queue[p] = IF reply[p] = "waiting"
                                      THEN <<AbandonedRow(target[p])>> ELSE <<>>
    /\ reply[p] = "waiting" => pc[p] \in {"await", "gone"}
    /\ Started(p) => \A r \in Waits(p) : r.session = p /\ r.kind # "abandoned"

\* A session whose start names a lease holds that lease until it has let go.
StartInv ==
  \A p \in Procs :
    Recorded("start", p) \/ [kind |-> "start", session |-> p] \in Waits(p)
      => Started(p) /\ (~Dead(p) => holder[p] = p)

\* A scan looks only at sessions with a start, and takes only dead ones.
ScanInv ==
  \A p \in Procs :
    /\ \A s \in seen[p] : Recorded("start", s)
    /\ pc[p] \in {"recheck", "await"} => Dead(target[p])
    /\ reply[p] = "waiting" /\ At(p, "await") => ~Recorded("abandoned", target[p])

LeaseInv ==
  /\ TypeOK /\ QueueInv /\ StartInv /\ ScanInv
  /\ LiveIsNeverAbandoned /\ AbandonedOnce

-----------------------------------------------------------------------------
(* Lemmas about rows and queues. *)

LEMMA Appended ==
  ASSUME NEW S, NEW q \in Seq(S), NEW e \in S
  PROVE  /\ Append(q, e) \in Seq(S)
         /\ {Append(q, e)[i] : i \in DOMAIN Append(q, e)} = {q[i] : i \in DOMAIN q} \cup {e}
<1>1. /\ Append(q, e) \in Seq(S) /\ Len(q) \in Nat
      /\ DOMAIN Append(q, e) = 1..(Len(q) + 1) /\ DOMAIN q = 1..Len(q)
      /\ \A i \in 1..Len(q) : Append(q, e)[i] = q[i]
      /\ Append(q, e)[Len(q) + 1] = e
  BY AppendProperties
<1>2. {Append(q, e)[i] : i \in DOMAIN Append(q, e)} \subseteq {q[i] : i \in DOMAIN q} \cup {e}
  <2>1. SUFFICES ASSUME NEW i \in 1..(Len(q) + 1)
                 PROVE  Append(q, e)[i] \in {q[j] : j \in DOMAIN q} \cup {e}
    BY <1>1
  <2>2. i \in 1..Len(q) \/ i = Len(q) + 1
    BY <1>1
  <2>3. QED
    BY <1>1, <2>2
<1>3. {q[i] : i \in DOMAIN q} \subseteq {Append(q, e)[i] : i \in DOMAIN Append(q, e)}
  <2>1. SUFFICES ASSUME NEW i \in DOMAIN q
                 PROVE  q[i] \in {Append(q, e)[j] : j \in DOMAIN Append(q, e)}
    OBVIOUS
  <2>2. i \in DOMAIN Append(q, e) /\ Append(q, e)[i] = q[i]
    BY <1>1
  <2>3. QED
    BY <2>2
<1>4. e \in {Append(q, e)[i] : i \in DOMAIN Append(q, e)}
  <2>1. Len(q) + 1 \in DOMAIN Append(q, e)
    BY <1>1
  <2>2. QED
    BY <1>1, <2>1
<1>5. QED
  BY <1>1, <1>2, <1>3, <1>4

LEMMA Shortened ==
  ASSUME NEW S, NEW q \in Seq(S), q # <<>>
  PROVE  /\ Head(q) \in S /\ Tail(q) \in Seq(S)
         /\ Head(q) \in {q[i] : i \in DOMAIN q}
         /\ {Tail(q)[i] : i \in DOMAIN Tail(q)} \subseteq {q[i] : i \in DOMAIN q}
<1>1. /\ Len(q) \in Nat /\ Len(q) >= 1 /\ DOMAIN q = 1..Len(q)
      /\ Head(q) = q[1] /\ Tail(q) \in Seq(S) /\ DOMAIN Tail(q) = 1..(Len(q) - 1)
      /\ \A i \in 1..(Len(q) - 1) : Tail(q)[i] = q[i + 1]
  BY HeadTailProperties, EmptySeq, LenProperties
<1>2. Head(q) \in S /\ Head(q) \in {q[i] : i \in DOMAIN q}
  BY <1>1, ElementOfSeq
<1>3. ASSUME NEW i \in DOMAIN Tail(q) PROVE Tail(q)[i] \in {q[j] : j \in DOMAIN q}
  <2>1. i + 1 \in DOMAIN q /\ Tail(q)[i] = q[i + 1]
    BY <1>1, <1>3
  <2>2. QED
    BY <2>1
<1>4. QED
  BY <1>1, <1>2, <1>3

LEMMA EmptyDomain == DOMAIN <<>> = {}
OBVIOUS

LEMMA NothingWaits == \A p : queue[p] = <<>> => Waits(p) = {}
<1>. SUFFICES ASSUME NEW p, queue[p] = <<>> PROVE Waits(p) = {}
  OBVIOUS
<1>1. DOMAIN queue[p] = {}
  BY EmptyDomain
<1>2. QED
  BY <1>1 DEF Waits

LEMMA Single ==
  ASSUME NEW S, NEW e \in S
  PROVE  <<e>> \in Seq(S) /\ Tail(<<e>>) = <<>> /\ Head(<<e>>) = e /\ <<e>> # <<>>
OBVIOUS

-----------------------------------------------------------------------------
(* Types. *)

LEMMA RowsAreRows ==
  ASSUME NEW p \in Procs
  PROVE  \A kind \in {"start", "bare", "end", "abandoned"} :
           [kind |-> kind, session |-> p] \in Row
BY DEF Row

LEMMA NextTypes == ASSUME LeaseInv, [Next]_vars PROVE TypeOK'
<1>. USE NoProcAssumption DEF At, Goto
<1>0. TypeOK /\ ScanInv
  BY DEF LeaseInv
<1>1. ASSUME NEW p \in Procs, CreateLease(p) PROVE TypeOK'
  <2>1. \A q \in Procs : pc[q] \in {"recheck", "await"} => target[q] # p
    BY <1>0, <1>1 DEF CreateLease, ScanInv, Dead
  <2>2. QED
    BY <1>0, <1>1, <2>1 DEF CreateLease, TypeOK
<1>2. ASSUME NEW p \in Procs, Scan(p) \/ ScanDone(p) PROVE TypeOK'
  <2>1. PICK S \in SUBSET Procs :
          seen' = seen \/ seen' = [seen EXCEPT ![p] = S]
    BY <1>2 DEF Scan, ScanDone
  <2>2. seen' \in [Procs -> SUBSET Procs]
    BY <1>0, <2>1 DEF TypeOK
  <2>3. /\ pc' = [pc EXCEPT ![p] = "next"] \/ pc' = [pc EXCEPT ![p] = "start"]
        /\ UNCHANGED <<rows, holder, target, reply, queue>>
    BY <1>2 DEF Scan, ScanDone
  <2>4. QED
    BY <1>0, <2>2, <2>3 DEF TypeOK
<1>3. ASSUME NEW p \in Procs, TryRecover(p) PROVE TypeOK'
  <2>1. PICK s \in seen[p] :
          /\ seen' = [seen EXCEPT ![p] = @ \ {s}]
          /\ \/ /\ holder[s] = NoProc
                /\ holder' = [holder EXCEPT ![s] = p]
                /\ target' = [target EXCEPT ![p] = s]
                /\ pc' = [pc EXCEPT ![p] = "recheck"]
             \/ UNCHANGED <<holder, target, pc>>
    BY <1>3 DEF TryRecover, LeaseIsFree
  <2>2. s \in Procs /\ pc[p] = "next" /\ UNCHANGED <<rows, reply, queue>>
    BY <1>0, <1>3 DEF TryRecover, TypeOK
  <2>3. seen' \in [Procs -> SUBSET Procs]
    <3>1. seen[p] \ {s} \in SUBSET Procs
      BY <1>0 DEF TypeOK
    <3>2. QED
      BY <1>0, <2>1, <3>1 DEF TypeOK
  <2>4. CASE UNCHANGED <<holder, target, pc>>
    BY <1>0, <2>2, <2>3, <2>4 DEF TypeOK
  <2>5. CASE /\ holder[s] = NoProc
             /\ holder' = [holder EXCEPT ![s] = p]
             /\ target' = [target EXCEPT ![p] = s]
             /\ pc' = [pc EXCEPT ![p] = "recheck"]
    <3>1. \A q \in Procs : pc[q] \in {"recheck", "await"} => target[q] # s
      BY <1>0, <2>5 DEF TypeOK
    <3>2. QED
      BY <1>0, <2>2, <2>3, <2>5, <3>1 DEF TypeOK
  <2>6. QED
    BY <2>1, <2>4, <2>5
<1>4. ASSUME NEW p \in Procs, pc[p] \in {"recheck", "await"}, NextCandidate(p),
             \/ UNCHANGED reply
             \/ reply' = [reply EXCEPT ![p] = "none"],
             UNCHANGED <<rows, seen, queue>>
      PROVE  TypeOK'
  <2>1. target[p] \in Procs /\ holder[target[p]] = p
    BY <1>0, <1>4 DEF TypeOK
  <2>2. \A q \in Procs : q # p /\ pc[q] \in {"recheck", "await"} => target[q] # target[p]
    BY <1>0, <2>1 DEF TypeOK
  <2>3. /\ holder' = [holder EXCEPT ![target[p]] = NoProc]
        /\ target' = [target EXCEPT ![p] = NoProc]
        /\ pc' = [pc EXCEPT ![p] = "next"]
    BY <1>4 DEF NextCandidate
  <2>4. \A q \in Procs : pc'[q] \in {"recheck", "await"} =>
          target'[q] # NoProc /\ holder'[target'[q]] = q
    <3>1. SUFFICES ASSUME NEW q \in Procs, pc'[q] \in {"recheck", "await"}
                   PROVE  target'[q] # NoProc /\ holder'[target'[q]] = q
      OBVIOUS
    <3>2. q # p /\ pc'[q] = pc[q] /\ target'[q] = target[q]
      BY <1>0, <2>3, <3>1 DEF TypeOK
    <3>3. target[q] \in Procs /\ holder[target[q]] = q
      BY <1>0, <3>1, <3>2 DEF TypeOK
    <3>4. holder'[target[q]] = holder[target[q]]
      BY <1>0, <2>2, <2>3, <3>1, <3>2, <3>3 DEF TypeOK
    <3>5. QED
      BY <3>2, <3>3, <3>4
  <2>5. reply' \in [Procs -> {"none", "waiting", "ok", "err"}]
    BY <1>0, <1>4 DEF TypeOK
  <2>6. QED
    BY <1>0, <1>4, <2>1, <2>3, <2>4, <2>5 DEF TypeOK
<1>5. ASSUME NEW p \in Procs, Recheck(p) PROVE TypeOK'
  <2>1. CASE /\ queue' = [queue EXCEPT ![p] = Append(@, AbandonedRow(target[p]))]
             /\ reply' = [reply EXCEPT ![p] = "waiting"]
             /\ Goto(p, "await")
             /\ UNCHANGED <<holder, target>>
    <3>1. AbandonedRow(target[p]) \in Row /\ queue[p] \in Seq(Row)
      BY <1>0, <1>5, RowsAreRows DEF Recheck, TypeOK, AbandonedRow
    <3>2. Append(queue[p], AbandonedRow(target[p])) \in Seq(Row)
      BY <3>1, Appended
    <3>3. UNCHANGED <<rows, seen>> /\ pc[p] = "recheck"
      BY <1>5 DEF Recheck
    <3>4. QED
      BY <1>0, <2>1, <3>2, <3>3 DEF TypeOK
  <2>2. CASE NextCandidate(p) /\ UNCHANGED <<queue, reply>>
    BY <1>4, <1>5, <2>2 DEF Recheck
  <2>3. QED
    BY <1>5, <2>1, <2>2 DEF Recheck, AbandonedRow
<1>6. ASSUME NEW p \in Procs, Answered(p) PROVE TypeOK'
  BY <1>4, <1>6 DEF Answered
<1>7. ASSUME NEW p \in Procs, LogStart(p) \/ Stop(p) PROVE TypeOK'
  <2>1. PICK kind \in {"start", "bare", "end"} : Log(p, kind)
    BY <1>7 DEF LogStart, Stop
  <2>2. Append(queue[p], [kind |-> kind, session |-> p]) \in Seq(Row)
    BY <1>0, RowsAreRows, Appended DEF TypeOK
  <2>3. queue' \in [Procs -> Seq(Row)]
    BY <1>0, <2>1, <2>2 DEF Log, TypeOK
  <2>4. /\ \E place \in {"running", "draining"} : pc' = [pc EXCEPT ![p] = place]
        /\ UNCHANGED <<rows, holder, seen, target, reply>>
    BY <1>7 DEF LogStart, Stop, KeptForDrain
  <2>5. QED
    BY <1>0, <2>3, <2>4 DEF TypeOK
<1>8. ASSUME NEW p \in Procs, WriterStep(p) PROVE TypeOK'
  <2>1. queue[p] # <<>> /\ queue[p] \in Seq(Row)
    BY <1>0, <1>8 DEF WriterStep, Commit, CommitFails, TypeOK
  <2>2. Head(queue[p]) \in Row /\ Tail(queue[p]) \in Seq(Row)
    BY <2>1, Shortened
  <2>3. Append(rows, Head(queue[p])) \in Seq(Row)
    BY <1>0, <2>2, Appended DEF TypeOK
  <2>4. rows' \in Seq(Row) /\ queue' = [queue EXCEPT ![p] = Tail(queue[p])]
    BY <1>0, <1>8, <2>3 DEF WriterStep, Commit, CommitFails, TypeOK
  <2>5. reply' \in [Procs -> {"none", "waiting", "ok", "err"}]
    <3>1. PICK r \in {"ok", "err"} :
            reply' = [reply EXCEPT ![p] = IF @ = "waiting" THEN r ELSE @]
      BY <1>8 DEF WriterStep, Commit, CommitFails, Reply
    <3>2. QED
      BY <1>0, <3>1 DEF TypeOK
  <2>6. QED
    BY <1>0, <1>8, <2>2, <2>4, <2>5 DEF WriterStep, Commit, CommitFails, TypeOK
<1>9. ASSUME NEW p \in Procs, Drained(p) \/ ReturnsError(p) \/ Exit(p) \/ Kill(p)
      PROVE  TypeOK'
  <2>1. /\ holder' = Released(p) /\ UNCHANGED <<rows, seen, target, reply>>
        /\ \E place \in {"leaving", "gone"} : pc' = [pc EXCEPT ![p] = place]
        /\ UNCHANGED queue \/ queue' = [queue EXCEPT ![p] = <<>>]
    BY <1>9 DEF Drained, ReturnsError, Exit, Kill, Dies
  <2>2. <<>> \in Seq(Row)
    OBVIOUS
  <2>3. holder' = [s \in Procs |-> IF holder[s] = p THEN NoProc ELSE holder[s]]
    BY <2>1 DEF Released
  <2>4. holder' \in [Procs -> Procs \cup {NoProc}]
    BY <1>0, <2>3 DEF TypeOK
  <2>5. \A q \in Procs : pc'[q] \in {"recheck", "await"} =>
          target'[q] # NoProc /\ holder'[target'[q]] = q
    <3>1. SUFFICES ASSUME NEW q \in Procs, pc'[q] \in {"recheck", "await"}
                   PROVE  target[q] # NoProc /\ holder'[target[q]] = q
      BY <2>1
    <3>2. q # p /\ pc'[q] = pc[q]
      BY <1>0, <2>1, <3>1 DEF TypeOK
    <3>3. target[q] \in Procs /\ holder[target[q]] = q
      BY <1>0, <3>1, <3>2 DEF TypeOK
    <3>4. QED
      BY <2>3, <3>2, <3>3, NoProcAssumption
  <2>6. queue' \in [Procs -> Seq(Row)]
    BY <1>0, <2>1, <2>2 DEF TypeOK
  <2>7. pc' \in [Procs -> {"off", "scan", "next", "recheck", "await", "start", "running",
                           "draining", "leaving", "gone"}]
    BY <1>0, <2>1 DEF TypeOK
  <2>8. QED
    BY <1>0, <2>1, <2>4, <2>5, <2>6, <2>7 DEF TypeOK
<1>10. CASE UNCHANGED vars
  BY <1>0, <1>10 DEF vars, TypeOK
<1>11. QED
  BY <1>1, <1>2, <1>3, <1>5, <1>6, <1>7, <1>8, <1>9, <1>10
  DEF Next, StartStep, AllGone

LEMMA InitLease == Init => LeaseInv
<1>. SUFFICES ASSUME Init PROVE LeaseInv
  OBVIOUS
<1>1. TypeOK
  BY DEF Init, TypeOK
<1>2. \A kind, s : ~Recorded(kind, s)
  BY DEF Init, Recorded
<1>3. \A p \in Procs : Waits(p) = {}
  <2>1. \A p \in Procs : queue[p] = <<>>
    BY DEF Init
  <2>2. QED
    BY <2>1, NothingWaits
<1>4. QueueInv
  BY DEF Init, QueueInv, At, Started
<1>5. StartInv /\ ScanInv
  BY <1>2, <1>3 DEF Init, StartInv, ScanInv, At
<1>6. LiveIsNeverAbandoned /\ AbandonedOnce
  BY <1>2 DEF Init, LiveIsNeverAbandoned, AbandonedOnce
<1>7. QED
  BY <1>1, <1>4, <1>5, <1>6 DEF LeaseInv

-----------------------------------------------------------------------------
(* Steps that leave the rows and the queues as they are. *)

\* What is recorded, and what waits, is the same.
LEMMA Quiet ==
  /\ UNCHANGED rows => \A kind, s : Recorded(kind, s)' = Recorded(kind, s)
  /\ UNCHANGED rows /\ AbandonedOnce => AbandonedOnce'
  /\ \A p : queue'[p] = queue[p] => Waits(p)' = Waits(p)
BY DEF Recorded, AbandonedOnce, Waits

LEMMA NextQuiet ==
  ASSUME LeaseInv, TypeOK', UNCHANGED <<rows, queue>>, NEW p \in Procs,
         \/ CreateLease(p) \/ Scan(p) \/ ScanDone(p)
  PROVE  LeaseInv'
<1>. USE DEF At, Goto
<1>1. TypeOK /\ QueueInv /\ StartInv /\ ScanInv /\ LiveIsNeverAbandoned /\ AbandonedOnce
  BY DEF LeaseInv
<1>2. /\ \A kind, s : Recorded(kind, s)' = Recorded(kind, s)
      /\ \A q : Waits(q)' = Waits(q)
      /\ AbandonedOnce'
  BY <1>1, Quiet
<1>3. /\ UNCHANGED <<target, reply>>
      /\ \E place \in {"scan", "next", "start"} : pc' = [pc EXCEPT ![p] = place]
      /\ pc[p] \in {"off", "scan", "next"}
  BY DEF CreateLease, Scan, ScanDone
<1>4. \A q \in Procs : Started(q)' = Started(q) /\ Dead(q)' = Dead(q)
  BY <1>1, <1>3 DEF TypeOK, Started, Dead
<1>5. QueueInv'
  <2>1. SUFFICES ASSUME NEW q \in Procs
        PROVE /\ pc'[q] \in {"off", "scan", "next", "recheck", "start", "gone"}
                   => queue[q] = <<>>
              /\ pc'[q] = "await" => queue[q] = IF reply[q] = "waiting"
                                      THEN <<AbandonedRow(target[q])>> ELSE <<>>
              /\ reply[q] = "waiting" => pc'[q] \in {"await", "gone"}
              /\ Started(q) => \A r \in Waits(q) : r.session = q /\ r.kind # "abandoned"
    BY <1>2, <1>3, <1>4 DEF QueueInv, AbandonedRow
  <2>2. /\ \A r \in Procs : r # p => pc'[r] = pc[r]
        /\ pc'[p] \in {"scan", "next", "start"} /\ queue[p] = <<>> /\ reply[p] # "waiting"
    <3>1. queue[p] = <<>> /\ reply[p] # "waiting"
      BY <1>1, <1>3 DEF QueueInv
    <3>2. QED
      BY <1>1, <1>3, <3>1 DEF TypeOK
  <2>3. CASE q = p
    BY <1>1, <2>2, <2>3 DEF QueueInv
  <2>4. CASE q # p
    BY <1>1, <2>2, <2>4 DEF QueueInv
  <2>5. QED
    BY <2>3, <2>4
<1>6. StartInv'
  <2>1. \A q \in Procs : Started(q) => holder'[q] = holder[q]
    BY <1>1 DEF CreateLease, Scan, ScanDone, Started, TypeOK
  <2>2. QED
    BY <1>1, <1>2, <1>4, <2>1 DEF StartInv
<1>7. ScanInv'
  <2>1. \A q \in Procs : \A s \in seen'[q] : Recorded("start", s)
    <3>1. PICK S : /\ S = {s \in Procs : Unclosed(s)}
                   /\ seen' = seen \/ seen' = [seen EXCEPT ![p] = S]
      BY DEF CreateLease, Scan, ScanDone
    <3>2. \A q \in Procs : \A s \in seen[q] : Recorded("start", s)
      BY <1>1 DEF ScanInv
    <3>3. \A s \in S : Recorded("start", s)
      BY <3>1 DEF Unclosed
    <3>4. seen' = seen \/ seen' = [seen EXCEPT ![p] = S]
      BY <3>1
    <3>5. QED
      BY <1>1, <3>2, <3>3, <3>4 DEF TypeOK
  <2>2. \A q \in Procs : pc'[q] \in {"recheck", "await"} => pc'[q] = pc[q]
    BY <1>1, <1>3 DEF TypeOK
  <2>3. \A q \in Procs : pc'[q] \in {"recheck", "await"} => Dead(target[q])'
    <3>1. SUFFICES ASSUME NEW q \in Procs, pc'[q] \in {"recheck", "await"}
                   PROVE  Dead(target[q])'
      OBVIOUS
    <3>2. Dead(target[q]) /\ target[q] \in Procs
      BY <1>1, <2>2, <3>1 DEF ScanInv, TypeOK
    <3>3. QED
      BY <1>3, <1>4, <3>2 DEF Dead
  <2>4. QED
    BY <1>1, <1>2, <1>3, <2>1, <2>2, <2>3 DEF ScanInv
<1>8. LiveIsNeverAbandoned'
  BY <1>1, <1>2, <1>4 DEF LiveIsNeverAbandoned, Dead
<1>9. QED
  BY <1>2, <1>5, <1>6, <1>7, <1>8 DEF LeaseInv

\* A lease that is free is a dead session's, if the session has a start.
LEMMA NextTryRecover ==
  ASSUME LeaseInv, TypeOK', NEW p \in Procs, TryRecover(p)
  PROVE  LeaseInv'
<1>. USE DEF At, Goto
<1>1. TypeOK /\ QueueInv /\ StartInv /\ ScanInv /\ LiveIsNeverAbandoned /\ AbandonedOnce
  BY DEF LeaseInv
<1>2. UNCHANGED <<rows, reply, queue>> /\ pc[p] = "next"
  BY DEF TryRecover
<1>3. /\ \A kind, s : Recorded(kind, s)' = Recorded(kind, s)
      /\ \A q : Waits(q)' = Waits(q)
      /\ AbandonedOnce'
  BY <1>1, <1>2, Quiet
<1>4. PICK s \in seen[p] :
        /\ seen' = [seen EXCEPT ![p] = @ \ {s}]
        /\ \/ /\ holder[s] = NoProc
              /\ holder' = [holder EXCEPT ![s] = p]
              /\ target' = [target EXCEPT ![p] = s]
              /\ pc' = [pc EXCEPT ![p] = "recheck"]
           \/ UNCHANGED <<holder, target, pc>>
  BY DEF TryRecover, LeaseIsFree
<1>5. s \in Procs /\ Recorded("start", s)
  BY <1>1, <1>4 DEF TypeOK, ScanInv
<1>6. holder[s] = NoProc => Dead(s)
  BY <1>1, <1>5, NoProcAssumption DEF StartInv
<1>7. \A q \in Procs : Started(q)' = Started(q) /\ Dead(q)' = Dead(q)
  BY <1>1, <1>2, <1>4 DEF TypeOK, Started, Dead
<1>8. QueueInv'
  <2>1. \A q \in Procs : q # p => pc'[q] = pc[q] /\ target'[q] = target[q]
    BY <1>1, <1>4 DEF TypeOK
  <2>2. pc'[p] \in {"recheck", "next"}
    BY <1>1, <1>2, <1>4 DEF TypeOK
  <2>3. SUFFICES ASSUME NEW q \in Procs
        PROVE /\ pc'[q] \in {"off", "scan", "next", "recheck", "start", "gone"}
                   => queue[q] = <<>>
              /\ pc'[q] = "await" => queue[q] = IF reply[q] = "waiting"
                                      THEN <<AbandonedRow(target'[q])>> ELSE <<>>
              /\ reply[q] = "waiting" => pc'[q] \in {"await", "gone"}
              /\ Started(q) => \A r \in Waits(q) : r.session = q /\ r.kind # "abandoned"
    BY <1>2, <1>3, <1>7 DEF QueueInv, AbandonedRow
  <2>4. QED
    BY <1>1, <1>2, <2>1, <2>2 DEF QueueInv
<1>9. StartInv'
  <2>1. \A q \in Procs : ~Dead(q) => holder'[q] = holder[q]
    BY <1>1, <1>4, <1>5, <1>6 DEF TypeOK
  <2>2. QED
    BY <1>1, <1>3, <1>7, <2>1 DEF StartInv
<1>10. ScanInv'
  <2>1. \A q \in Procs : seen'[q] \subseteq seen[q]
    BY <1>1, <1>4 DEF TypeOK
  <2>2. SUFFICES ASSUME NEW q \in Procs, pc'[q] \in {"recheck", "await"}
        PROVE /\ Dead(target[q])'
              /\ reply[q] = "waiting" /\ pc'[q] = "await" => ~Recorded("abandoned", target'[q])
    BY <1>1, <1>2, <1>3, <2>1 DEF ScanInv
  <2>3. CASE q # p \/ UNCHANGED <<holder, target, pc>>
    <3>1. pc'[q] = pc[q] /\ target'[q] = target[q] /\ target[q] \in Procs
      BY <1>1, <1>4, <2>2, <2>3 DEF TypeOK
    <3>2. Dead(target[q]) /\ Dead(target[q])'
      BY <1>1, <1>7, <2>2, <3>1 DEF ScanInv, Dead
    <3>3. QED
      BY <1>1, <2>2, <3>1, <3>2 DEF ScanInv
  <2>4. CASE q = p /\ ~UNCHANGED <<holder, target, pc>>
    <3>1. pc'[p] = "recheck" /\ target'[p] = s /\ Dead(s)
      BY <1>1, <1>4, <1>6, <2>4 DEF TypeOK
    <3>2. Dead(s)'
      BY <1>5, <1>7, <3>1
    <3>3. QED
      BY <2>4, <3>1, <3>2 DEF Dead
  <2>5. QED
    BY <2>3, <2>4
<1>11. LiveIsNeverAbandoned'
  BY <1>1, <1>3, <1>7 DEF LiveIsNeverAbandoned, Dead
<1>12. QED
  BY <1>3, <1>8, <1>9, <1>10, <1>11 DEF LeaseInv

LEMMA NextCandidateOk ==
  ASSUME LeaseInv, TypeOK', NEW p \in Procs, pc[p] \in {"recheck", "await"},
         NextCandidate(p), UNCHANGED <<rows, seen, queue>>,
         \/ pc[p] = "recheck" /\ UNCHANGED reply
         \/ reply[p] # "waiting" /\ reply' = [reply EXCEPT ![p] = "none"]
  PROVE  LeaseInv'
<1>1. TypeOK /\ QueueInv /\ StartInv /\ ScanInv /\ LiveIsNeverAbandoned /\ AbandonedOnce
  BY DEF LeaseInv
<1>2. /\ \A kind, s : Recorded(kind, s)' = Recorded(kind, s)
      /\ \A q : Waits(q)' = Waits(q)
      /\ AbandonedOnce'
  BY <1>1, Quiet
<1>3. /\ holder' = [holder EXCEPT ![target[p]] = NoProc]
      /\ target' = [target EXCEPT ![p] = NoProc]
      /\ pc' = [pc EXCEPT ![p] = "next"]
  BY DEF NextCandidate, Goto
<1>4. \A q \in Procs : Started(q)' = Started(q) /\ Dead(q)' = Dead(q)
  BY <1>1, <1>3 DEF TypeOK, Started, Dead
<1>5. \A q \in Procs : q # p => /\ pc'[q] = pc[q] /\ target'[q] = target[q]
                                /\ reply'[q] = reply[q]
  BY <1>1, <1>3 DEF TypeOK
<1>6. pc'[p] = "next" /\ reply'[p] # "waiting" /\ queue[p] = <<>>
  BY <1>1, <1>3 DEF TypeOK, QueueInv, At
<1>7. QueueInv'
  <2>1. SUFFICES ASSUME NEW q \in Procs
        PROVE /\ pc'[q] \in {"off", "scan", "next", "recheck", "start", "gone"}
                   => queue[q] = <<>>
              /\ pc'[q] = "await" => queue[q] = IF reply'[q] = "waiting"
                                      THEN <<AbandonedRow(target'[q])>> ELSE <<>>
              /\ reply'[q] = "waiting" => pc'[q] \in {"await", "gone"}
              /\ Started(q) => \A r \in Waits(q) : r.session = q /\ r.kind # "abandoned"
    BY <1>2, <1>4 DEF QueueInv, AbandonedRow, At
  <2>2. CASE q = p
    BY <1>1, <1>6, <2>2 DEF QueueInv
  <2>3. CASE q # p
    BY <1>1, <1>5, <2>3 DEF QueueInv, At
  <2>4. QED
    BY <2>2, <2>3
<1>8. StartInv'
  <2>1. \A q \in Procs : ~Dead(q) => holder'[q] = holder[q]
    BY <1>1, <1>3 DEF TypeOK, ScanInv
  <2>2. QED
    BY <1>1, <1>2, <1>4, <2>1 DEF StartInv
<1>9. ScanInv'
  <2>1. SUFFICES ASSUME NEW q \in Procs, pc'[q] \in {"recheck", "await"}
        PROVE /\ Dead(target[q])'
              /\ reply'[q] = "waiting" /\ pc'[q] = "await" => ~Recorded("abandoned", target'[q])
    BY <1>1, <1>2 DEF ScanInv, At
  <2>2. q # p
    BY <1>6, <2>1
  <2>3. /\ pc'[q] = pc[q] /\ target'[q] = target[q] /\ reply'[q] = reply[q]
        /\ target[q] \in Procs
    BY <1>1, <1>5, <2>1, <2>2 DEF TypeOK
  <2>4. Dead(target[q])'
    BY <1>1, <1>4, <2>1, <2>3 DEF ScanInv, Dead
  <2>5. QED
    BY <1>1, <2>1, <2>3, <2>4 DEF ScanInv, At
<1>10. LiveIsNeverAbandoned'
  BY <1>1, <1>2, <1>4 DEF LiveIsNeverAbandoned, Dead
<1>11. QED
  BY <1>2, <1>7, <1>8, <1>9, <1>10 DEF LeaseInv

-----------------------------------------------------------------------------
(* Steps that leave the rows as they are and change p's queue. *)

LEMMA NextLog ==
  ASSUME LeaseInv, TypeOK', NEW p \in Procs, LogStart(p) \/ Stop(p)
  PROVE  LeaseInv'
<1>1. TypeOK /\ QueueInv /\ StartInv /\ ScanInv /\ LiveIsNeverAbandoned /\ AbandonedOnce
  BY DEF LeaseInv
<1>2. UNCHANGED <<rows, holder, seen, target, reply>>
  BY DEF LogStart, Stop, KeptForDrain
<1>3. (\A kind, s : Recorded(kind, s)' = Recorded(kind, s)) /\ AbandonedOnce'
  BY <1>1, <1>2, Quiet
<1>4. PICK kind \in {"start", "bare", "end"} :
        Log(p, kind) /\ (kind = "start" => holder[p] = p)
  BY DEF LogStart, Stop
<1>5. /\ pc[p] \in {"start", "running"}
      /\ \E place \in {"running", "draining"} : pc' = [pc EXCEPT ![p] = place]
  BY DEF LogStart, Stop, At, Goto
<1>6. /\ pc'[p] \in {"running", "draining"}
      /\ \A q \in Procs : q # p => pc'[q] = pc[q]
  BY <1>1, <1>5 DEF TypeOK
<1>7. \A q \in Procs : Dead(q)' = Dead(q) /\ (q # p => Started(q)' = Started(q))
  BY <1>5, <1>6 DEF Dead, Started
<1>8. \A q \in Procs : q # p => queue'[q] = queue[q] /\ Waits(q)' = Waits(q)
  <2>1. SUFFICES ASSUME NEW q \in Procs, q # p PROVE queue'[q] = queue[q]
    BY Quiet
  <2>2. QED
    BY <1>1, <1>4, <2>1 DEF Log, TypeOK
<1>9. \A r \in Waits(p)' : r \in Waits(p) \/ r = [kind |-> kind, session |-> p]
  <2>1. CASE queue' = queue
    BY <2>1, Quiet
  <2>2. CASE queue' = [queue EXCEPT ![p] = Append(@, [kind |-> kind, session |-> p])]
    <3>1. queue[p] \in Seq(Row) /\ [kind |-> kind, session |-> p] \in Row
      BY <1>1, RowsAreRows DEF TypeOK
    <3>2. queue'[p] = Append(queue[p], [kind |-> kind, session |-> p])
      BY <1>1, <2>2 DEF TypeOK
    <3>3. Waits(p)' = Waits(p) \cup {[kind |-> kind, session |-> p]}
      BY <3>1, <3>2, Appended DEF Waits
    <3>4. QED
      BY <3>3
  <2>3. QED
    BY <1>4, <2>1, <2>2 DEF Log
<1>10. \A r \in Waits(p) : r.session = p /\ r.kind # "abandoned"
  <2>1. CASE pc[p] = "start"
    BY <1>1, <2>1, NothingWaits DEF QueueInv
  <2>2. CASE pc[p] = "running"
    BY <1>1, <2>2 DEF QueueInv, Started
  <2>3. QED
    BY <1>5, <2>1, <2>2
<1>11. QueueInv'
  <2>1. SUFFICES ASSUME NEW q \in Procs
        PROVE /\ pc'[q] \in {"off", "scan", "next", "recheck", "start", "gone"}
                   => queue'[q] = <<>>
              /\ pc'[q] = "await" => queue'[q] = IF reply[q] = "waiting"
                                      THEN <<AbandonedRow(target[q])>> ELSE <<>>
              /\ reply[q] = "waiting" => pc'[q] \in {"await", "gone"}
              /\ Started(q)' => \A r \in Waits(q)' : r.session = q /\ r.kind # "abandoned"
    BY <1>2 DEF QueueInv, AbandonedRow, At
  <2>2. CASE q = p
    <3>1. \A r \in Waits(p)' : r.session = p /\ r.kind # "abandoned"
      BY <1>4, <1>9, <1>10
    <3>2. QED
      BY <1>1, <1>5, <1>6, <2>2, <3>1 DEF QueueInv
  <2>3. CASE q # p
    BY <1>1, <1>6, <1>7, <1>8, <2>3 DEF QueueInv, At
  <2>4. QED
    BY <2>2, <2>3
<1>12. StartInv'
  <2>1. SUFFICES ASSUME NEW q \in Procs,
                        \/ Recorded("start", q)
                        \/ [kind |-> "start", session |-> q] \in Waits(q)'
                 PROVE  Started(q)' /\ (~Dead(q) => holder[q] = q)
    BY <1>2, <1>3, <1>7 DEF StartInv
  <2>2. CASE q = p
    <3>1. Started(p)' /\ ~Dead(p)
      BY <1>5, <1>6 DEF Started, Dead
    <3>2. CASE Recorded("start", p) \/ [kind |-> "start", session |-> p] \in Waits(p)
      BY <1>1, <2>2, <3>1, <3>2 DEF StartInv
    <3>3. CASE [kind |-> "start", session |-> p] = [kind |-> kind, session |-> p]
      <4>1. kind = "start"
        BY <3>3
      <4>2. QED
        BY <1>4, <2>2, <3>1, <4>1
    <3>4. QED
      BY <1>9, <2>1, <2>2, <3>2, <3>3
  <2>3. CASE q # p
    BY <1>1, <1>7, <1>8, <2>1, <2>3 DEF StartInv
  <2>4. QED
    BY <2>2, <2>3
<1>13. ScanInv'
  <2>1. \A q \in Procs : pc'[q] \in {"recheck", "await"} =>
          pc'[q] = pc[q] /\ target[q] \in Procs
    BY <1>1, <1>6 DEF TypeOK
  <2>2. \A q \in Procs : pc'[q] \in {"recheck", "await"} => Dead(target[q])'
    BY <1>1, <1>2, <1>7, <2>1 DEF ScanInv, Dead
  <2>3. QED
    BY <1>1, <1>2, <1>3, <2>1, <2>2 DEF ScanInv, At
<1>14. LiveIsNeverAbandoned'
  BY <1>1, <1>3, <1>7 DEF LiveIsNeverAbandoned, Dead
<1>15. QED
  BY <1>3, <1>11, <1>12, <1>13, <1>14 DEF LeaseInv

\* The session is open under the lease: its row goes to the queue.
LEMMA NextRecheck ==
  ASSUME LeaseInv, TypeOK', NEW p \in Procs, Recheck(p)
  PROVE  LeaseInv'
<1>1. TypeOK /\ QueueInv /\ StartInv /\ ScanInv /\ LiveIsNeverAbandoned /\ AbandonedOnce
  BY DEF LeaseInv
<1>2. UNCHANGED <<rows, seen>> /\ pc[p] = "recheck"
  BY DEF Recheck, At
<1>3. CASE NextCandidate(p) /\ UNCHANGED <<queue, reply>>
  BY <1>2, <1>3, NextCandidateOk
<1>4. CASE /\ OpenUnderLease(target[p])
           /\ queue' = [queue EXCEPT ![p] = Append(@, AbandonedRow(target[p]))]
           /\ reply' = [reply EXCEPT ![p] = "waiting"]
           /\ pc' = [pc EXCEPT ![p] = "await"]
           /\ UNCHANGED <<holder, target>>
  <2>1. (\A kind, s : Recorded(kind, s)' = Recorded(kind, s)) /\ AbandonedOnce'
    BY <1>1, <1>2, Quiet
  <2>2. \A q \in Procs : Started(q)' = Started(q) /\ Dead(q)' = Dead(q)
    BY <1>1, <1>2, <1>4 DEF TypeOK, Started, Dead
  <2>3. \A q \in Procs : q # p => /\ pc'[q] = pc[q] /\ reply'[q] = reply[q]
                                  /\ queue'[q] = queue[q] /\ Waits(q)' = Waits(q)
    <3>1. \A q \in Procs : q # p => pc'[q] = pc[q] /\ reply'[q] = reply[q]
                                    /\ queue'[q] = queue[q]
      BY <1>1, <1>4 DEF TypeOK
    <3>2. QED
      BY <3>1, Quiet
  <2>4. pc'[p] = "await" /\ reply'[p] = "waiting" /\ queue'[p] = <<AbandonedRow(target[p])>>
    <3>1. queue[p] = <<>>
      BY <1>1, <1>2 DEF QueueInv
    <3>2. pc'[p] = "await" /\ reply'[p] = "waiting"
          /\ queue'[p] = Append(queue[p], AbandonedRow(target[p]))
      BY <1>1, <1>4 DEF TypeOK
    <3>3. Append(<<>>, AbandonedRow(target[p])) = <<AbandonedRow(target[p])>>
      OBVIOUS
    <3>4. QED
      BY <3>1, <3>2, <3>3
  <2>5. ~Started(p) /\ Waits(p)' = {AbandonedRow(target[p])}
    <3>1. {<<AbandonedRow(target[p])>>[i] : i \in DOMAIN <<AbandonedRow(target[p])>>}
             = {AbandonedRow(target[p])}
      OBVIOUS
    <3>2. QED
      BY <1>2, <2>4, <3>1 DEF Started, Waits
  <2>6. QueueInv'
    <3>1. SUFFICES ASSUME NEW q \in Procs
          PROVE /\ pc'[q] \in {"off", "scan", "next", "recheck", "start", "gone"}
                     => queue'[q] = <<>>
                /\ pc'[q] = "await" => queue'[q] = IF reply'[q] = "waiting"
                                        THEN <<AbandonedRow(target[q])>> ELSE <<>>
                /\ reply'[q] = "waiting" => pc'[q] \in {"await", "gone"}
                /\ Started(q) => \A r \in Waits(q)' : r.session = q /\ r.kind # "abandoned"
      BY <1>4, <2>2 DEF QueueInv, AbandonedRow, At
    <3>2. CASE q = p
      BY <2>4, <2>5, <3>2
    <3>3. CASE q # p
      BY <1>1, <2>3, <3>3 DEF QueueInv, At
    <3>4. QED
      BY <3>2, <3>3
  <2>7. StartInv'
    <3>1. [kind |-> "start", session |-> p] \notin Waits(p)'
      BY <2>5 DEF AbandonedRow
    <3>2. SUFFICES ASSUME NEW q \in Procs,
                          \/ Recorded("start", q)
                          \/ [kind |-> "start", session |-> q] \in Waits(q)'
                   PROVE  Started(q) /\ (~Dead(q) => holder[q] = q)
      BY <1>4, <2>1, <2>2 DEF StartInv
    <3>3. Recorded("start", q) \/ [kind |-> "start", session |-> q] \in Waits(q)
      BY <2>3, <3>1, <3>2
    <3>4. QED
      BY <1>1, <3>3 DEF StartInv
  <2>8. ScanInv'
    <3>1. \A q \in Procs : pc'[q] \in {"recheck", "await"} =>
            pc[q] \in {"recheck", "await"} /\ target[q] \in Procs
      BY <1>1, <1>2, <2>3, <2>4 DEF TypeOK
    <3>2. \A q \in Procs : pc'[q] \in {"recheck", "await"} => Dead(target[q])'
      BY <1>1, <1>4, <2>2, <3>1 DEF ScanInv, Dead
    <3>3. ~Recorded("abandoned", target[p])
      BY <1>4 DEF OpenUnderLease, Closed
    <3>4. SUFFICES ASSUME NEW q \in Procs, reply'[q] = "waiting", pc'[q] = "await"
                   PROVE  ~Recorded("abandoned", target[q])
      BY <1>1, <1>2, <1>4, <2>1, <3>2 DEF ScanInv, At
    <3>5. QED
      BY <1>1, <2>3, <3>3, <3>4 DEF ScanInv, At
  <2>9. LiveIsNeverAbandoned'
    BY <1>1, <2>1, <2>2 DEF LiveIsNeverAbandoned, Dead
  <2>10. QED
    BY <2>1, <2>6, <2>7, <2>8, <2>9 DEF LeaseInv
<1>5. QED
  BY <1>3, <1>4 DEF Recheck, Goto, AbandonedRow

\* The leases of a process that leaves are free; its session is dead then.
LEMMA NextLeaves ==
  ASSUME LeaseInv, TypeOK', NEW p \in Procs,
         Drained(p) \/ ReturnsError(p) \/ Exit(p) \/ Kill(p)
  PROVE  LeaseInv'
<1>1. TypeOK /\ QueueInv /\ StartInv /\ ScanInv /\ LiveIsNeverAbandoned /\ AbandonedOnce
  BY DEF LeaseInv
<1>2. /\ holder' = Released(p) /\ UNCHANGED <<rows, seen, target, reply>>
      /\ \/ /\ pc' = [pc EXCEPT ![p] = "leaving"] /\ UNCHANGED queue
            /\ pc[p] \in {"running", "draining"}
         \/ /\ pc' = [pc EXCEPT ![p] = "gone"]
            /\ queue' = [queue EXCEPT ![p] = <<>>] \/ (UNCHANGED queue /\ queue[p] = <<>>)
  BY DEF Drained, ReturnsError, Exit, Kill, Dies, At, Goto
<1>3. (\A kind, s : Recorded(kind, s)' = Recorded(kind, s)) /\ AbandonedOnce'
  BY <1>1, <1>2, Quiet
<1>4. \A q \in Procs : q # p => pc'[q] = pc[q] /\ queue'[q] = queue[q]
  BY <1>1, <1>2 DEF TypeOK
<1>5. /\ pc'[p] \in {"leaving", "gone"}
      /\ pc'[p] = "gone" => queue'[p] = <<>>
      /\ pc'[p] = "leaving" => UNCHANGED queue /\ pc[p] \in {"running", "draining"}
  BY <1>1, <1>2 DEF TypeOK
<1>6. \A q \in Procs : Waits(q)' \subseteq Waits(q)
  <2>1. \A q \in Procs : queue'[q] = queue[q] \/ queue'[q] = <<>>
    BY <1>4, <1>5
  <2>2. \A q : queue'[q] = <<>> => Waits(q)' = {}
    BY NothingWaits, EmptyDomain DEF Waits
  <2>3. QED
    BY <2>1, <2>2, Quiet
<1>7. /\ Started(p)' /\ Dead(p)'
      /\ \A q \in Procs : q # p => Started(q)' = Started(q) /\ Dead(q)' = Dead(q)
  BY <1>4, <1>5 DEF Started, Dead
<1>8. QueueInv'
  <2>1. SUFFICES ASSUME NEW q \in Procs
        PROVE /\ pc'[q] \in {"off", "scan", "next", "recheck", "start", "gone"}
                   => queue'[q] = <<>>
              /\ pc'[q] = "await" => queue'[q] = IF reply[q] = "waiting"
                                      THEN <<AbandonedRow(target[q])>> ELSE <<>>
              /\ reply[q] = "waiting" => pc'[q] \in {"await", "gone"}
              /\ Started(q)' => \A r \in Waits(q)' : r.session = q /\ r.kind # "abandoned"
    BY <1>2 DEF QueueInv, AbandonedRow, At
  <2>2. CASE q # p
    BY <1>1, <1>4, <1>6, <1>7, <2>2 DEF QueueInv, At
  <2>3. CASE q = p /\ pc'[p] = "gone"
    <3>1. Waits(p)' = {}
      BY <1>5, <2>3, EmptyDomain DEF Waits
    <3>2. QED
      BY <1>5, <2>3, <3>1
  <2>4. CASE q = p /\ pc'[p] = "leaving"
    <3>1. Started(p)
      BY <1>5, <2>4 DEF Started
    <3>2. QED
      BY <1>1, <1>5, <1>6, <2>4, <3>1 DEF QueueInv
  <2>5. QED
    BY <1>5, <2>2, <2>3, <2>4
<1>9. StartInv'
  <2>1. SUFFICES ASSUME NEW q \in Procs, q # p,
                        \/ Recorded("start", q)
                        \/ [kind |-> "start", session |-> q] \in Waits(q)
                 PROVE  Started(q) /\ (~Dead(q) => holder'[q] = q)
    BY <1>3, <1>6, <1>7 DEF StartInv
  <2>2. QED
    BY <1>1, <1>2, <2>1 DEF StartInv, Released
<1>10. ScanInv'
  <2>1. \A q \in Procs : pc'[q] \in {"recheck", "await"} =>
          pc'[q] = pc[q] /\ target[q] \in Procs
    BY <1>1, <1>4, <1>5 DEF TypeOK
  <2>2. \A q \in Procs : pc'[q] \in {"recheck", "await"} => Dead(target[q])'
    BY <1>1, <1>2, <1>7, <2>1 DEF ScanInv, Dead
  <2>3. QED
    BY <1>1, <1>2, <1>3, <2>1, <2>2 DEF ScanInv, At
<1>11. LiveIsNeverAbandoned'
  BY <1>1, <1>3, <1>7 DEF LiveIsNeverAbandoned, Dead
<1>12. QED
  BY <1>3, <1>8, <1>9, <1>10, <1>11 DEF LeaseInv

-----------------------------------------------------------------------------
(* The writer. *)

\* A row that waits is written, or is not.
LEMMA Writes ==
  ASSUME LeaseInv, NEW p \in Procs, WriterStep(p)
  PROVE  \E e \in Row :
    /\ e \in Waits(p) /\ Waits(p)' \subseteq Waits(p) /\ queue'[p] = Tail(queue[p])
    /\ reply'[p] # "waiting"
    /\ \A q \in Procs : q # p => /\ reply'[q] = reply[q] /\ queue'[q] = queue[q]
                                /\ Waits(q)' = Waits(q)
    /\ Alive(p) /\ UNCHANGED <<holder, pc, seen, target>>
    /\ rows' = rows \/ rows' = Append(rows, e)
    /\ \A kind, s : Recorded(kind, s)' =>
          Recorded(kind, s) \/ e = [kind |-> kind, session |-> s]
    /\ \/ /\ Started(p) /\ pc[p] # "gone" /\ e.session = p /\ e.kind # "abandoned"
       \/ /\ pc[p] = "await" /\ e = AbandonedRow(target[p]) /\ queue'[p] = <<>>
          /\ Dead(target[p]) /\ ~Recorded("abandoned", target[p])
<1>1. TypeOK /\ QueueInv /\ StartInv /\ ScanInv /\ LiveIsNeverAbandoned /\ AbandonedOnce
  BY DEF LeaseInv
<1>2. /\ Alive(p) /\ queue[p] # <<>> /\ UNCHANGED <<holder, pc, seen, target>>
      /\ rows' = rows \/ rows' = Append(rows, Head(queue[p]))
      /\ queue' = [queue EXCEPT ![p] = Tail(@)]
      /\ \E r \in {"ok", "err"} : Reply(p, r)
  BY DEF WriterStep, Commit, CommitFails
<1>3. /\ reply'[p] # "waiting"
      /\ \A q \in Procs : q # p => reply'[q] = reply[q]
  BY <1>1, <1>2 DEF Reply, TypeOK
<1>4. PICK e : e = Head(queue[p])
  OBVIOUS
<1>5. /\ e \in Row /\ e \in Waits(p)
      /\ queue'[p] = Tail(queue[p]) /\ Waits(p)' \subseteq Waits(p)
  <2>1. queue[p] \in Seq(Row) /\ queue'[p] = Tail(queue[p])
    BY <1>1, <1>2 DEF TypeOK
  <2>2. QED
    BY <1>2, <1>4, <2>1, Shortened DEF Waits
<1>6. \A q \in Procs : q # p => queue'[q] = queue[q] /\ Waits(q)' = Waits(q)
  <2>1. \A q \in Procs : q # p => queue'[q] = queue[q]
    BY <1>1, <1>2 DEF TypeOK
  <2>2. QED
    BY <2>1, Quiet
<1>7. \/ /\ Started(p) /\ pc[p] # "gone" /\ e.session = p /\ e.kind # "abandoned"
      \/ /\ pc[p] = "await" /\ e = AbandonedRow(target[p]) /\ queue'[p] = <<>>
         /\ Dead(target[p]) /\ ~Recorded("abandoned", target[p])
  <2>1. CASE pc[p] = "await"
    <3>1. reply[p] = "waiting" /\ queue[p] = <<AbandonedRow(target[p])>>
      BY <1>1, <1>2, <2>1 DEF QueueInv, At
    <3>2. e = AbandonedRow(target[p]) /\ queue'[p] = <<>>
      BY <1>4, <1>5, <3>1, Single
    <3>3. QED
      BY <1>1, <2>1, <3>1, <3>2 DEF ScanInv, At
  <2>2. CASE pc[p] # "await"
    <3>1. Started(p) /\ pc[p] # "gone"
      BY <1>1, <1>2, <2>2 DEF QueueInv, Started, Alive, TypeOK
    <3>2. QED
      BY <1>1, <1>5, <3>1 DEF QueueInv
  <2>3. QED
    BY <2>1, <2>2
<1>8. \A kind, s : Recorded(kind, s)' =>
        Recorded(kind, s) \/ e = [kind |-> kind, session |-> s]
  <2>1. rows \in Seq(Row)
    BY <1>1 DEF TypeOK
  <2>2. CASE rows' = Append(rows, e)
    BY <1>5, <2>1, <2>2, Appended DEF Recorded
  <2>3. QED
    BY <1>2, <1>4, <2>2, Quiet
<1>9. QED
  BY <1>2, <1>3, <1>4, <1>5, <1>6, <1>7, <1>8

LEMMA NextWriter ==
  ASSUME LeaseInv, TypeOK', NEW p \in Procs, WriterStep(p)
  PROVE  LeaseInv'
<1>1. TypeOK /\ QueueInv /\ StartInv /\ ScanInv /\ LiveIsNeverAbandoned /\ AbandonedOnce
  BY DEF LeaseInv
<1>2. PICK e \in Row :
    /\ e \in Waits(p) /\ Waits(p)' \subseteq Waits(p) /\ queue'[p] = Tail(queue[p])
    /\ reply'[p] # "waiting"
    /\ \A q \in Procs : q # p => /\ reply'[q] = reply[q] /\ queue'[q] = queue[q]
                                /\ Waits(q)' = Waits(q)
    /\ Alive(p) /\ UNCHANGED <<holder, pc, seen, target>>
    /\ rows' = rows \/ rows' = Append(rows, e)
    /\ \A kind, s : Recorded(kind, s)' =>
          Recorded(kind, s) \/ e = [kind |-> kind, session |-> s]
    /\ \/ /\ Started(p) /\ pc[p] # "gone" /\ e.session = p /\ e.kind # "abandoned"
       \/ /\ pc[p] = "await" /\ e = AbandonedRow(target[p]) /\ queue'[p] = <<>>
          /\ Dead(target[p]) /\ ~Recorded("abandoned", target[p])
  BY Writes
<1>3. \A q \in Procs : Started(q)' = Started(q) /\ Dead(q)' = Dead(q)
  BY <1>2 DEF Started, Dead
<1>4. \A kind, s : Recorded(kind, s) => Recorded(kind, s)'
  <2>1. rows \in Seq(Row)
    BY <1>1 DEF TypeOK
  <2>2. CASE rows' = Append(rows, e)
    BY <2>1, <2>2, Appended DEF Recorded
  <2>3. QED
    BY <1>2, <2>2, Quiet
<1>5. \A s \in Procs : e = AbandonedRow(s) =>
         pc[p] = "await" /\ target[p] = s /\ Dead(s) /\ ~Recorded("abandoned", s)
  BY <1>2 DEF AbandonedRow
<1>6. QueueInv'
  <2>1. SUFFICES ASSUME NEW q \in Procs
        PROVE /\ pc[q] \in {"off", "scan", "next", "recheck", "start", "gone"}
                   => queue'[q] = <<>>
              /\ pc[q] = "await" => queue'[q] = IF reply'[q] = "waiting"
                                      THEN <<AbandonedRow(target[q])>> ELSE <<>>
              /\ reply'[q] = "waiting" => pc[q] \in {"await", "gone"}
              /\ Started(q) => \A r \in Waits(q)' : r.session = q /\ r.kind # "abandoned"
    BY <1>2, <1>3 DEF QueueInv, AbandonedRow, At
  <2>2. CASE q # p
    BY <1>1, <1>2, <2>2 DEF QueueInv, At
  <2>3. CASE q = p /\ Started(p) /\ pc[p] # "gone"
    BY <1>1, <1>2, <2>3 DEF QueueInv, Started
  <2>4. CASE q = p /\ pc[p] = "await" /\ queue'[p] = <<>>
    BY <1>2, <2>4 DEF Started
  <2>5. QED
    BY <1>2, <2>2, <2>3, <2>4
<1>7. StartInv'
  <2>1. SUFFICES ASSUME NEW q \in Procs,
                        \/ Recorded("start", q)'
                        \/ [kind |-> "start", session |-> q] \in Waits(q)'
                 PROVE  Started(q) /\ (~Dead(q) => holder[q] = q)
    BY <1>2, <1>3 DEF StartInv
  <2>2. CASE Recorded("start", q) \/ [kind |-> "start", session |-> q] \in Waits(q)
    BY <1>1, <2>2 DEF StartInv
  <2>3. CASE e = [kind |-> "start", session |-> q]
    <3>1. e.session = q /\ e.kind = "start"
      BY <2>3
    <3>2. p = q
      BY <1>2, <3>1 DEF AbandonedRow
    <3>3. QED
      BY <1>1, <1>2, <2>3, <3>2 DEF StartInv
  <2>4. QED
    BY <1>2, <2>1, <2>2, <2>3
<1>8. ScanInv'
  <2>1. \A q \in Procs : \A s \in seen[q] : Recorded("start", s)'
    BY <1>1, <1>4 DEF ScanInv
  <2>2. \A q \in Procs : pc[q] \in {"recheck", "await"} => Dead(target[q])'
    BY <1>1, <1>2 DEF ScanInv, Dead
  <2>3. SUFFICES ASSUME NEW q \in Procs, reply'[q] = "waiting", pc[q] = "await",
                        Recorded("abandoned", target[q])'
                 PROVE  FALSE
    BY <1>2, <2>1, <2>2 DEF ScanInv, At
  <2>4. q # p /\ reply[q] = "waiting"
    BY <1>2, <2>3
  <2>5. ~Recorded("abandoned", target[q])
    BY <1>1, <2>3, <2>4 DEF ScanInv, At
  <2>6. target[q] \in Procs /\ holder[target[q]] = q
    BY <1>1, <2>3 DEF TypeOK
  <2>7. pc[p] = "await" /\ target[p] = target[q]
    BY <1>2, <1>5, <2>3, <2>5, <2>6 DEF AbandonedRow
  <2>8. QED
    BY <1>1, <2>4, <2>6, <2>7 DEF TypeOK
<1>9. LiveIsNeverAbandoned'
  <2>1. SUFFICES ASSUME NEW s \in Procs, Recorded("abandoned", s)' PROVE Dead(s)
    BY <1>2 DEF LiveIsNeverAbandoned, Dead
  <2>2. QED
    BY <1>1, <1>2, <1>5, <2>1 DEF LiveIsNeverAbandoned, Dead, AbandonedRow
<1>10. AbandonedOnce'
  <2>1. CASE rows' = rows
    BY <1>1, <2>1, Quiet
  <2>2. CASE rows' = Append(rows, e)
    <3>1. /\ rows \in Seq(Row) /\ Len(rows) \in Nat /\ DOMAIN rows = 1..Len(rows)
          /\ DOMAIN rows' = 1..(Len(rows) + 1) /\ rows'[Len(rows) + 1] = e
          /\ \A i \in 1..Len(rows) : rows'[i] = rows[i]
      BY <1>1, <1>2, <2>2, AppendProperties DEF TypeOK
    <3>2. e.kind = "abandoned" => \A i \in DOMAIN rows : rows[i] # e
      <4>1. SUFFICES ASSUME e.kind = "abandoned", NEW i \in DOMAIN rows, rows[i] = e
                     PROVE  FALSE
        OBVIOUS
      <4>2. e = AbandonedRow(target[p]) /\ ~Recorded("abandoned", target[p])
        BY <1>2, <4>1
      <4>3. QED
        BY <4>1, <4>2 DEF Recorded, AbandonedRow
    <3>3. SUFFICES ASSUME NEW i \in DOMAIN rows', NEW j \in DOMAIN rows',
                          rows'[i] = rows'[j], rows'[i].kind = "abandoned"
                   PROVE  i = j
      BY  DEF AbandonedOnce
    <3>4. (i \in DOMAIN rows \/ i = Len(rows) + 1) /\ (j \in DOMAIN rows \/ j = Len(rows) + 1)
      BY <3>1
    <3>5. CASE i \in DOMAIN rows /\ j \in DOMAIN rows
      BY <1>1, <3>1, <3>3, <3>5 DEF AbandonedOnce
    <3>6. QED
      BY <3>1, <3>2, <3>3, <3>4, <3>5
  <2>3. QED
    BY <1>2, <2>1, <2>2
<1>11. QED
  BY <1>6, <1>7, <1>8, <1>9, <1>10 DEF LeaseInv

-----------------------------------------------------------------------------
(* The clean end, if every writer drains in time. *)

\* An end row is its process's last; a session about to be recorded as
\* abandoned has none.
EndInv ==
  /\ \A p \in Procs :
       Recorded("end", p) \/ [kind |-> "end", session |-> p] \in Waits(p)
         => pc[p] \in {"draining", "gone"}
  /\ \A p \in Procs :
       At(p, "await") /\ reply[p] = "waiting" => ~Recorded("end", target[p])
  /\ EndedIsNotAbandoned

LEMMA NextEnd ==
  ASSUME ~SlowDrain, LeaseInv, LeaseInv', EndInv, [Next]_vars
  PROVE  EndInv'
<1>0. TypeOK /\ QueueInv /\ ScanInv /\ LiveIsNeverAbandoned
  BY DEF LeaseInv
<1>1. ASSUME NEW p \in Procs, WriterStep(p) PROVE EndInv'
  <2>1. PICK e \in Row :
    /\ e \in Waits(p) /\ Waits(p)' \subseteq Waits(p)
    /\ reply'[p] # "waiting"
    /\ \A q \in Procs : q # p => reply'[q] = reply[q] /\ Waits(q)' = Waits(q)
    /\ Alive(p) /\ UNCHANGED <<pc, target>>
    /\ \A kind, s : Recorded(kind, s)' =>
          Recorded(kind, s) \/ e = [kind |-> kind, session |-> s]
    /\ \/ Started(p) /\ e.session = p /\ e.kind # "abandoned"
       \/ e = AbandonedRow(target[p]) /\ pc[p] = "await"
    BY <1>1, Writes
  <2>2. \A s \in Procs : e = [kind |-> "end", session |-> s] =>
          s = p /\ pc[p] = "draining"
    <3>1. SUFFICES ASSUME NEW s \in Procs, e = [kind |-> "end", session |-> s]
                   PROVE  s = p /\ pc[p] = "draining"
      OBVIOUS
    <3>2. e.session = s /\ e.kind = "end"
      BY <3>1
    <3>3. s = p
      BY <2>1, <3>2 DEF AbandonedRow
    <3>4. QED
      BY <2>1, <3>1, <3>3 DEF EndInv, Alive
  <2>3. \A s \in Procs : e = [kind |-> "abandoned", session |-> s] =>
          ~Recorded("end", s) /\ Dead(s)
    <3>1. SUFFICES ASSUME NEW s \in Procs, e = [kind |-> "abandoned", session |-> s]
                   PROVE  ~Recorded("end", s) /\ Dead(s)
      OBVIOUS
    <3>2. e.session = s /\ e.kind = "abandoned"
      BY <3>1
    <3>3. s = target[p] /\ pc[p] = "await"
      BY <2>1, <3>2 DEF AbandonedRow
    <3>4. queue[p] # <<>>
      BY <2>1, NothingWaits
    <3>5. reply[p] = "waiting"
      BY <1>0, <3>3, <3>4 DEF QueueInv, At
    <3>6. QED
      BY <1>0, <3>3, <3>5 DEF EndInv, ScanInv, At
  <2>4. ASSUME NEW q \in Procs,
               \/ Recorded("end", q)'
               \/ [kind |-> "end", session |-> q] \in Waits(q)'
        PROVE  pc'[q] \in {"draining", "gone"}
    <3>1. Recorded("end", q)' => Recorded("end", q) \/ (q = p /\ pc[p] = "draining")
      BY <2>1, <2>2
    <3>2. QED
      BY <2>1, <2>4, <3>1 DEF EndInv
  <2>5. ASSUME NEW q \in Procs, pc'[q] = "await", reply'[q] = "waiting",
               Recorded("end", target[q])'
        PROVE  FALSE
    <3>1. q # p /\ pc[q] = "await" /\ reply[q] = "waiting" /\ target'[q] = target[q]
      BY <2>1, <2>5
    <3>2. target[q] \in Procs /\ Dead(target[q]) /\ ~Recorded("end", target[q])
      BY <1>0, <3>1 DEF ScanInv, EndInv, TypeOK, At
    <3>3. e = [kind |-> "end", session |-> target[q]]
      BY <2>1, <2>5, <3>1, <3>2
    <3>4. QED
      BY <2>2, <3>2, <3>3 DEF Dead
  <2>6. ASSUME NEW s \in Procs, Recorded("end", s)', Recorded("abandoned", s)'
        PROVE  FALSE
    <3>1. Recorded("end", s) \/ (s = p /\ pc[p] = "draining")
      BY <2>1, <2>2, <2>6
    <3>2. Recorded("abandoned", s) \/ (~Recorded("end", s) /\ Dead(s))
      BY <2>1, <2>3, <2>6
    <3>3. Recorded("abandoned", s) => pc[s] \in {"leaving", "gone"}
      BY <1>0 DEF LiveIsNeverAbandoned
    <3>4. QED
      BY <3>1, <3>2, <3>3 DEF EndInv, EndedIsNotAbandoned, Dead
  <2>7. QED
    BY <2>4, <2>5, <2>6 DEF EndInv, EndedIsNotAbandoned, At
<1>2. ASSUME UNCHANGED rows,
             \A p \in Procs : [kind |-> "end", session |-> p] \in Waits(p)' =>
               \/ [kind |-> "end", session |-> p] \in Waits(p)
               \/ pc'[p] = "draining",
             \A p \in Procs : pc[p] \in {"draining", "gone"} => pc'[p] \in {"draining", "gone"},
             \A p \in Procs : pc'[p] = "await" /\ reply'[p] = "waiting" =>
               \/ pc[p] = "await" /\ reply[p] = "waiting" /\ target'[p] = target[p]
               \/ ~Recorded("end", target'[p])
      PROVE  EndInv'
  <2>1. \A kind, s : Recorded(kind, s)' = Recorded(kind, s)
    BY <1>2, Quiet
  <2>2. QED
    BY <1>2, <2>1 DEF EndInv, EndedIsNotAbandoned, At
<1>3. ASSUME NEW p \in Procs, LogStart(p) \/ Stop(p) PROVE EndInv'
  <2>1. /\ UNCHANGED <<rows, target, reply>>
        /\ \A q \in Procs : q # p => pc'[q] = pc[q] /\ queue'[q] = queue[q]
    BY <1>0, <1>3 DEF LogStart, Stop, Log, Goto, TypeOK
  <2>2. \A q \in Procs : q # p => Waits(q)' = Waits(q)
    BY <2>1, Quiet
  <2>3. CASE Stop(p)
    <3>1. pc[p] = "running" /\ pc'[p] = "draining"
      BY <1>0, <2>3 DEF Stop, At, Goto, TypeOK
    <3>2. QED
      BY <1>2, <2>1, <2>2, <3>1
  <2>4. CASE LogStart(p)
    <3>1. pc[p] = "start" /\ pc'[p] = "running" /\ queue[p] = <<>>
      BY <1>0, <2>4 DEF LogStart, At, Goto, TypeOK, QueueInv
    <3>2. [kind |-> "end", session |-> p] \notin Waits(p)'
      <4>1. PICK kind \in {"start", "bare"} : Log(p, kind)
        BY <2>4 DEF LogStart
      <4>2. queue'[p] = <<>> \/ queue'[p] = <<[kind |-> kind, session |-> p]>>
        <5>1. Append(<<>>, [kind |-> kind, session |-> p]) = <<[kind |-> kind, session |-> p]>>
          OBVIOUS
        <5>2. \/ queue'[p] = queue[p]
              \/ queue'[p] = Append(queue[p], [kind |-> kind, session |-> p])
          BY <1>0, <4>1 DEF Log, TypeOK
        <5>3. QED
          BY <3>1, <5>1, <5>2
      <4>3. CASE queue'[p] = <<>>
        BY <4>3, EmptyDomain DEF Waits
      <4>4. CASE queue'[p] = <<[kind |-> kind, session |-> p]>>
        <5>1. Waits(p)' = {[kind |-> kind, session |-> p]}
          BY <4>4 DEF Waits
        <5>2. QED
          BY <5>1
      <4>5. QED
        BY <4>2, <4>3, <4>4
    <3>3. QED
      BY <1>2, <2>1, <2>2, <3>1, <3>2
  <2>5. QED
    BY <1>3, <2>3, <2>4
<1>4. ASSUME NEW p \in Procs, Recheck(p) PROVE EndInv'
  <2>1. /\ UNCHANGED rows /\ pc[p] = "recheck" /\ pc'[p] \in {"await", "next"}
        /\ \A q \in Procs : q # p =>
             /\ pc'[q] = pc[q] /\ queue'[q] = queue[q]
             /\ target'[q] = target[q] /\ reply'[q] = reply[q]
    BY <1>0, <1>4 DEF Recheck, NextCandidate, Goto, At, TypeOK
  <2>2. \A q \in Procs : q # p => Waits(q)' = Waits(q)
    BY <2>1, Quiet
  <2>3. pc'[p] = "await" => target'[p] = target[p] /\ ~Recorded("end", target[p])
    BY <1>0, <1>4 DEF Recheck, NextCandidate, OpenUnderLease, Closed, Goto, TypeOK
  <2>4. [kind |-> "end", session |-> p] \notin Waits(p)'
    <3>1. QueueInv'
      BY DEF LeaseInv
    <3>2. queue'[p] = <<>> \/ queue'[p] = <<AbandonedRow(target[p])>>'
      BY <2>1, <3>1 DEF QueueInv, At
    <3>3. CASE queue'[p] = <<>>
      BY <3>3, EmptyDomain DEF Waits
    <3>4. CASE queue'[p] = <<AbandonedRow(target[p])>>'
      <4>1. PICK e : e = AbandonedRow(target[p])' /\ queue'[p] = <<e>>
        BY <3>4
      <4>2. Waits(p)' = {e}
        BY <4>1 DEF Waits
      <4>3. QED
        BY <4>1, <4>2 DEF AbandonedRow
    <3>5. QED
      BY <3>2, <3>3, <3>4
  <2>5. QED
    BY <1>2, <2>1, <2>2, <2>3, <2>4
<1>5. ASSUME NEW p \in Procs,
             \/ CreateLease(p) \/ Scan(p) \/ ScanDone(p) \/ TryRecover(p) \/ Answered(p)
             \/ Drained(p) \/ ReturnsError(p) \/ Exit(p) \/ Kill(p)
      PROVE  EndInv'
  <2>1. UNCHANGED rows
    BY <1>5 DEF CreateLease, Scan, ScanDone, TryRecover, Answered, Drained,
                ReturnsError, Exit, Kill, Dies
  <2>2. \A q \in Procs : Waits(q)' \subseteq Waits(q)
    <3>1. \A q \in Procs : queue'[q] = queue[q] \/ queue'[q] = <<>>
      BY <1>0, <1>5 DEF CreateLease, Scan, ScanDone, TryRecover, Answered, Drained,
                        ReturnsError, Exit, Kill, Dies, TypeOK
    <3>2. \A q : queue'[q] = <<>> => Waits(q)' = {}
      BY EmptyDomain DEF Waits
    <3>3. QED
      BY <3>1, <3>2, Quiet
  <2>3. \A q \in Procs : pc[q] \in {"draining", "gone"} => pc'[q] \in {"draining", "gone"}
    <3>1. pc[p] = "gone" => FALSE
      BY <1>5 DEF CreateLease, Scan, ScanDone, TryRecover, Answered, Drained,
                  ReturnsError, Exit, Kill, At, Alive
    <3>2. \A q \in Procs : q # p => pc'[q] = pc[q]
      BY <1>0, <1>5 DEF CreateLease, Scan, ScanDone, TryRecover, Answered, NextCandidate,
                        Drained, ReturnsError, Exit, Kill, Dies, Goto, TypeOK
    <3>3. pc[p] = "draining" => pc'[p] \in {"draining", "gone"}
      BY <1>0, <1>5 DEF CreateLease, Scan, ScanDone, TryRecover, Answered, Drained,
                        ReturnsError, Exit, Kill, Dies, Goto, At, TypeOK
    <3>4. QED
      BY <3>1, <3>2, <3>3
  <2>4. \A q \in Procs : pc'[q] = "await" => pc[q] = "await" /\ q # p
    BY <1>0, <1>5 DEF CreateLease, Scan, ScanDone, TryRecover, Answered, NextCandidate,
                      Drained, ReturnsError, Exit, Kill, Dies, Goto, At, TypeOK
  <2>5. \A q \in Procs : q # p => target'[q] = target[q] /\ reply'[q] = reply[q]
    BY <1>0, <1>5 DEF CreateLease, Scan, ScanDone, TryRecover, Answered, NextCandidate,
                      Drained, ReturnsError, Exit, Kill, Dies, Goto, TypeOK
  <2>6. QED
    BY <1>2, <2>1, <2>2, <2>3, <2>4, <2>5
<1>6. CASE UNCHANGED vars
  BY <1>2, <1>6, Quiet DEF vars
<1>7. QED
  BY <1>1, <1>3, <1>4, <1>5, <1>6 DEF Next, StartStep, AllGone

-----------------------------------------------------------------------------
(* The theorems. *)

LEMMA NextLease == ASSUME LeaseInv, [Next]_vars PROVE LeaseInv'
<1>1. TypeOK'
  BY NextTypes
<1>2. ASSUME NEW p \in Procs, CreateLease(p) \/ Scan(p) \/ ScanDone(p) PROVE LeaseInv'
  BY <1>1, <1>2, NextQuiet DEF CreateLease, Scan, ScanDone
<1>3. ASSUME NEW p \in Procs, TryRecover(p) PROVE LeaseInv'
  BY <1>1, <1>3, NextTryRecover
<1>4. ASSUME NEW p \in Procs, Answered(p) PROVE LeaseInv'
  BY <1>1, <1>4, NextCandidateOk DEF Answered, Replied, At
<1>5. ASSUME NEW p \in Procs, Recheck(p) PROVE LeaseInv'
  BY <1>1, <1>5, NextRecheck
<1>6. ASSUME NEW p \in Procs, LogStart(p) \/ Stop(p) PROVE LeaseInv'
  BY <1>1, <1>6, NextLog
<1>7. ASSUME NEW p \in Procs, Drained(p) \/ ReturnsError(p) \/ Exit(p) \/ Kill(p)
      PROVE  LeaseInv'
  BY <1>1, <1>7, NextLeaves
<1>8. ASSUME NEW p \in Procs, WriterStep(p) PROVE LeaseInv'
  BY <1>1, <1>8, NextWriter
<1>9. CASE UNCHANGED vars
  BY <1>9 DEF vars, LeaseInv, TypeOK, QueueInv, StartInv, ScanInv, LiveIsNeverAbandoned,
              AbandonedOnce, Recorded, Waits, Started, Dead, At, AbandonedRow
<1>10. QED
  BY <1>2, <1>3, <1>4, <1>5, <1>6, <1>7, <1>8, <1>9 DEF Next, StartStep, AllGone

\* Variables keep to their values, and who has taken a dead session's lease
\* over holds it until it is done with the session (recovery.rs).
THEOREM TypeCorrect == Spec => []TypeOK
<1>1. LeaseInv => TypeOK
  BY DEF LeaseInv
<1>2. QED
  BY InitLease, NextLease, <1>1, PTL DEF Spec

\* However many processes start, are killed and fail over a dead session, it
\* is recorded as abandoned at most once (recover_abandoned).
THEOREM RecordedOnce == Spec => []AbandonedOnce
<1>1. LeaseInv => AbandonedOnce
  BY DEF LeaseInv
<1>2. QED
  BY InitLease, NextLease, <1>1, PTL DEF Spec

\* A session is not recorded as abandoned while its process holds its lease
\* to proxy or to drain (SessionLease, proxy::run).
THEOREM LiveIsSafe == Spec => []LiveIsNeverAbandoned
<1>1. LeaseInv => LiveIsNeverAbandoned
  BY DEF LeaseInv
<1>2. QED
  BY InitLease, NextLease, <1>1, PTL DEF Spec

\* If no shutdown gives up on its writer, a session that recorded its end is
\* never recorded as abandoned too: the lease is kept through the drain
\* (proxy::run), and a scan reads again under the lease (recovery.rs).
THEOREM EndedStaysEnded == ASSUME ~SlowDrain PROVE Spec => []EndedIsNotAbandoned
<1>1. Init => EndInv
  <2>1. Init => (\A kind, s : ~Recorded(kind, s)) /\ (\A p \in Procs : Waits(p) = {})
    <3>1. SUFFICES ASSUME Init
                   PROVE  (\A kind, s : ~Recorded(kind, s)) /\ (\A p \in Procs : Waits(p) = {})
      OBVIOUS
    <3>2. \A p \in Procs : queue[p] = <<>>
      BY <3>1 DEF Init
    <3>3. \A p \in Procs : Waits(p) = {}
      BY <3>2, NothingWaits
    <3>4. \A kind, s : ~Recorded(kind, s)
      BY <3>1 DEF Init, Recorded
    <3>5. QED
      BY <3>3, <3>4
  <2>2. QED
    BY <2>1 DEF Init, EndInv, EndedIsNotAbandoned, At
<1>2. LeaseInv /\ LeaseInv' /\ EndInv /\ [Next]_vars => EndInv'
  BY NextEnd
<1>3. EndInv => EndedIsNotAbandoned
  BY DEF EndInv
<1>4. QED
  BY InitLease, NextLease, <1>1, <1>2, <1>3, PTL DEF Spec
=============================================================================
