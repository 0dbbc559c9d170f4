------------------------------ MODULE Witness -------------------------------
(***************************************************************************)
(* `verify` beside a live proxy, src/src/verify.rs: the rows and their     *)
(* redactions index, src/src/db/redaction_repair.rs, heartbeats and their  *)
(* gaps, src/src/heartbeat.rs, the anchor as a second witness,             *)
(* src/src/anchor.rs, and power losses, which take back whatever SQLite    *)
(* had not synchronised (synchronous=NORMAL, src/src/db/mod.rs).           *)
(*                                                                         *)
(* Each statement verify runs is a step of its own: it holds no            *)
(* transaction over its reads, so the proxy writes between them. The model *)
(* ends with verify's verdict.                                             *)
(***************************************************************************)
EXTENDS Naturals, Integers, Sequences, FiniteSets, SequencesExt, FiniteSetsExt

CONSTANTS
  FlagCounts,     \* how many secrets a call's flags may name
  Bad,            \* flags that do not parse (another build's)
  GenesisChecks,  \* the chain was made with heartbeat and anchor on
  CadenceMin,     \* heartbeat_cadence_min_secs
  CadenceMax,     \* heartbeat_cadence_max_secs
  MaxCommits,     \* bounds: rows committed,
  MaxSessions,    \* sessions started,
  MaxEntries,     \* anchor entries written,
  MaxTime         \* and seconds

ASSUME FlagCountsAssumption ==
  FlagCounts \subseteq Nat /\ Bad \notin Nat /\ GenesisChecks \in BOOLEAN
ASSUME CadenceAssumption ==
  CadenceMin \in Nat /\ CadenceMax \in Nat /\ 0 < CadenceMin /\ CadenceMin <= CadenceMax

VARIABLES
  rows,           \* tool_calls; an id is a position, a hash the number of its commit
  index,          \* redactions: how many of its secrets each id has there
  durable,        \* the rows that no power loss takes back any more
  commits,        \* rows committed so far
  running,        \* a proxy runs
  session,        \* the last session
  now,            \* seconds
  woke,           \* when the heartbeat task last woke up
  due,            \* DropTally: drops that no marker names yet
  skipped,        \* the marker before the next command has failed
  anchor,         \* the entries of the anchor file
  pc, stage,      \* verify's next statement, and which comparison it serves
  expected,       \* the flags it has read, by id
  plan,           \* the index rows to add (or, negative, to remove), by id
  seen,           \* the rows it has read
  outcome,        \* VerifyOutcome
  lost,           \* history: hashes taken back by power losses,
  mishaps         \* and sessions suspended, or with a failed marker

dbVars     == <<rows, index, durable, commits>>
proxyVars  == <<running, session, woke, due, skipped>>
verifyVars == <<pc, stage, expected, plan, seen, outcome>>
vars == <<dbVars, proxyVars, now, anchor, verifyVars, lost, mishaps>>

Init ==
  /\ rows = <<>> /\ index = <<>> /\ commits = 0
  /\ durable = 0
  /\ running = FALSE /\ session = 0
  /\ now = 0 /\ woke = 0
  /\ due = FALSE /\ skipped = FALSE
  /\ anchor = <<>>
  /\ pc = "idle" /\ stage = "check"
  /\ expected = <<>> /\ plan = <<>> /\ seen = <<>> /\ outcome = "none"
  /\ lost = {} /\ mishaps = {}

Live == outcome = "none"
-----------------------------------------------------------------------------
(* The proxy: rows, markers and heartbeats. *)

\* insert_row_with_key: the row chains from the last hash; its flags are
\* projected into the index in the same transaction, fail-open, so that n
\* index rows come of it. Of the session and the time of a row, verify reads
\* those of the heartbeats.
Commit(kind, flags, n) ==
  /\ commits < MaxCommits
  /\ rows' = Append(rows, [kind |-> kind, flags |-> flags,
                           session |-> IF kind = "beat" THEN session ELSE 0,
                           time |-> IF kind = "beat" THEN now ELSE 0,
                           prev |-> IF rows = <<>> THEN 0 ELSE Last(rows).hash,
                           hash |-> commits + 1])
  /\ index' = Append(index, n)
  /\ commits' = commits + 1
  /\ UNCHANGED durable

\* insert_redaction_rows: flags that do not parse give no row, and each insert
\* may fail on its own.
Projections(flags) == IF flags = Bad THEN {0} ELSE 0..flags

\* persist_audit_gap precedes every command; a failed marker stays due.
MarkerIsTried == due => skipped

LogCall ==
  /\ Live /\ running /\ MarkerIsTried
  /\ \E flags \in FlagCounts \cup {Bad} :
       \E n \in Projections(flags) : Commit("call", flags, n)
  /\ skipped' = FALSE
  /\ UNCHANGED <<running, session, now, woke, due, anchor, verifyVars, lost, mishaps>>

\* heartbeat::run: the task sleeps for a cadence and wakes up, late by at most
\* what verify allows for jitter unless the system was suspended.
Wakes == Live /\ running /\ now - woke >= CadenceMin

Beat ==
  /\ Wakes /\ MarkerIsTried
  /\ Commit("beat", 0, 0)
  /\ woke' = now /\ skipped' = FALSE
  /\ UNCHANGED <<running, session, now, due, anchor, verifyVars, lost, mishaps>>

\* A heartbeat finds the queue full, or its insert fails.
LoseBeat ==
  /\ Wakes /\ MarkerIsTried
  /\ woke' = now /\ due' = TRUE /\ skipped' = FALSE
  /\ UNCHANGED <<dbVars, running, session, now, anchor, verifyVars, lost, mishaps>>

Marker ==
  /\ Live /\ running /\ due
  /\ Commit("gap", 0, 0)
  /\ due' = FALSE /\ skipped' = FALSE
  /\ UNCHANGED <<running, session, now, woke, anchor, verifyVars, lost, mishaps>>

MarkerFails ==
  /\ Live /\ running /\ due /\ ~skipped
  /\ skipped' = TRUE
  /\ mishaps' = mishaps \cup {session}
  /\ UNCHANGED <<dbVars, running, session, now, woke, due, anchor, verifyVars, lost>>

Start ==
  /\ Live /\ ~running /\ session < MaxSessions
  /\ running' = TRUE /\ session' = session + 1 /\ woke' = now
  /\ UNCHANGED <<dbVars, now, due, skipped, anchor, verifyVars, lost, mishaps>>

\* A session's task and its tally go with it.
SessionGone == running' = FALSE /\ woke' = 0 /\ due' = FALSE /\ skipped' = FALSE

\* The last connection that is closed synchronises the log.
Stop ==
  /\ Live /\ running /\ MarkerIsTried
  /\ SessionGone
  /\ durable' = Len(rows)
  /\ UNCHANGED <<rows, index, commits, session, now, anchor, verifyVars, lost, mishaps>>

\* find_heartbeat_gaps: half a cadence of jitter is allowed.
MaxAllowed == (3 * CadenceMax) \div 2

\* The clock stands while verify runs, which reads no clock.
Second ==
  /\ Live /\ pc = "idle" /\ now < MaxTime
  /\ running => now - woke < MaxAllowed
  /\ now' = now + 1
  /\ UNCHANGED <<dbVars, proxyVars, anchor, verifyVars, lost, mishaps>>

\* The machine sleeps for longer than any jitter.
Suspend ==
  /\ Live /\ pc = "idle" /\ running /\ now + MaxAllowed < MaxTime
  /\ now' = now + MaxAllowed + 1
  /\ mishaps' = mishaps \cup {session}
  /\ UNCHANGED <<dbVars, proxyVars, anchor, verifyVars, lost>>

\* The power fails. Nothing says when SQLite synchronises its log while it is
\* open, except that what is found after a power loss stays: the end of the log
\* is gone, and of the anchor file too, each for itself; the ids come again.
PowerLoss ==
  /\ Live /\ pc = "idle" /\ running
  /\ \E n \in durable..Len(rows), k \in 0..Len(anchor) :
       /\ rows' = SubSeq(rows, 1, n) /\ index' = SubSeq(index, 1, n)
       /\ durable' = n
       /\ anchor' = SubSeq(anchor, 1, k)
       /\ lost' = lost \cup {rows[i].hash : i \in (n + 1)..Len(rows)}
  /\ SessionGone
  /\ UNCHANGED <<commits, session, now, verifyVars, mishaps>>
-----------------------------------------------------------------------------
(* The anchor's tick. *)

\* heartbeat and anchor run side by side: by the time the entry is appended the
\* row that the tick has read may no longer be the tail.
Tick ==
  /\ Live /\ running /\ Len(anchor) < MaxEntries
  /\ \E i \in DOMAIN rows : anchor' = Append(anchor, [id |-> i, hash |-> rows[i].hash])
  /\ UNCHANGED <<dbVars, proxyVars, now, verifyVars, lost, mishaps>>
-----------------------------------------------------------------------------
(* verify: what it finds before it reads a row. *)

Unread == <<dbVars, proxyVars, now, anchor, lost, mishaps>>

Conclude(o) == outcome' = o /\ pc' = "done"

\* run: the metadata says how to check, the key file with what; either may
\* have been edited or be gone.
MetadataVerdict(meta, key) ==
  CASE meta = "missing" -> "Tampered"
    [] meta = "unknown" -> "Drift"
    [] ~key             -> "Drift"
    [] meta = "edited"  -> "Tampered"
    [] OTHER            -> "none"

\* verify_chain_with_key: every row chains from the row before it.
ChainIsIntact ==
  \A i \in DOMAIN rows : rows[i].prev = IF i = 1 THEN 0 ELSE rows[i - 1].hash

\* Up to the walk along the chain, the first statement that reads rows.
Verify ==
  /\ pc = "idle"
  /\ \E meta \in {"good", "missing", "unknown", "edited"}, key \in BOOLEAN :
       LET o == MetadataVerdict(meta, key)
       IN  IF o # "none" THEN Conclude(o)
           ELSE IF ~ChainIsIntact THEN Conclude("Tampered")
           ELSE pc' = "expected" /\ UNCHANGED outcome
  /\ UNCHANGED <<Unread, stage, expected, plan, seen>>
-----------------------------------------------------------------------------
(* The redactions index: load_redaction_state is two statements. *)

ReadExpected ==
  /\ pc = "expected"
  /\ expected' = [i \in DOMAIN rows |-> rows[i].flags]
  /\ pc' = "actual"
  /\ UNCHANGED <<Unread, stage, plan, seen, outcome>>

\* What the flags that were read ask for; a row they were not read from asks
\* for nothing, as does one whose flags do not parse.
Wanted(i) == IF i \in DOMAIN expected /\ expected[i] # Bad THEN expected[i] ELSE 0

\* diff_triples: a difference of multisets, of which the sizes are enough: what
\* a row has in the index, its flags name.
Diff(i) == Wanted(i) - index[i]

\* check_redaction_consistency
HasDrift ==
  \/ \E i \in DOMAIN index : Diff(i) # 0
  \/ \E i \in DOMAIN expected : expected[i] = Bad

\* The first comparison decides whether there is anything to repair, and the
\* command line whether that is done; the second, behind the repair, finds what
\* is left.
Compare ==
  /\ pc = "actual" /\ stage # "plan"
  /\ \/ ~HasDrift /\ pc' = "rows" /\ UNCHANGED <<stage, outcome>>
     \/ HasDrift /\ Conclude("Drift") /\ UNCHANGED stage
     \/ /\ HasDrift /\ stage = "check"
        /\ stage' = "plan" /\ pc' = "expected" /\ UNCHANGED outcome
  /\ UNCHANGED <<Unread, expected, plan, seen>>

\* plan_redaction_repair
PlanRepair ==
  /\ pc = "actual" /\ stage = "plan"
  /\ plan' = [i \in DOMAIN index |-> Diff(i)]
  /\ pc' = "apply"
  /\ UNCHANGED <<Unread, stage, expected, seen, outcome>>

\* apply_redaction_repair: one transaction, one index row deleted for each
\* that the plan names, if it is still there.
Repaired(i) ==
  IF i \notin DOMAIN plan THEN index[i] ELSE Max({0, index[i] + plan[i]})

ApplyRepair ==
  /\ pc = "apply"
  /\ index' = [i \in DOMAIN index |-> Repaired(i)]
  /\ stage' = "recheck" /\ pc' = "expected"
  /\ UNCHANGED <<rows, durable, commits, proxyVars, now, anchor, lost, mishaps,
                 expected, plan, seen, outcome>>
-----------------------------------------------------------------------------
(* finish_clean: gap markers, heartbeats, the anchor. *)

\* The beats of all sessions in one row.
AllBeats(rs) == {{i \in DOMAIN rs : rs[i].kind = "beat"}}

\* find_heartbeat_gaps: the beats of each session, in the order of their ids.
BeatsBySession(rs) ==
  {{i \in DOMAIN rs : rs[i].kind = "beat" /\ rs[i].session = s} : s \in 1..session}

HeartbeatGaps(rs) ==
  UNION {{g \in B \X B : /\ g[1] < g[2] /\ ~\E k \in B : g[1] < k /\ k < g[2]
                         /\ rs[g[2]].time - rs[g[1]].time > MaxAllowed} :
         B \in BeatsBySession(rs)}

\* Heartbeats and anchor are checked if the chain's genesis says so, whatever
\* the config says by now, or if the config does.
Checked(config) == config \/ GenesisChecks

ReadRows ==
  /\ pc = "rows"
  /\ seen' = rows
  /\ \E config \in BOOLEAN :
       IF \E i \in DOMAIN rows : rows[i].kind = "gap" THEN Conclude("AuditGap")
       ELSE IF ~Checked(config) THEN Conclude("Clean")
       ELSE IF HeartbeatGaps(rows) # {} THEN Conclude("HeartbeatGap")
       ELSE pc' = "anchor" /\ UNCHANGED outcome
  /\ UNCHANGED <<Unread, stage, expected, plan>>

\* The row that an entry names is still there, whatever it says now.
MatchesById(e) == e.id \in DOMAIN seen

\* verify_anchor_against_chain
Matches(e) == e.id \in DOMAIN seen /\ seen[e.id].hash = e.hash

ReadAnchor ==
  /\ pc = "anchor"
  /\ Conclude(IF \A k \in DOMAIN anchor : Matches(anchor[k]) THEN "Clean" ELSE "AnchorMismatch")
  /\ UNCHANGED <<Unread, stage, expected, plan, seen>>
-----------------------------------------------------------------------------
Proxy == \/ Start \/ LogCall \/ Beat \/ LoseBeat \/ Marker \/ MarkerFails \/ Stop
         \/ Tick

World == Second \/ Suspend \/ PowerLoss

Run == \/ Verify \/ ReadExpected \/ Compare \/ PlanRepair \/ ApplyRepair
       \/ ReadRows \/ ReadAnchor

Next == Proxy \/ World \/ Run

Spec == Init /\ [][Next]_vars
-----------------------------------------------------------------------------
(* Properties. *)

Settled == DOMAIN expected

\* Nothing that a second witness or the log itself knows of is passed over: when
\* verify finds nothing, no power loss has taken back a row that the anchor
\* names, though its id was given again; no heartbeat of the rows it read is
\* overdue, whatever the config says by then; no marker of lost calls is among
\* them; and the index has all the flags of every row that was there when it
\* was compared (VerifyOutcome::Clean).
CleanIsEarned ==
  outcome = "Clean" /\ GenesisChecks =>
    /\ \A k \in DOMAIN anchor : anchor[k].hash \notin lost
    /\ \A i, j \in DOMAIN seen :
         (/\ i < j /\ seen[i].kind = "beat" /\ seen[j].kind = "beat"
          /\ seen[i].session = seen[j].session
          /\ \A k \in i..j : seen[k].kind = "beat" => k \in {i, j})
           => seen[j].time - seen[i].time <= MaxAllowed
    /\ \A i \in DOMAIN seen : seen[i].kind # "gap"
    /\ \A i \in Settled : index[i] = rows[i].flags

\* verify raises no alarm without a cause: the proxy's own writes, failures,
\* restarts and power losses never look like tampering; a heartbeat gap needs a
\* suspended system or a drop that no marker declares; and what does not agree
\* with the anchor is lost, or younger than verify's reading of the rows.
AlarmsHaveACause ==
  /\ outcome = "HeartbeatGap" =>
       \E g \in HeartbeatGaps(seen) : seen[g[1]].session \in mishaps
  /\ outcome = "AnchorMismatch" =>
       \E k \in DOMAIN anchor : anchor[k].hash \in lost \/ anchor[k].id > Len(seen)
  /\ outcome = "Drift" /\ expected # <<>> =>
       (\E i \in Settled : index[i] # rows[i].flags) \/ Len(rows) > Len(expected)
  /\ pc # "idle" => ChainIsIntact

\* Behind a repair the index has all the flags of the rows that were there when
\* the plan was begun, and no others of theirs (apply_redaction_repair).
PlannedRowsAgree ==
  stage = "recheck" /\ pc = "expected" =>
    \A i \in Settled : rows[i].flags # Bad => index[i] = rows[i].flags

\* What RepairAction says of a repair, of all rows: "index rows that already
\* agree are never touched".
AgreeingRowsAreUntouched ==
  [][pc = "apply" =>
       \A i \in DOMAIN rows : index[i] = rows[i].flags => index'[i] = index[i]]_vars
=============================================================================
