# auditmcp in TLA+

auditmcp is a proxy between an MCP client and an MCP server. Every tool call that
passes through it becomes a row of a hash-chained SQLite table, and a file outside the
database anchors the chain. Its promise is about evidence: a call is recorded, or its loss
is; nothing recorded changes unseen; and the evidence survives crashes and several proxies
on one database. This directory models the parts of the program that make that promise,
checks them on small instances with TLC, and proves the most important properties with TLAPS.

Paths below are relative to the repository, whose files are under `src/`; the Rust sources
are `src/src/*.rs`.

## 1. The system

### Components

| Component | Sources | State | Operations | What is hard |
|---|---|---|---|---|
| Audit writer | `db/writer.rs`, `db/chain_hash.rs` | bounded channel of 10,000 commands (`writer.rs:25`), drop tally, recorded drops, SQLite tables | `log`, `log_durable`, `writer_loop`, `persist_audit_gap`, `wait_for_drain` | bursts, failed inserts, several processes on one chain, a bounded drain, death in mid-transaction |
| Bootstrap, key, reset | `chain.rs`, `keys.rs`, `reset.rs`, `db/mod.rs` | database file, `chain_metadata`, key file | open, load or generate the key, genesis, recover or clean up, classify, reset | concurrent first starts, half-made databases, a key file that is there but empty |
| Anchor | `anchor.rs` | anchor file, lock file with an owner token | append, repair a torn tail, acquire, take over, release, read, verify | several processes, torn lines, dead lock holders |
| Leases and recovery | `lease.rs`, `recovery.rs` | one locked file per session, lifecycle rows | create a lease, scan, try to recover, re-check, durable marker | concurrent starters, a session that ends while it is scanned, drains that time out |
| Stdio proxy, sessions | `proxy.rs`, `session.rs`, `jsonrpc.rs` | pending calls by id, input and response gates | pump, register, resolve, stop, drain | pumps that race the shutdown, reused ids, late answers |
| HTTP proxy | `http/server.rs`, `http/tee.rs`, `http/session_registry.rs` | sessions by endpoint, pending calls, tees | accept, POST, SSE stream, endpoint binding, drain | POSTs that race the end of a stream, re-advertised endpoints, partial bodies |
| SSE parser | `http/sse.rs` | buffer, overflow flag | feed, take the remainder | boundaries across chunks, oversized events |
| Heartbeat | `heartbeat.rs` | last beat | beat, lifecycle rows, gap detection | order at the end of a session, rounding at the allowed gap |
| Verify, redaction repair | `verify.rs`, `db/redaction_repair.rs` | none of their own | walk the chain, cross-check anchor, heartbeats, redactions; repair | reads at different moments of a live system, precedence of outcomes |
| Shutdown signals | `shutdown.rs` | one latch | wait, close handler | the handler must not return before the drain |
| Anomaly rules | `anomaly.rs` | per session counters | evaluate a call | boundaries of windows and thresholds |
| Truncation, secrets, entries | `truncate.rs`, `secrets.rs`, `audit.rs`, `extract.rs` | none | cut, find, merge, redact | character boundaries, overlapping matches |
| Queries, export, unmask | `query.rs`, `export.rs`, `unmask.rs` | none | read-only filters, output files | output replaced half-way |
| Configuration, command line | `config.rs`, `paths.rs`, `main.rs`, `hex.rs` | none | parse, dispatch | little |

### How they interact

`proxy::run` and `http::server::serve` have one order. `chain::bootstrap` opens or founds
the chain and returns the key. `spawn_writer_with_key` opens the database *again*, by its
path, and starts the writer thread, the only one in its process that writes rows. The process
takes its lease, scans for dead sessions with `recover_abandoned` (one `log_durable` per
session, awaited) and logs its start with the lease's name in it. Heartbeat and anchor tasks
start, then the target and the pumps, which submit each finished call with `DbHandle::log`, which
never waits. A shutdown closes the input gate, lets the responses come in for two seconds,
closes the response gate, logs what is still open, stops the tasks, logs the session's end,
drops the last sender and waits for the writer. The lease goes last.

Between processes there are four kinds of shared state: the SQLite write lock, the files that
are found by their *path* (database, key, anchor, lock), the operating system's file locks
under the leases, and the rows that one process reads of another. The design is optimistic
throughout: every process samples, acts, and recovers when it has lost a race. The hazards in
`PROJECT.json` are mostly about a sample that is stale when it is used.

### What makes each component correct

* Writer: one linear chain; no call lost unseen; a process that reports success has stored
  everything; a marker declares exactly the drops nobody has declared; a drain ends.
* Bootstrap: starters that race end on one chain; a chain never outlives its key; a failed
  first start leaves nothing behind, and nothing of another process's is removed.
* Anchor: appends exclude each other; the file stays verifiable whatever tears it; a dead
  holder does not silence it.
* Leases: a dead session is recorded as abandoned, once; a live one, or one that ended, never.
* Sessions and HTTP: each request is logged once, as answered, timed out or displaced; none
  is registered behind the drain.
* Verify: it is clean only if no witness knows better, and it raises no alarm over what the
  program itself does.
* SSE parser: every byte goes on to the client, and the events found do not depend on the chunks.
* Entries: no part of a secret reaches the log, nothing else is lost from it, and a burst is
  flagged once per cool-down.

## 2. The modules

| Module | Models | Checked by | Proved in |
|---|---|---|---|
| `AuditLog` | the abstract log: record, lose, declare | refinement in `writer` | `AuditWriterProofs` |
| `AuditWriter` | queue, tally, writer thread, transactions, drain, crashes, several processes | `writer` | `AuditWriterProofs` |
| `Bootstrap` | start, key race, genesis, recovery, re-open, reset | `bootstrap`, `bootstrap_unlink` | `BootstrapProofs` |
| `Anchor` | lock file, takeover, torn lines, chaining, reading | `anchor`, `anchor_takeover` | `AnchorProofs` |
| `LeaseRecovery` | leases, scan, re-check, durable marker, shutdown | `lease` | `LeaseProofs` |
| `CallLedger` | the abstract ledger of a session: register, settle, close | refinement in `stdio`, `http` | `SessionProofs`, `HttpProofs` |
| `StdioSession` | both pumps, the session's lock and gates, heartbeats, `run`'s shutdown | `stdio` | `SessionProofs` |
| `HttpSessions` | connections, registry, tees, event streams, `serve`'s shutdown | `http`, `http_reconnect` | `HttpProofs` |
| `SseParser` | `feed` with its cap, resynchronisation, the endpoint's rewrite | `text` | `TextProofs` |
| `Witness` | `verify` and its repair beside a live proxy, with power losses | `witness`, `witness_repair` | `WitnessProofs` |
| `TextScan` | patterns, entropy gate, allowlist, merging and redaction of a text | `text` | `TextProofs` |
| `SecretScan` | the walk over a JSON value, its keys and their renaming | `text` | `TextProofs` |
| `Anomaly` | the four rules of one session, its memory and its clock | `text` | `SessionProofs` |
| `CallRecorder` | a call becomes a row: redact, decide the tier, render, flag | `text` | `TextProofs` |

An `MC...` module gives the instances their symmetry and what only a run needs. `MCText` puts two components
that share no state, `SseParser` and `CallRecorder`, into one run: a behaviour is one of the parser while the recorder
is silent, or one of the recorder while nothing is streamed.

**`AuditWriter`.** A process name is one life of a process. `LogCall`, `LogDurable` are the
submissions; `Drop` counts a call that found the queue full (and is shared by an insert that
fails). `Receive`, `ReadTally`, `Begin`, `ReadHead`, `CommitCall`, `CommitGap`, `CallFails`
and `GapFails` are the thread, one step per point where another process or another thread can
come in between: `BEGIN IMMEDIATE`, the read of the head, the commit. `CloseHandles`,
`Drained`, `DrainTimesOut`, `Leave` and `Crash` are the end: a drain that timed out leaves a
thread that works on until `Leave`. A hash is the position of its row, which is what
collision resistance gives.

**`AuditLog`.** Three actions over the chain, the lost calls and the declared losses.
`AuditWriter` implements it with `chain <- rows`, `declared <- recorded`.

**`Bootstrap`.** One action per file operation of a start: `CheckDb`, `Open`, `LoadKey`,
`CreateKey`, `WriteKey`, `ReloadKey`, `Genesis`, `Recover`, `Close`, `Remove`, `ReadMeta`, `Verify`,
`Spawn`. `Recover` is the decision of `recover_or_clean_up`; `Close` drops its connection and `Remove` unlinks
what the path names by then, in the order of `CleanUpOrder`, with room for others in between. The database is a file behind a path: `dbAt` is the file the path names, `conn` the
file a process has open, so an unlink leaves others on a file without a name. `Unix`
says whether an open file may be unlinked; elsewhere any connection prevents it, the process's own included. `KeyFails`, `OpenFails`, `GenesisFails` and the
refusals under `Faults` are the error paths; `End` is also a kill. A key is the name of the
process that made it. `Launch`, `ResetDb` and `ResetKey` are `auditmcp reset`.

**`Anchor`.** `lines` are the complete lines, `tail` what follows the last newline. A line is
written as two steps (`WriteLine`, `WriteNewline`), either of which may fail half-way or be cut by a
kill and leave a `Fragment`. `TryLock`, `Stat`, `TakeOver`, `Unlock` (reads the token) and
`Remove` (removes the path) keep the code's gaps between look and act. A lock names who made it, but the code knows its owner only by the
token within, which `TryLock` may fail to write; `Unlock` then leaves the file where it is. `LockAges` lets any lock
get older than `LOCK_STALE_AFTER`, as only its modification time counts. `Entries` is what a reader finds.
Three conditions on steps say what the code relies on or claims without seeing to it, and the properties
and theorems name those they need: `HoldersArePrompt` (no lock gets old while its owner is between lock and unlock),
`RenamesTheStale` (what is renamed is a stale lock, not one created since) and `TokensAreWritten`.

**`LeaseRecovery`.** A process, its session and its lease share a name. `Scan` reads the
candidates once; `TryRecover` tries one lease; `Recheck` reads again under the lease and
submits the marker; `Answered` releases it. `holder` is the operating system's lock, freed
by `Released` when its process lets go or dies. `Stop`, `Drained`, `ReturnsError` and
`Exit` are the end: an error return drops the lease while the writer may still run. A `"bare"`
start is that of a process that got no lease; no scan looks at it. The writer is only its
queue here; `AuditWriter` has the rest.

**`CallLedger`.** What both transports promise of a call they track: `Register` opens it, and may
displace a call that waits under its id; `Settle` gives it its one row; `Close` writes off what is
left, and nothing opens behind it. `StdioSession` implements it with `open` as the calls that
wait or that `run` has drained and not logged yet; `HttpSessions` with the union of its connections'
pending calls.

**`StdioSession`.** An action is what a task does between two awaits. `Receive`, `RegisterNext`,
`EndSection`, `Write` and `WriteFails` are the pump to the target, which holds the session's lock
(`begin_input`) for all the messages of a line, so `LockFree` keeps the others out. `ReadOutput`,
`Forward`, `BeginResponse`, `LogNext` and `EndLine` are the pump back: it forwards a line first, and
closes its calls afterwards if the response gate is still open. `Stop`, `StopAccepting`, `WaitInput`,
`WaitOutput`, `StopResponses`, `Drain`, `LogAbandoned`, `StopBeating`, `LogEnd` and
`WaitForDrain` are `run`'s shutdown in its order; each of the two waits may also end with its
time-out, which aborts the pump. `inboundDb` and `outboundDb` are the slots from which a pump that
cannot be joined loses its sender. `CloseConsole` and `HandlerReturns` are the Windows close event, whose
handler must hold the process until `NoteDrainComplete`. `ServerIds` lets the target send requests of
its own under ids the client also uses. A message is its kind, its id and the call it belongs to.

**`HttpSessions`.** A connection is a task with a session of its own. `LookUp` (`proxy_once` up to the
session), `Register` (one message of a body), `Send`, `UpstreamFails` and `ResponseHead` are a
request; the registration has no await, so nothing ends the task within it (`Registering`), but
other tasks run beside it, and a stream may end between the look-up and the registration.
`Event`, `Endpoint` and `BodyEnds` are the tee on the response. `Endpoint` gives the stream a new session
and binds it to the advertised key, replacing another stream's binding. `FinishEvents` releases a
binding only if it is still its own; `FinishWhole` closes the calls whose answers are in the
captured copy, or the last call of the request if there are none. `Disconnect` then `Close` are the client's
end, `Stop`, `Abort`, `DrainAll` and `LogEnd` the proxy's. What the upstream may put where (`MayCarry`)
is an assumption about servers: the answer to a call comes on the response to its POST, on a
stream that resumes it, or on the stream whose endpoint it was posted to. A server
advertises its endpoint once on a stream.

**`SseParser`.** `Chunk` brings any number of the stream's next symbols; `Resync`, `TakeEvent`,
`Overflow`, `Fill` are the branches of `feed`, `End` takes the remainder. `pieces` are what the
client is sent. `Rewritten` is `replace_event_data` of an event named `endpoint`. Line ends and
field names are symbols, and so is each value.

**`Witness`.** `Commit` is one transaction of the writer: a row, its index rows, a hash that no
other commit has. `LogCall`, `Beat`, `LoseBeat`, `Marker`, `MarkerFails`, `Start`, `Stop` and `Tick`
(the anchor's) are the proxy; `Second` and `Suspend` the clock; `PowerLoss` cuts the rows back to any length that
SQLite had not synchronised. `Verify` is the walk over the chain, then every
statement is a step: `ReadExpected` (the flags), `Compare` or `PlanRepair` (the index),
`ApplyRepair`, `ReadRows`, `ReadAnchor`. The clock stands while `verify` runs, which takes less than a
second. The chain walk is `verify`'s first statement over rows and the only one that reads hashes
before `ReadRows`.

**`TextScan`, `SecretScan`, `Anomaly`, `CallRecorder`.** A text is a sequence of symbols and a pattern a word of them.
`Matches`, `Hits`, `Merge`, `Preferred` and `Redacted` are `scan_str`, `merge_overlapping_hits`, `pick_preferred`
and `redact_ranges`. A JSON value is the sequence of its nodes in the order of the document, each with its parent, so that its
depth is any and `Walk` (`walk_json`) goes from node to node: `NewName` is the renaming of a key that holds a secret (`FreeName` the first
number that no other key has, written as so many `Mark`s), `Redact` what becomes of the node under that name. What is behind a node never
decides about it, except for the keys that are still to be renamed (`Taken`). A renamed member keeps its place here, where the map sorts it anew, which
no property tells apart. `Anomaly` is a session of its own: `Observe` is `attach_anomaly`, with the rules
`SizeFires`, `IsNovel`, `IsRepeat` and `IsFanout`, what each remembers in `stats` (`Baseline`, `Events` with its
two loops, `Cooling`), and `history`, all that was observed, by which the rules are judged. `Entry` is
`build_entry`, in its order: scan and redact (`Scanned`), decide the tier (`TierOf`), render (`RowOf`). `Render` is one of `Written` (the
whole), `Preview` and `Truncated`, where `Omitted` are the nodes that `truncate_array` leaves out with all that they hold. Of an
envelope or a note only that it is there is kept, not what it says of sizes. `LogCall` records a call and has the session
observe it, `TimePasses` is a second.

## 3. The runs

| Run | Instance | Shows |
|---|---|---|
| `writer` | a queue of 2; 1 process with 5 calls, or one with 3 beside another with 1; fair | `ChainIsLinear`, `EveryCallIsAccountedFor`, `SuccessMeansComplete`, `MarkersAddUp`, `RowsKeepCallOrder`, the refinement `IsAuditLog` and `ShutdownEnds`, under failures, time-outs and kills anywhere |
| `bootstrap` | 3 processes, Windows, with or without an old key, kills, I/O errors, resets | `EstablishedChainHasKey`, `OneChain`, `FailedGenesisLeavesNothing` |
| `bootstrap_unlink` | 3 processes, Unix, no faults | finding 1: `OnlyUnclaimedIsRemoved` fails |
| `anchor` | 3 processes, each of which may be killed, full disk, lost tokens, 1 old entry, prompt holders, renames of stale locks only, fair | `OneHolder`, `AnchorVerifies`, `LeftLockIsBroken` |
| `anchor_takeover` | 2 processes that live, full disk, prompt holders | finding 3: `OneHolder` fails |
| `lease` | 3 processes, one of which may be killed and may fail, fair | `AbandonedOnce`, `EndedIsNotAbandoned`, `LiveIsNeverAbandoned`, `DeadIsClosed` |
| `stdio` | 3 calls, 2 under one id, batches of two, a target with requests of its own, 1 heartbeat, fair | `ReceivedIsTracked`, `TimeoutMeansUnanswered`, `DrainIsOrderly`, `SessionEndIsLast`, the refinement `IsCallLedger`, `ShutdownEnds` |
| `http` | 2 connections, 2 stream sessions, 1 endpoint key, 3 calls of which 2 share an id, 2 streams | `OnlyOrphansAreLost`, `AnswersAreAttributed`, the refinement `IsCallLedger` |
| `http_reconnect` | the same | finding 2: `NoCallDisappears` fails |
| `witness` | 3 commits, 2 sessions, 1 anchor entry, 3 seconds, a cadence of 1 | `CleanIsEarned`, `AlarmsHaveACause` |
| `witness_repair` | 2 commits beside one repair | finding 4: `AgreeingRowsAreUntouched` fails |
| `text` | streams within and over a cap of 8, every mixture of line ends, every chunking; and one call of about 1,250, at three tiers, or 4 ordinary calls in 3 seconds | `BytesAreKept`, `EventsAreTheStreams`, `EndpointIsRewritten`; `NoSecretIsStored`, `BurstIsFlaggedOnce` |

Six of them also check the `TypeOK` of their module. Each property has a mutant in
`PROJECT.json`: a change of one definition of the kind a plausible bug would make, under which
TLC finds the property violated.

**Bounds.** `MaxCalls`, `MaxEntries`, `MaxBeats`, `MaxStreams`, `MaxCommits`, `MaxSessions` and `MaxTime` bound
counters; `Capacity` stands for 10,000, `MaxEvent` for a megabyte.

* Two processes are enough for two transactions to meet, or a winner and a loser. Three give one dead session and
  two that find it, a winner and two losers, or the one who leaves a lock and two who find it stale.
* A queue of two and five calls overflow between two markers and go on behind them. `FewBeside` bounds the same
  instance where a second process competes: it logs one call, and the first one two, or three while nothing
  of the second has failed or been killed. That is a drop that races a marker while another transaction holds the lock, and a
  shutdown beside a competitor.
* Two calls under one id are a displacement and an answer that may mean either; a third under another
  id makes a batch, of which only a part is displaced or answered.
* Two connections and two streams for one key are the least for a binding to be replaced, and for a
  POST on one to meet the end of the other. `Symmetry` permutes connections, stream sessions and the
  two calls of one id.
* The texts of the parser outgrow the cap by up to four symbols, more than the longest terminator, so a
  terminator may lie before, across and behind it.
* Three commits hold two heartbeats with something between them, or a row, its loss and its
  successor under the same id; the anchor names one of them.
* The recorder's texts of up to four symbols over five patterns hold matches that contain, overlap and chain with
  one another and with a match that was unmasked; four calls in three seconds, with a window of two,
  go through a cool-down and out of it.

The theorems below hold without these bounds.

Three instances are restricted for a reason the code gives, by conditions on steps that their modules state.

* `bootstrap`. `ResetsAlone`: a reset begins while nobody starts: nothing in the code keeps the two apart,
  and a start between the two removals founds a chain whose key the reset then takes away.
  `LooksAndRemoves`: `recover_or_clean_up` keeps what its comment says: it reads metadata that is
  there, and nobody founds a chain between that and its removal, the close of its connection included; `OneChain` fails
  without either (finding 1).
* `anchor`. `HoldersArePrompt`: an append takes milliseconds and a lock is stale after ten seconds.
  `RenamesTheStale` is the code's claim about its rename, and false: `anchor_takeover` drops it and has two live processes hold the
  lock (finding 3). So `anchor` says what holds if the claim is kept, with lost tokens, locks that are left and age, and kills.
  Who is about to rename a lock that another has taken over waits in it until that one lets go, which ends, so
  `LeftLockIsBroken` is not weakened by the condition.
* `lease`. No drain times out, for the reason in section 5.

`CHECK_DEADLOCK FALSE` stands where the program ends and the model has nothing more to do:
`stdio`, `http`, `http_reconnect`, `witness`, `witness_repair` and `text`.

**Fairness.** `AuditWriter`: the thread is scheduled and every SQLite statement returns within
its busy time-out of five seconds (`WriterStep`), and a process that was told to stop goes on
returning (`Drained`, `Leave`). Nothing makes `DrainTimesOut` or a crash happen. `Anchor`:
the cadence ticks, an append that has begun goes on, and time passes (`Tick`, `AppendStep`,
`LockAges`). `LeaseRecovery`: a process starts some day and goes on with its start, and its
writer writes (`StartStep`, `WriterStep`); nobody is made to stop. `StdioSession`: `run` goes on once it
has a reason to stop, for each of its waits has a time-out (`Main`), and a section under the session's
lock ends, for there is no await in it (`RegisterNext`, `EndSection`). The client, the target and
the writer may stall for ever. The other modules have no liveness property.

## 4. The theorems

All are checked by `tlapm`, for any number of processes or calls and any values the named
assumptions allow.

`AuditWriterProofs`
: `TypeCorrect` needs `ThreadInv` (what the thread has in hand at each place).
  `ChainNeverForks` is `ChainIsLinear`, which is not inductive: the strengthening `LockInv` says that
  who is in a transaction holds the lock, and that the head it has read is still the last row.
  `AccountsBalance`, `NoCallVanishes`, `SuccessIsComplete` and `CallOrderKept` come from one accounting
  invariant: the calls of a process are, in order, rows, the one in hand, the queue, and the lost ones
  between them; each step moves one call from one place to the next. `WriterImplementsLog` maps
  each step to a step of `AuditLog` or to a stutter, from the same invariants.
  `MarkersDeclareTheLoss` is `MarkersAddUp`. The sum of a process's markers is a recursive function over the
  rows; the invariant `MarkersInv` therefore says of *every* function that satisfies the recursion that it ends
  at `recorded`, and that there is one. A row more extends each such function by one value, and that
  is all a step does to it, so that no induction over the rows is needed.

`BootstrapProofs`
: `TypeCorrect`, and `KeyIsNeverLost`: without resets, any number of starts and failures on
  either platform keep `EstablishedChainHasKey`. The strengthening (`KeyInv`): the metadata of every
  file is missing or the key that the key file holds, who is about to write the genesis holds
  that key, a key file that is being written is still its creator's, and no reset is under way.
  `KeySurvivesResets` is the same property with resets that run on their own (`ResetsAlone`): here a
  file that was removed may have any key, so the invariant speaks of the database at the path
  (`HeldInv`), and rests on `AloneInv` (a reset in progress is the only start, and by the time the key goes no
  database is there) and `FreshInv` (a file that is yet to be created has no metadata).
  `StartersShareOneChain` (`~Unix`, `ResetsAlone`, `LooksAndRemoves`) is `OneChain` with kills and failures
  anywhere, from `ChainInv`: who is connected is so to the database at the path, because a
  file in use cannot be unlinked; who has founded or verified a chain works with its key; and who is about
  to remove the database has seen none in it. `NothingIsLeft` is `FailedGenesisLeavesNothing` of
  every start that has come to the end of its clean-up, without any restriction: the database that such a start made is not at the path
  any more, unless the platform kept it because another process had come to open it. It rests on the order of the clean-up (`ConnInv`: who
  is about to unlink has no connection of its own) and on `OnlyRemoveCleans` (a clean-up ends with the removal). Of a start that is
  killed, or whose open fails, it claims nothing: those leave the file they made, and the next start refuses it.

`AnchorProofs`
: All with kills at any point of an append, with tokens that are lost unless a condition says otherwise.
  `HolderIsAlone` is `OneHolder` for any number of processes under `HoldersArePrompt` and `RenamesTheStale`: by `LockInv`, who
  is between lock and unlock owns the lock file, and that file is not old. `AnchorStaysVerifiable` is `AnchorVerifies` under the same
  two, for a file that has a line. `ChainInv`: the lines are a chain, the tail is
  nothing, a fragment or the next entry, and who writes has an empty tail and the last entry before it;
  so a fragment that a dead holder left is cut off before the next line is chained.

  `RenamesTheStale` is a claim of the code that is false, so it matters where it follows. It does if appends are prompt and tokens are
  written (`TokensAreWritten`): then a lock gets old only behind a death (`LeftInv`), and who is about to rename is alone (`AloneInv`), either
  because of two processes one is dead, or because none ever dies. `SurvivorIsAlone` and `SurvivorKeepsTheChain` are the
  properties for two processes, `ContendersKeepTheChain` for any number of which none is killed. Without `TokensAreWritten` these three are false, which
  is what `anchor_takeover` shows. `TypeCorrect` needs no condition.

`LeaseProofs`
: `TypeCorrect`, `RecordedOnce`, `LiveIsSafe`, with kills, faults and slow drains. `LeaseInv` says: a
  session whose start names a lease holds it until it lets go, so a lease that is free is a
  dead session's; a process that waits for its marker has exactly that row in its queue, holds
  the session's lease, and the row is not there yet. `EndedStaysEnded` (`~SlowDrain`) adds
  that an end row is queued only until its process is gone.

`SessionProofs`
: Of `StdioSession`, one inductive invariant, `SessionInv` (`BooksAreKept`), has five parts. `TypeOK`. `PhaseInv`: which gates are open, and what
  may still run, at each place of `run`. `BooksInv`: a call is in one book at a time (pending,
  drained, logged) and has at most one row. `LineInv`: the calls of a line that are not
  registered yet are new, and those of a line that is being written are known. `AnswerInv`: a call whose
  answer the client has but which is still open is in the hands of the outbound pump. From it:
  `NothingPassesUntracked` (`ReceivedIsTracked`), `AnsweredIsNotWrittenOff` (`TimeoutMeansUnanswered`),
  `EndIsOrderly`, `EndIsLast`, and `SessionImplementsLedger`, which maps each step to a step of `CallLedger` or
  to a stutter. They hold for any number of calls, any reuse of ids and any shutdown.

  Of `Anomaly`, `BurstsAreFlaggedOnce` (`BurstIsFlaggedOnce`), for any tools, observations, thresholds, capacities and
  clock. The property counts over the whole history; the rules count over the events they keep. `EventsInv`
  says what these have to do with each other: the events of a tool are its last observations, at places that ascend
  without a gap, and any other of that tool is `Forgotten`, that is, older than the window or followed by as many as are kept.
  `DueIs` counts both sides by a bijection. `CoolInv` (the last time that a rule fired is that of its last flag) and `BandInv`
  (a size that was flagged has its band) make it once. `SessionSpec` is the session on its own; each step of
  `CallRecorder` is one of it (`RecorderImplementsSession` of `TextProofs`).

`HttpProofs`
: One inductive invariant, `HttpInv` (`BooksAreKept`). `ConnInv`: what a connection's
  request has registered, sent and may still be answered at each of its places. `BooksInv`: a call waits in the session it
  was registered in until it has its one row, which names an answer of its own caller; no two wait in a session
  under one id. `KeyInv`: a stream session is made for one key. `ServeInv`: what has been drained at each place of
  `serve`'s shutdown; a stream session is found under its key, or was replaced (`orphans`), or holds only calls that came
  late. From it: `TypesAreKept`, `OnlyOrphansGoWithoutRow` (`OnlyOrphansAreLost`), `AnswersCloseTheirOwn`
  (`AnswersAreAttributed`) and `ConnectionsImplementLedger`, which maps each step on the connections' own
  sessions to a step of `CallLedger` or to a stutter. It says nothing of the sessions of event streams, for which the
  ledger is not kept (finding 2); what holds of those is `OnlyOrphansGoWithoutRow`. All for any number of calls, connections, streams and
  endpoints, and any sharing of ids.

`WitnessProofs`
: One inductive invariant, `WitnessInv` (`TheLogIsAWitness`). `ChainInv`: rows are chained and their hashes
  grow; an anchor entry names a row that is still there, with its hash, or a hash that a power loss took back and that no
  later commit has again. `BeatInv`: two successive beats of a session with no mishap (a suspended machine, a marker
  that failed) and no marker between them are within the allowed gap, and the task's own clock keeps it so. `VerifyInv`: what `verify` holds at each place is a
  prefix of what the rows say by now, its plan is the difference for that prefix, and its verdict keeps what
  is claimed of it. From it: `CleanVerdictsAreEarned` (`CleanIsEarned`), `AlarmsAreNotFalse`
  (`AlarmsHaveACause`) and `PlannedRowsAreRepaired`
  (`PlannedRowsAgree`: behind a repair the index of the rows that its plan knew is exact, and of those only), for any number of rows, sessions and entries and any cadence.

`TextProofs`
: Of `SseParser`: `UnitsAreKept` (`BytesAreKept`) from `KeptInv`: the buffer and the chunk are the stretch of the stream behind what
  was handed on, and a buffer within a resynchronisation is exactly the look-behind.
  `EventsAreFound` (`EventsAreTheStreams`) adds `SectionInv`: there is a set of places where the
  events of the stream ended so far; what was read as events is what lies between two neighbours of it within the cap, and
  no end was overlooked behind the last of them, even in what a resynchronisation threw out.
  `EndpointsAreRewritten` (`EndpointIsRewritten`) adds `PointedInv`, piece by piece. The property and the parser both use
  recursive functions (the ends of the stream's events, the flattened pieces); the proofs characterise
  them by closed sets and least elements, which are sets and not predicates, so no induction theorem with an
  operator parameter is needed.

  Of `TextScan`, `NoPartOfASecretIsLeft`, for any text, context, patterns and allowlist. A marker may be a symbol of the
  text, but is then not one that the property counts. The properties speak of `Matches`, which is what the patterns find; the code merges and splices. `HitsAre`: the sorted hits are the matches. `Groups` is
  the invariant of the merging: each hit so far lies in a group, each group is covered by its hits and ends before the next begins,
  and a group with a secret in it is one (`Preferred`). `PiecesAre`: at each position of the text the splice leaves the symbol, a
  marker or nothing, never the symbol within a secret, and always the symbol outside all matches. `FlattenCounts` carries this
  from positions to the whole text.

  Of `CallRecorder`, `RowsAreSafe` (`NoSecretIsStored`), for JSON values of any size and depth, any outcome, tier, thresholds and
  destination keys. `WalkIs` and `NameIsOfBefore`: a node of the walk is decided by what is before it, so
  that the walk is one function on all nodes and no induction over trees is needed. `WalkLeaves`: each key and each text of it is what is left of
  the one that was sent, in the context it was scanned in (`LeftOf`), so that `NoPartOfASecretIsLeft` holds of each. `FreeNameIs` is the pigeonhole behind the
  numbering of keys and `NamesStayApart` what follows for an object: no renamed member takes the name of another, whether that is renamed before, after
  or not at all. `HitsTell`: some hit counts exactly if some key or text has a secret, which is what decides about the
  flags and the tier. `TotalIs` and `TimesOfAll` add the nodes up; `WrittenIs`, `TruncatedIs` and `RenderIs` say that rendering only
  leaves out, and at the full tier leaves out nothing; `DestinationIs` that the destination is a text of the redacted
  arguments. `EntryIsSafe` puts them together for one call, and the inductive invariant `RowInv` says that the row is that of the call.
  `RecorderImplementsSession` maps each step to one of `SessionSpec`, so that `BurstsAreFlaggedOnce` holds of the calls that are
  recorded.

The proofs use these assumptions on constants, besides the types of numbers and the distinctness of names:

* `BodiesAssumption`: a body names a call once. A call stands for one message of one request, so a duplicate
  is another call, maybe under the same id.
* `FlagCountsAssumption`: flags that do not parse are not a number.
* `MaxEventAssumption`: the cap, a megabyte, is not less than the look-behind of three.
* `UnitsAssumption`, `FieldsAssumption`: the two line-end symbols differ, streams are sequences, and a field is a
  symbol that has a line of its own, which it shares with carriage returns only. This is the format of the symbols, not a
  restriction of servers: what has a different shape is a symbol of another name.
* `PatternsAssumption`: a match is not empty (an empty one hides nothing), and only a pattern that checks the entropy asks for a
  hint, which is refused when the patterns are loaded (`secrets.rs:80`).
* `RecorderAssumption`: there are tiers and numbers (`MaxRecords` at least one), the destination keys are a list, and the key of
  the note on a response that was cut is a text like others.
* `WorkloadsAssumption`: what is sent is a call (`IsCall`): its JSON is a document that `serde_json` has parsed, in which two members
  of one object have two names; and what the session observes is what such calls say. Nothing else is asked of clients or targets.

**Only model-checked.**

* Liveness under fairness (`ShutdownEnds` of both modules, `LeftLockIsBroken`, `DeadIsClosed`): the prover does
  not do ENABLED.

## 5. Findings

Four statements of the repository are refuted by runs.

1. `recover_or_clean_up` (`chain.rs:163-183`) looks for metadata, closes its connection, and removes
   the database by its path: another process may have committed its genesis in between.
   The comment says the database is removed only when nobody else got there (`bootstrap_unlink`).
2. `bind_endpoint` (`http/session_registry.rs:71-75`) replaces the binding of an older stream that had the same
   endpoint. When that stream ends, `unbind_endpoint_if` finds a newer session and leaves its own alone,
   which no map names by then: its open calls are never logged, although `http/tee.rs:181-183`
   says that they are recorded rather than disappear (`http_reconnect`).
3. `AnchorLock::acquire` (`anchor.rs:364-382`) renames a stale lock by its path: the second of two
   that saw it stale takes the fresh lock that the first has created since, and both append from the same tail. The comment
   (`anchor.rs:372-375`) says that the loser gets `NotFound` instead. Two live processes suffice if a token could not be written
   (`anchor.rs:349`), for then the owner leaves its lock behind (`anchor_takeover`); behind a death it takes two survivors.
4. `load_redaction_state` (`db/redaction_repair.rs:162-222`) is two statements without a transaction. A row
   that a proxy commits in between has index rows and no expected ones: `verify` reports drift, and
   `--repair-index` deletes them, although "index rows that already agree are never touched"
   (`db/redaction_repair.rs:265-267`). The second comparison then finds them missing (`witness_repair`).

Others were met while modelling and have no run of their own.

* `recover_or_clean_up` asks `if let Ok(Some(m))` (`chain.rs:163`): metadata that it fails to read, as on a
  lock that lasts beyond the busy time-out, counts as missing, and a chain that exists is removed. The comment
  has the removal "only when no metadata exists".
* `write_restricted_new` (`keys.rs:415-462`) makes the key file visible before it holds the key. The
  loser of the race may read it empty and fails, where the comment says it adopts the key.
* `repair_torn_tail` (`anchor.rs:179-203`) leaves a file without any newline as it is: a torn *first*
  line becomes a complete line that no later tick can parse.
* When the drain times out (`proxy.rs:480-502`), the lease is dropped while the writer may still commit
  the session's end, so a session may get an abandonment and an end.
* A *request* of the target's whose id a client's call waits under closes that call as its answer:
  the outbound pump resolves by id and does not look at `method` (`proxy.rs:776-789`). `stdio` includes
  it (`by = "request"`).
* Index rows of a row whose flags do not parse are deleted by a repair, although they are said to be "left untouched".
* A row that is committed and anchored between `verify`'s reading of the rows and of the anchor file
  is reported as a mismatch (`verify.rs:290`, `346-404`); `AlarmsHaveACause` allows for it.
* `event: endpoint\r\n\n` is a terminator for the parser, but its field keeps the CR in the name, so that
  event is not rewritten (`http/sse.rs:171-207`).
* The fallback for a whole body without a resolvable answer closes the last key of a batch only
  (`http/tee.rs:373-381`); the other calls wait for the end of their connection.
* The end of the outbound pump is no reason to stop for `run` (`proxy.rs:271-292`): a client that has closed its
  side of the output is noticed when the target or the input ends.
* A raw payload is always an error's, and an error escalates to the full tier: the previews of raw text at the other
  tiers are never used.
* The markers of some patterns contain a hint ("key"), so what lies beneath a redacted key is scanned with the
  lower threshold. `ContextOf` has it so; it hides more, not less.

## 6. What is not modelled

* A panic of the writer thread (the build aborts on panic, `Cargo.toml`): a `Crash` is that too.
* An anchor file whose *first* line is torn: the instances begin with one entry, and `AnchorVerifies` and its theorems
  are about a file that has a line (section 5).
* A *live* holder of the anchor lock that is slower than ten seconds in a section of milliseconds.
* A removal of the database that fails for another reason than that the file is in use.
* The anchor file and the key backup of a reset; the walk over the rows in `Verify` of `Bootstrap`,
  which is one condition.
* The time-out of `log_durable` on a full queue: the scan is the only producer then and waits for each
  reply, so its queue is never full.
* In `Witness`, a hand that edits the database: hashes and signatures are taken to do what they are for. The chain of
  signatures within the anchor file is in `Anchor`. Unparseable flags (`Bad`) are those of another build.
* In `HttpSessions`, origin checks, size limits and the rewriting of headers and URIs, which answer or change a request
  and keep nothing; the heartbeat and anchor tasks of `serve`, whose order is that of `run`. A GET to a path that was advertised as an
  endpoint: the look-up of the session (`http/server.rs:479-488`) is made for every method, `LookUp` models it for POSTs, and `Get` is a
  request to another path, as an endpoint is for posting.
* In `SseParser`, bytes that are not UTF-8, in which `field` finds nothing (`http/sse.rs:178`): their event is passed on as it came and neither read nor rewritten.
* In `TextScan`, regular expressions and the measures of the entropy gate (a pattern says how it measures up);
  in `Anomaly`, saturating arithmetic, and the clocks of two calls logged at once on different threads, which a
  session's lock puts in some order.
* `truncate_raw_sampled`, which nothing reaches, and character boundaries.
* `query` and `export`: filters and formats of rows read in one statement. `unmask` adds one hash to a table;
  what an allowlisted hash does is in `TextScan`.
* Configuration, paths, permissions, the command line, logging, formats.

## 7. Plan

Done: every module of section 2, and theorems for all of them. What would add most:

1. `unmask` beside a running proxy, which has read the allowlist at its start.
2. An order for a start and a reset that needs no `ResetsAlone`, if the code gets one.
