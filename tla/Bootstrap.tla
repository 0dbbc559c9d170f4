----------------------------- MODULE Bootstrap ------------------------------
(***************************************************************************)
(* How a process finds or founds the chain it will write: bootstrap of     *)
(* src/src/chain.rs, with the key file of src/src/keys.rs, the genesis     *)
(* metadata of src/src/db/chain_hash.rs, the second open of the database   *)
(* by the writer, and `auditmcp reset` (src/src/reset.rs), in several      *)
(* processes that share the paths of the database and of its key.          *)
(*                                                                         *)
(* A process name stands for one life of a process; an idle one may start  *)
(* at any time, after the others or with them. A root key is named by the  *)
(* process that generated it, a database file by the process that created  *)
(* it and on which of its two opens.                                       *)
(***************************************************************************)
EXTENDS Naturals

CONSTANTS
  Procs,        \* process lives
  OldKey,       \* a root key from before
  KeyFiles,     \* what key_path may hold at first: a subset of {NoKey, OldKey}
  NoKey,        \* no file, or no metadata
  NoFile,       \* db_path names no file
  Unix,         \* files can be unlinked while they are open
  Faults,       \* processes are killed and I/O fails
  Resets        \* processes may be `auditmcp reset`

ASSUME OldKeyAssumption == OldKey \notin Procs
ASSUME NoKeyAssumption == NoKey \notin Procs \cup {OldKey}
ASSUME NoFileAssumption == NoFile \notin Procs \X {1, 2}
ASSUME KeyFilesAssumption == KeyFiles \subseteq {NoKey, OldKey}
ASSUME SwitchesAreBoolean == {Unix, Faults, Resets} \subseteq BOOLEAN

VARIABLES
  dbAt,         \* the database file that db_path names
  meta,         \* the root key the genesis metadata of each file was made with
  keyFile,      \* what key_path holds
  pc,           \* per process, where it is
  job,          \* per process, the command it runs
  existed,      \* per process, db_existed
  conn,         \* per process, the file its connection is to
  key           \* per process, the root key it works with

vars == <<dbAt, meta, keyFile, pc, job, existed, conn, key>>

Files == Procs \X {1, 2}
Keys == Procs \cup {OldKey}

\* The key file is there and its key is not written yet.
Torn(p) == <<"torn", p>>
TornKeys == {Torn(p) : p \in Procs}

ASSUME TornAssumption == (Keys \cup {NoKey}) \cap TornKeys = {}

TypeOK ==
  /\ dbAt \in Files \cup {NoFile}
  /\ meta \in [Files -> Keys \cup {NoKey}]
  /\ keyFile \in Keys \cup {NoKey} \cup TornKeys
  /\ pc \in [Procs -> {"idle", "resetDb", "resetKey", "check", "open", "loadKey",
                       "createKey", "writeKey", "reloadKey", "genesis", "cleanup",
                       "close", "unlink", "cleaned", "readMeta", "verify", "spawn",
                       "running", "refused", "ended"}]
  /\ job \in [Procs -> {"run", "reset"}]
  /\ existed \in [Procs -> BOOLEAN]
  /\ conn \in [Procs -> Files \cup {NoFile}]
  /\ key \in [Procs -> Keys \cup {NoKey}]

Init ==
  /\ dbAt = NoFile
  /\ meta = [f \in Files |-> NoKey]
  /\ keyFile \in KeyFiles
  /\ pc = [p \in Procs |-> "idle"]
  /\ job = [p \in Procs |-> "run"]
  /\ existed = [p \in Procs |-> FALSE]
  /\ conn = [p \in Procs |-> NoFile]
  /\ key = [p \in Procs |-> NoKey]

Goto(p, place) == pc' = [pc EXCEPT ![p] = place]

At(p, place) == pc[p] = place

\* The connection is closed and the process refuses to start.
Refuse(p) == conn' = [conn EXCEPT ![p] = NoFile] /\ Goto(p, "refused")

\* A connection is open to the file, be it that of whoever would remove it.
InUse(f) == \E p \in Procs : conn[p] = f

\* remove_file and rename of the database, by its path.
CanUnlink == Unix \/ ~InUse(dbAt)

-----------------------------------------------------------------------------
(* auditmcp reset: the files go in a fixed order, then a chain is founded. *)

Launch(p) ==
  /\ At(p, "idle")
  /\ \/ Goto(p, "check") /\ UNCHANGED job
     \/ Resets /\ Goto(p, "resetDb") /\ job' = [job EXCEPT ![p] = "reset"]
  /\ UNCHANGED <<dbAt, meta, keyFile, existed, conn, key>>

\* The order in which reset archives or removes the files.
ResetOrder == <<"resetDb", "resetKey">>

AfterReset(place) == IF place = ResetOrder[1] THEN ResetOrder[2] ELSE "check"

\* archive_or_remove of the database; it fails where the file is in use and
\* may not be unlinked.
ResetDb(p) ==
  /\ At(p, "resetDb")
  /\ \/ dbAt = NoFile /\ Goto(p, AfterReset("resetDb")) /\ UNCHANGED dbAt
     \/ /\ dbAt # NoFile /\ CanUnlink
        /\ dbAt' = NoFile
        /\ Goto(p, AfterReset("resetDb"))
     \/ dbAt # NoFile /\ ~CanUnlink /\ Goto(p, "refused") /\ UNCHANGED dbAt
  /\ UNCHANGED <<meta, keyFile, job, existed, conn, key>>

ResetKey(p) ==
  /\ At(p, "resetKey")
  /\ keyFile' = NoKey
  /\ Goto(p, AfterReset("resetKey"))
  /\ UNCHANGED <<dbAt, meta, job, existed, conn, key>>

-----------------------------------------------------------------------------
(* bootstrap *)

\* db_existed is sampled before the database is opened.
CheckDb(p) ==
  /\ At(p, "check")
  /\ existed' = [existed EXCEPT ![p] = dbAt # NoFile]
  /\ Goto(p, "open")
  /\ UNCHANGED <<dbAt, meta, keyFile, job, conn, key>>

\* open_db: the file db_path names, created if there is none.
OpenAs(p, f) ==
  /\ dbAt' = IF dbAt = NoFile THEN f ELSE dbAt
  /\ conn' = [conn EXCEPT ![p] = dbAt']

Open(p) ==
  /\ At(p, "open")
  /\ OpenAs(p, <<p, 1>>)
  /\ Goto(p, IF existed[p] THEN "readMeta" ELSE "loadKey")
  /\ UNCHANGED <<meta, keyFile, job, existed, key>>

\* Either open fails, perhaps after it has created the file: the process
\* returns at once.
OpenFails(p) ==
  /\ Faults
  /\ \/ At(p, "open") /\ dbAt' \in {dbAt, IF dbAt = NoFile THEN <<p, 1>> ELSE dbAt}
     \/ /\ At(p, "spawn") /\ job[p] = "run"
        /\ dbAt' \in {dbAt, IF dbAt = NoFile THEN <<p, 2>> ELSE dbAt}
  /\ Goto(p, "refused")
  /\ UNCHANGED <<meta, keyFile, job, existed, conn, key>>

\* A key file is taken for what it is.
ParsesAnything == keyFile # NoKey

\* The key file holds a whole key.
Parses == keyFile \in Keys

\* KeyFile::load: no file, a file that does not parse, or a key.
Load(p, absent, garbled, loaded) ==
  \/ keyFile = NoKey /\ Goto(p, absent) /\ UNCHANGED key
  \/ keyFile # NoKey /\ ~Parses /\ Goto(p, garbled) /\ UNCHANGED key
  \/ /\ Parses
     /\ key' = [key EXCEPT ![p] = keyFile]
     /\ Goto(p, loaded)

LoadKey(p) ==
  /\ At(p, "loadKey")
  /\ Load(p, "createKey", "cleanup", "genesis")
  /\ UNCHANGED <<dbAt, meta, keyFile, job, existed, conn>>

\* A truncating create.
CreatesAlways == TRUE

\* create_new fails if the file is there.
CreatesKey == keyFile = NoKey

\* write_restricted_new, its create: an empty file, restricted, is p's.
CreateKey(p) ==
  /\ At(p, "createKey")
  /\ \/ CreatesKey /\ keyFile' = Torn(p) /\ Goto(p, "writeKey")
     \/ ~CreatesKey /\ UNCHANGED keyFile /\ Goto(p, "reloadKey")
  /\ UNCHANGED <<dbAt, meta, job, existed, conn, key>>

\* write_restricted_new, its write: through the open handle on Unix, by the
\* path on Windows.
WriteKey(p) ==
  /\ At(p, "writeKey")
  /\ keyFile' = IF Unix /\ keyFile # Torn(p) THEN keyFile ELSE p
  /\ key' = [key EXCEPT ![p] = p]
  /\ Goto(p, "genesis")
  /\ UNCHANGED <<dbAt, meta, job, existed, conn>>

\* load_or_generate fails: on a read, on the create, or in the middle of the
\* write.
KeyFails(p) ==
  /\ Faults
  /\ pc[p] \in {"loadKey", "createKey", "writeKey", "reloadKey"}
  /\ Goto(p, "cleanup")
  /\ UNCHANGED <<dbAt, meta, keyFile, job, existed, conn, key>>

\* The race for the key file is lost: load_or_generate reads the winner's.
ReloadKey(p) ==
  /\ At(p, "reloadKey")
  /\ Load(p, "cleanup", "cleanup", "genesis")
  /\ UNCHANGED <<dbAt, meta, keyFile, job, existed, conn>>

\* write_chain_metadata_genesis: one transaction, which the primary key of
\* chain_metadata lets succeed once per database.
Genesis(p) ==
  /\ At(p, "genesis")
  /\ \/ /\ meta[conn[p]] = NoKey
        /\ meta' = [meta EXCEPT ![conn[p]] = key[p]]
        /\ conn' = [conn EXCEPT ![p] = NoFile]
        /\ Goto(p, "spawn")
     \/ meta[conn[p]] # NoKey /\ Goto(p, "cleanup") /\ UNCHANGED <<meta, conn>>
  /\ UNCHANGED <<dbAt, keyFile, job, existed, key>>

GenesisFails(p) ==
  /\ Faults
  /\ At(p, "genesis")
  /\ Goto(p, "cleanup")
  /\ UNCHANGED <<dbAt, meta, keyFile, job, existed, conn, key>>

\* The database of a lost race is taken for a half-made one.
NeverClaimed(p) == FALSE

\* Someone has written genesis metadata to the database p is connected to.
Claimed(p) == meta[conn[p]] # NoKey

\* A lost race ends with the winner's chain.
AdoptClaimed == "readMeta"

\* A clean-up that would remove the database first.
RemovesFirst == <<"unlink", "close">>

\* recover_or_clean_up drops its connection before it removes the file.
CleanUpOrder == <<"close", "unlink">>

AfterCleanUp(place) == IF place = CleanUpOrder[1] THEN CleanUpOrder[2] ELSE "cleaned"

\* recover_or_clean_up decides. Metadata it fails to read counts as none.
Recover(p) ==
  /\ At(p, "cleanup")
  /\ \/ Claimed(p) /\ Goto(p, AdoptClaimed)
     \/ (~Claimed(p) \/ Faults) /\ Goto(p, CleanUpOrder[1])
  /\ UNCHANGED <<dbAt, meta, keyFile, job, existed, conn, key>>

\* recover_or_clean_up, drop(conn).
Close(p) ==
  /\ At(p, "close")
  /\ conn' = [conn EXCEPT ![p] = NoFile]
  /\ Goto(p, AfterCleanUp("close"))
  /\ UNCHANGED <<dbAt, meta, keyFile, job, existed, key>>

\* recover_or_clean_up removes what db_path names by now; a failure to is
\* ignored.
Remove(p) ==
  /\ At(p, "unlink")
  /\ dbAt' = IF CanUnlink THEN NoFile ELSE dbAt
  /\ Goto(p, AfterCleanUp("unlink"))
  /\ UNCHANGED <<meta, keyFile, job, existed, conn, key>>

\* classify_existing_chain: without metadata it refuses.
ReadMeta(p) ==
  /\ At(p, "readMeta")
  /\ \/ (meta[conn[p]] = NoKey \/ Faults) /\ Refuse(p)
     \/ meta[conn[p]] # NoKey /\ Goto(p, "verify") /\ UNCHANGED conn
  /\ UNCHANGED <<dbAt, meta, keyFile, job, existed, key>>

\* classify_existing_chain: the key must be there, be whole, and verify the
\* metadata and the rows.
Verify(p) ==
  /\ At(p, "verify")
  /\ \/ /\ Parses /\ keyFile = meta[conn[p]]
        /\ key' = [key EXCEPT ![p] = keyFile]
        /\ conn' = [conn EXCEPT ![p] = NoFile]
        /\ Goto(p, "spawn")
     \/ /\ ~(Parses /\ keyFile = meta[conn[p]]) \/ Faults
        /\ Refuse(p)
        /\ UNCHANGED key
  /\ UNCHANGED <<dbAt, meta, keyFile, job, existed>>

\* bootstrap has returned. reset is done; run opens the database again, for
\* its writer, by its path.
Spawn(p) ==
  /\ At(p, "spawn")
  /\ \/ job[p] = "run" /\ OpenAs(p, <<p, 2>>) /\ Goto(p, "running")
     \/ job[p] = "reset" /\ UNCHANGED <<dbAt, conn>> /\ Goto(p, "ended")
  /\ UNCHANGED <<meta, keyFile, job, existed, key>>

\* The process has returned its error, or has ended.
Over == {"refused", "cleaned", "ended"}

\* The process ends, or is killed: its connection is closed.
End(p) ==
  /\ At(p, "running") \/ (Faults /\ pc[p] \notin Over \cup {"idle"})
  /\ conn' = [conn EXCEPT ![p] = NoFile]
  /\ Goto(p, "ended")
  /\ UNCHANGED <<dbAt, meta, keyFile, job, existed, key>>

ProcStep(p) ==
  \/ Launch(p) \/ ResetDb(p) \/ ResetKey(p) \/ CheckDb(p) \/ Open(p)
  \/ OpenFails(p) \/ LoadKey(p) \/ CreateKey(p) \/ WriteKey(p)
  \/ KeyFails(p) \/ ReloadKey(p) \/ Genesis(p) \/ GenesisFails(p)
  \/ Recover(p) \/ Close(p) \/ Remove(p) \/ ReadMeta(p) \/ Verify(p)
  \/ Spawn(p) \/ End(p)

\* Every process has refused or ended.
Settled ==
  /\ \A p \in Procs : pc[p] \in Over
  /\ UNCHANGED vars

Next == (\E p \in Procs : ProcStep(p)) \/ Settled

Spec == Init /\ [][Next]_vars
-----------------------------------------------------------------------------
(* What keeps processes apart that the code itself does not. *)

Starting(p) == pc[p] \notin Over \cup {"idle", "running"}

\* A reset runs on its own, whoever runs already: it begins while nobody
\* starts, and until it is done nobody else moves.
ResetsAlone ==
  \A p \in Procs :
    job'[p] = "reset" =>
      /\ job[p] # "reset" => \A q \in Procs : ~Starting(q)
      /\ Starting(p) => \A q \in Procs \ {p} : pc'[q] = pc[q]

\* What recover_or_clean_up says of the database it removes, that nobody else got
\* there: metadata that is there is read, and nobody founds a chain between the
\* look and the removal. The code does not see to it (OnlyUnclaimedIsRemoved).
LooksAndRemoves ==
  \A p \in Procs :
    /\ At(p, "cleanup") /\ pc'[p] \in {"close", "unlink"} => ~Claimed(p)
    /\ pc[p] \in {"close", "unlink"} => UNCHANGED meta
-----------------------------------------------------------------------------
(* Properties. *)

\* Whatever starts and failures interleave, a database that has its genesis
\* metadata can be opened again: the key file still holds the key it was made
\* with (load_or_generate never replaces a key, reset removes the database
\* before its key).
EstablishedChainHasKey ==
  dbAt # NoFile => meta[dbAt] \in {NoKey, keyFile}

\* Processes that start together on one path write one chain: each writer is
\* connected to the database the path names, with the key of its genesis.
OneChain ==
  \A p \in Procs : At(p, "running") =>
    conn[p] = dbAt /\ meta[dbAt] = key[p]

\* p has come as far as the open of the database, or further.
CameToOpen(p) == pc[p] \notin {"idle", "resetDb", "resetKey", "check", "open"}

\* A first start that created its database, failed before its genesis and has
\* cleaned up never finds that database at the path again, so that the next
\* start is a first start: it may stay only on Windows, and only for another
\* process that came to open it (recover_or_clean_up closes its own connection
\* before it removes the file; a failed open does not come to clean up).
FailedGenesisLeavesNothing ==
  \A p \in Procs : At(p, "cleaned") /\ dbAt = <<p, 1>> =>
    ~Unix /\ \E q \in Procs \ {p} : CameToOpen(q)

\* What recover_or_clean_up says of the database it removes: that no genesis
\* metadata exists in it, so that nobody else got there.
OnlyUnclaimedIsRemoved ==
  [][\A p \in Procs : At(p, "unlink") /\ dbAt # dbAt' => meta[dbAt] = NoKey]_vars
=============================================================================
