------------------------------- MODULE Anchor -------------------------------
(***************************************************************************)
(* The external anchor of src/src/anchor.rs: a file of lines, itself an    *)
(* HMAC chain, that several processes append to under a lock file, with    *)
(* writes that are torn, processes that die in the middle of an append,    *)
(* locks without the token of their owner, and locks that are taken over   *)
(* when they look abandoned.                                               *)
(*                                                                         *)
(* An entry's HMAC is a number of its own, 0 is the genesis sentinel. A    *)
(* process name stands for one life of a process.                          *)
(***************************************************************************)
EXTENDS Naturals, Sequences, FiniteSets

CONSTANTS
  Procs,          \* processes that anchor one chain
  Killable,       \* those that may be killed
  Faults,         \* the disk may fill up during a write
  OldEntries,     \* the entries the file has at first
  MaxEntries,     \* bound: entries ever made
  NoLock          \* there is no lock file

ASSUME KillableAssumption == Killable \subseteq Procs
ASSUME FaultsAssumption == Faults \in BOOLEAN
ASSUME EntriesAssumption == OldEntries \in Nat /\ MaxEntries \in Nat

\* Lock files: who made it, whether its token is in it, and whether it has been
\* there for longer than LOCK_STALE_AFTER.
Locks == [owner : Procs, token : BOOLEAN, old : BOOLEAN]

ASSUME NoLockAssumption == NoLock \notin Locks

VARIABLES
  lines,          \* the lines of the anchor file that end in a newline
  tail,           \* what was written after the last newline
  made,           \* the last HMAC computed
  lockFile,       \* the lock file
  pc,             \* per process, where its tick is
  prev            \* per process, the prev_anchor_hmac it chains from

vars == <<lines, tail, made, lockFile, pc, prev>>

Entry(before, n) == [kind |-> "entry", prev |-> before, hmac |-> n]
Fragment == [kind |-> "fragment", prev |-> 0, hmac |-> 0]
Garbage  == [kind |-> "garbage", prev |-> 0, hmac |-> 0]

Pieces(kinds) == [kind : kinds, prev : 0..made, hmac : 0..made]

TypeOK ==
  /\ lines \in Seq(Pieces({"entry", "garbage"}))
  /\ tail \in Seq(Pieces({"entry", "fragment"}))
  /\ made \in Nat
  /\ lockFile \in Locks \cup {NoLock}
  /\ pc \in [Procs -> {"idle", "lock", "stat", "rename", "repair", "read", "write",
                       "newline", "unlock", "remove", "gone"}]
  /\ prev \in [Procs -> 0..made]

Init ==
  /\ lines = [i \in 1..OldEntries |-> Entry(i - 1, i)]
  /\ tail = <<>>
  /\ made = OldEntries
  /\ lockFile = NoLock
  /\ pc = [p \in Procs |-> "idle"]
  /\ prev = [p \in Procs |-> 0]

At(p, place) == pc[p] = place

Goto(p, place) == pc' = [pc EXCEPT ![p] = place]

\* p is between taking the lock and letting it go.
Holds(p) == pc[p] \in {"repair", "read", "write", "newline", "unlock", "remove"}

-----------------------------------------------------------------------------
(* AnchorLock::acquire *)

\* The cadence has passed and the chain has a row to witness.
Tick(p) ==
  /\ At(p, "idle")
  /\ made < MaxEntries
  /\ Goto(p, "lock")
  /\ UNCHANGED <<lines, tail, made, lockFile, prev>>

\* An open that does not mind an existing file.
LockCreatable == TRUE

\* create_new
LockIsFree == lockFile = NoLock

\* The lock is taken by creating its file; whether the token can be written to it
\* is not looked at. The file may not be creatable either.
TryLock(p) ==
  /\ At(p, "lock")
  /\ \/ /\ LockIsFree
        /\ \E written \in IF Faults THEN BOOLEAN ELSE {TRUE} :
             lockFile' = [owner |-> p, token |-> written, old |-> FALSE]
        /\ Goto(p, "repair")
     \/ Faults /\ LockIsFree /\ Goto(p, "idle") /\ UNCHANGED lockFile
     \/ ~LockIsFree /\ Goto(p, "stat") /\ UNCHANGED lockFile
  /\ UNCHANGED <<lines, tail, made, prev>>

\* A lock is waited for, however old.
NeverStale == FALSE

\* The modification time of the lock file is too long ago.
Stale == lockFile # NoLock /\ lockFile.old

\* The age of the lock decides: take it over, wait, or give up until the next
\* tick.
Stat(p) ==
  /\ At(p, "stat")
  /\ \/ Stale /\ Goto(p, "rename")
     \/ ~Stale /\ \E place \in {"lock", "idle"} : Goto(p, place)
  /\ UNCHANGED <<lines, tail, made, lockFile, prev>>

\* rename by path takes whatever lock is there by now.
TakeOver(p) ==
  /\ At(p, "rename")
  /\ lockFile' = NoLock
  /\ Goto(p, "lock")
  /\ UNCHANGED <<lines, tail, made, prev>>

\* The file that is there by now has the token of p in it.
HasTokenOf(p) == lockFile # NoLock /\ lockFile.owner = p /\ lockFile.token

\* Drop reads the token: without its own it leaves the file to get old.
Unlock(p) ==
  /\ At(p, "unlock")
  /\ Goto(p, IF HasTokenOf(p) THEN "remove" ELSE "idle")
  /\ UNCHANGED <<lines, tail, made, lockFile, prev>>

\* Drop removes the file whose token it has read.
Remove(p) ==
  /\ At(p, "remove")
  /\ lockFile' = NoLock
  /\ Goto(p, "idle")
  /\ UNCHANGED <<lines, tail, made, prev>>

-----------------------------------------------------------------------------
(* append_entry *)

\* The fragment is left where it is.
KeepTail == tail

\* The fragment is given the newline it lacks.
RepairedLinesClosed == lines \o tail

\* The lines a repair keeps.
RepairedLines == lines

\* What a repair leaves after the last newline: without a newline to cut at,
\* everything.
RepairedTail == IF lines = <<>> THEN tail ELSE <<>>

\* repair_torn_tail
Repair(p) ==
  /\ At(p, "repair")
  /\ lines' = RepairedLines
  /\ tail' = RepairedTail
  /\ Goto(p, "read")
  /\ UNCHANGED <<made, lockFile, prev>>

\* last_anchor_hmac: of the last complete line, which must parse.
ReadPrev(p) ==
  /\ At(p, "read")
  /\ \/ /\ lines = <<>>
        /\ prev' = [prev EXCEPT ![p] = 0]
        /\ Goto(p, "write")
     \/ /\ lines # <<>> /\ lines[Len(lines)].kind = "entry"
        /\ prev' = [prev EXCEPT ![p] = lines[Len(lines)].hmac]
        /\ Goto(p, "write")
     \/ /\ lines # <<>> /\ lines[Len(lines)].kind = "garbage"
        /\ UNCHANGED prev
        /\ Goto(p, "unlock")
  /\ UNCHANGED <<lines, tail, made, lockFile>>

\* writeln! writes the line first.
WriteLine(p) ==
  /\ At(p, "write")
  /\ made' = made + 1
  /\ tail' = Append(tail, Entry(prev[p], made'))
  /\ Goto(p, "newline")
  /\ UNCHANGED <<lines, lockFile, prev>>

\* A write that stops before the end of the line.
WriteFails(p) ==
  /\ Faults
  /\ At(p, "write")
  /\ made' = made + 1
  /\ tail' \in {tail, Append(tail, Fragment)}
  /\ Goto(p, "unlock")
  /\ UNCHANGED <<lines, lockFile, prev>>

\* The line that a newline makes of what is before it: one entry, an empty
\* line, which readers skip, or what no reader can parse.
Terminated(t) ==
  IF t = <<>> \/ (Len(t) = 1 /\ t[1].kind = "entry") THEN t ELSE <<Garbage>>

\* writeln! writes the newline next.
WriteNewline(p) ==
  /\ At(p, "newline")
  /\ lines' = lines \o Terminated(tail)
  /\ tail' = <<>>
  /\ Goto(p, "unlock")
  /\ UNCHANGED <<made, lockFile, prev>>

NewlineFails(p) ==
  /\ Faults
  /\ At(p, "newline")
  /\ Goto(p, "unlock")
  /\ UNCHANGED <<lines, tail, made, lockFile, prev>>

-----------------------------------------------------------------------------
\* The session ends: its anchor task is aborted where it sleeps.
Stop(p) ==
  /\ At(p, "idle")
  /\ Goto(p, "gone")
  /\ UNCHANGED <<lines, tail, made, lockFile, prev>>

\* A kill, perhaps in the middle of a write.
Kill(p) ==
  /\ p \in Killable
  /\ ~At(p, "gone")
  /\ \/ UNCHANGED tail
     \/ At(p, "write") /\ tail' = Append(tail, Fragment)
  /\ Goto(p, "gone")
  /\ UNCHANGED <<lines, made, lockFile, prev>>

\* The lock file gets old, whoever made it: only the time counts.
LockAges ==
  /\ lockFile # NoLock /\ ~lockFile.old
  /\ lockFile' = [lockFile EXCEPT !.old = TRUE]
  /\ UNCHANGED <<lines, tail, made, pc, prev>>

AppendStep(p) ==
  \/ TryLock(p) \/ Stat(p) \/ TakeOver(p) \/ Repair(p) \/ ReadPrev(p)
  \/ WriteLine(p) \/ WriteFails(p) \/ WriteNewline(p) \/ NewlineFails(p)
  \/ Unlock(p) \/ Remove(p)

\* No tick is left within the bound, and nobody is in one.
Quiet ==
  /\ \A p \in Procs : pc[p] \in {"idle", "gone"}
  /\ made >= MaxEntries \/ \A p \in Procs : At(p, "gone")
  /\ UNCHANGED vars

Next ==
  \/ \E p \in Procs : Tick(p) \/ AppendStep(p) \/ Stop(p) \/ Kill(p)
  \/ LockAges
  \/ Quiet

\* The cadence ticks, an append that has begun goes on, and time passes.
Fairness ==
  /\ \A p \in Procs : WF_vars(Tick(p)) /\ WF_vars(AppendStep(p))
  /\ WF_vars(LockAges)

Spec == Init /\ [][Next]_vars

FairSpec == Spec /\ Fairness
-----------------------------------------------------------------------------
(* Conditions on a step that keep processes apart, which the code itself does not see to. *)

\* No lock gets old behind the process that is between lock and unlock: an append
\* takes milliseconds, and LOCK_STALE_AFTER is ten seconds.
HoldersArePrompt ==
  lockFile # NoLock /\ ~lockFile.old /\ (lockFile # NoLock /\ lockFile.old)'
    => ~Holds(lockFile.owner)

\* What acquire says of its rename: of those that find a lock stale one takes it,
\* and the others find none, rather than what the winner has created since.
RenamesTheStale ==
  \A p \in Procs :
    At(p, "rename") /\ (At(p, "lock"))' => lockFile = NoLock \/ lockFile.old

\* A lock that is taken has its token in it.
TokensAreWritten == (lockFile # NoLock => lockFile.token)'
-----------------------------------------------------------------------------
(* Properties. *)

\* The entries a reader finds: a last line that lacks its newline counts if
\* it is whole (read_entries).
Entries ==
  lines \o (IF Len(tail) = 1 /\ tail[1].kind = "entry" THEN tail ELSE <<>>)

\* verify never finds a broken link or an unreadable line in an anchor that
\* only this program has written and that has a first line, whatever the
\* processes, the disk and the kills do in between (verify_anchor_chain,
\* read_entries).
AnchorVerifies ==
  \A i \in DOMAIN Entries :
    /\ Entries[i].kind = "entry"
    /\ Entries[i].prev = IF i = 1 THEN 0 ELSE Entries[i - 1].hmac

\* Two processes are never between lock and unlock together, so no two
\* entries chain from the same one.
OneHolder ==
  \A p, q \in Procs : Holds(p) /\ Holds(q) => p = q

\* A lock that nobody holds any more, because its process died or could not write
\* its token, is broken, as long as a process is there to tick: it does
\* not silence the anchor for ever.
LeftLockIsBroken ==
  \A q \in Procs :
    (/\ lockFile # NoLock /\ ~Holds(lockFile.owner)
     /\ ~At(q, "gone") /\ made < MaxEntries)
      ~> (lockFile = NoLock \/ At(q, "gone") \/ made >= MaxEntries)
=============================================================================
