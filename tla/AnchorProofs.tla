---------------------------- MODULE AnchorProofs ----------------------------
(***************************************************************************)
(* Theorems about Anchor, for any number of processes and of entries.      *)
(***************************************************************************)
EXTENDS Anchor, SequenceTheorems, TLAPS

(* The lock, and the processes that leave it behind. *)

Places == {"idle", "lock", "stat", "rename", "repair", "read", "write", "newline",
           "unlock", "remove", "gone"}

\* Who is between lock and unlock is the owner of the lock file, which is not old.
LockInv ==
  /\ pc \in [Procs -> Places]
  /\ lockFile \in Locks \cup {NoLock}
  /\ \A p \in Procs : Holds(p) => lockFile # NoLock /\ lockFile.owner = p /\ ~lockFile.old

LEMMA InitLock == Init => LockInv
BY DEF Init, LockInv, Places, Holds, At

\* A new lock, whatever is in it.
LEMMA NewLock ==
  ASSUME NEW p \in Procs, NEW token \in BOOLEAN, NEW old \in BOOLEAN
  PROVE  LET new == [owner |-> p, token |-> token, old |-> old]
         IN  new \in Locks /\ new # NoLock
BY NoLockAssumption DEF Locks

\* Who finds no lock file makes one, or gives up.
LEMMA LockTaken ==
  ASSUME NEW p \in Procs, TryLock(p), lockFile = NoLock
  PROVE  \/ UNCHANGED lockFile /\ pc' = [pc EXCEPT ![p] = "idle"]
         \/ /\ lockFile' \in Locks /\ lockFile' # NoLock
            /\ lockFile'.owner = p /\ ~lockFile'.old
            /\ pc' = [pc EXCEPT ![p] = "repair"]
<1>1. CASE Goto(p, "idle") /\ UNCHANGED lockFile
  BY <1>1 DEF Goto
<1>2. CASE /\ Goto(p, "repair")
           /\ \E written \in IF Faults THEN BOOLEAN ELSE {TRUE} :
                lockFile' = [owner |-> p, token |-> written, old |-> FALSE]
  <2>1. PICK written \in BOOLEAN :
          lockFile' = [owner |-> p, token |-> written, old |-> FALSE]
    BY <1>2
  <2>2. QED
    BY <1>2, <2>1, NewLock DEF Goto
<1>3. QED
  BY <1>1, <1>2 DEF TryLock, LockIsFree

LEMMA NextLock ==
  ASSUME LockInv, HoldersArePrompt, RenamesTheStale, [Next]_vars
  PROVE  LockInv'
<1>. USE DEF At, Goto
<1>1. ASSUME NEW p \in Procs, TryLock(p) PROVE LockInv'
  <2>1. CASE lockFile = NoLock
    <3>1. \A q \in Procs : ~Holds(q)
      BY <2>1 DEF LockInv
    <3>2. QED
      BY <1>1, <2>1, <3>1, LockTaken DEF LockInv, Holds, Places
  <2>2. CASE lockFile # NoLock
    <3>1. UNCHANGED lockFile /\ pc' = [pc EXCEPT ![p] = "stat"]
      BY <1>1, <2>2 DEF TryLock, LockIsFree
    <3>2. QED
      BY <3>1 DEF LockInv, Holds, Places
  <2>3. QED
    BY <2>1, <2>2
<1>2. ASSUME NEW p \in Procs, Stat(p) PROVE LockInv'
  BY <1>2 DEF Stat, LockInv, Holds, Places
<1>3. ASSUME NEW p \in Procs, TakeOver(p) PROVE LockInv'
  <2>1. lockFile = NoLock \/ lockFile.old
    BY <1>3 DEF TakeOver, RenamesTheStale, LockInv
  <2>2. \A q \in Procs : ~Holds(q)
    BY <2>1 DEF LockInv
  <2>3. QED
    BY <1>3, <2>2 DEF TakeOver, LockInv, Holds, Places
<1>4. ASSUME NEW p \in Procs, Unlock(p) PROVE LockInv'
  BY <1>4 DEF Unlock, LockInv, Holds, Places
<1>5. ASSUME NEW p \in Procs, Remove(p) PROVE LockInv'
  <2>1. \A q \in Procs : q # p => ~Holds(q)
    BY <1>5 DEF Remove, LockInv, Holds
  <2>2. QED
    BY <1>5, <2>1 DEF Remove, LockInv, Holds, Places
<1>6. ASSUME NEW p \in Procs,
             \/ Repair(p) \/ ReadPrev(p) \/ WriteLine(p) \/ WriteFails(p)
             \/ WriteNewline(p) \/ NewlineFails(p)
      PROVE  LockInv'
  <2>1. /\ UNCHANGED lockFile /\ pc[p] \in {"repair", "read", "write", "newline"}
        /\ \E place \in {"read", "write", "newline", "unlock"} :
             pc' = [pc EXCEPT ![p] = place]
    BY <1>6 DEF Repair, ReadPrev, WriteLine, WriteFails, WriteNewline, NewlineFails
  <2>2. QED
    BY <2>1 DEF LockInv, Holds, Places
<1>7. ASSUME NEW p \in Procs, Tick(p) \/ Stop(p) \/ Kill(p) PROVE LockInv'
  BY <1>7 DEF Tick, Stop, Kill, LockInv, Holds, Places
<1>8. CASE LockAges
  <2>1. /\ lockFile \in Locks /\ lockFile' = [lockFile EXCEPT !.old = TRUE] /\ UNCHANGED pc
    BY <1>8 DEF LockAges, LockInv
  <2>2. lockFile' \in Locks /\ lockFile'.owner = lockFile.owner /\ lockFile'.old
    BY <2>1 DEF Locks
  <2>3. ~Holds(lockFile.owner)
    BY <1>8, <2>2, NoLockAssumption DEF LockAges, HoldersArePrompt
  <2>4. \A p \in Procs : ~Holds(p)
    BY <2>3 DEF LockInv
  <2>5. QED
    BY <2>1, <2>2, <2>4 DEF LockInv, Holds
<1>9. CASE UNCHANGED vars
  BY <1>9 DEF vars, LockInv, Holds
<1>10. QED
  BY <1>1, <1>2, <1>3, <1>4, <1>5, <1>6, <1>7, <1>8, <1>9
  DEF Next, AppendStep, Quiet

LEMMA LockExcludes == LockInv => OneHolder
BY DEF LockInv, OneHolder

Dead(p) == At(p, "gone") /\ p \in Killable

\* Where tokens are written, a lock is left behind, and gets old, only by a death.
LeftInv ==
  lockFile # NoLock =>
    /\ lockFile.token
    /\ Dead(lockFile.owner) \/ (Holds(lockFile.owner) /\ ~lockFile.old)

LEMMA NextLeft ==
  ASSUME LockInv, LeftInv, HoldersArePrompt, TokensAreWritten, [Next]_vars
  PROVE  LeftInv'
<1>. USE DEF At, Goto
<1>1. ASSUME NEW p \in Procs, TryLock(p) PROVE LeftInv'
  <2>1. CASE lockFile = NoLock
    <3>1. \/ lockFile' = NoLock
          \/ lockFile'.owner = p /\ ~lockFile'.old /\ pc' = [pc EXCEPT ![p] = "repair"]
      BY <1>1, <2>1, LockTaken
    <3>2. lockFile' # NoLock => lockFile'.token
      BY DEF TokensAreWritten
    <3>3. CASE lockFile' = NoLock
      BY <3>3 DEF LeftInv
    <3>4. CASE lockFile'.owner = p /\ ~lockFile'.old /\ pc' = [pc EXCEPT ![p] = "repair"]
      <4>1. pc'[p] = "repair"
        BY <3>4 DEF LockInv
      <4>2. QED
        BY <3>2, <3>4, <4>1 DEF LeftInv, Holds
    <3>5. QED
      BY <3>1, <3>3, <3>4
  <2>2. CASE lockFile # NoLock
    <3>1. UNCHANGED lockFile /\ pc[p] = "lock" /\ pc' = [pc EXCEPT ![p] = "stat"]
      BY <1>1, <2>2 DEF TryLock, LockIsFree
    <3>2. lockFile.owner # p
      BY <2>2, <3>1 DEF LeftInv, Dead, Holds
    <3>3. QED
      BY <3>1, <3>2 DEF LeftInv, LockInv, Dead, Holds
  <2>3. QED
    BY <2>1, <2>2
<1>2. ASSUME NEW p \in Procs, Tick(p) \/ Stat(p) \/ Stop(p) PROVE LeftInv'
  <2>1. /\ UNCHANGED lockFile /\ pc[p] \in {"idle", "stat"}
        /\ \E place \in Places : pc' = [pc EXCEPT ![p] = place]
    BY <1>2 DEF Tick, Stat, Stop, Places
  <2>2. lockFile # NoLock => lockFile.owner # p
    BY <2>1 DEF LeftInv, Dead, Holds
  <2>3. QED
    BY <2>1, <2>2 DEF LeftInv, LockInv, Dead, Holds
<1>3. ASSUME NEW p \in Procs, TakeOver(p) \/ Remove(p) PROVE LeftInv'
  BY <1>3 DEF TakeOver, Remove, LeftInv
<1>4. ASSUME NEW p \in Procs, Unlock(p) PROVE LeftInv'
  <2>1. lockFile # NoLock /\ lockFile.owner = p /\ lockFile.token
    BY <1>4 DEF Unlock, LockInv, LeftInv, Holds
  <2>2. UNCHANGED lockFile /\ pc' = [pc EXCEPT ![p] = "remove"] /\ ~lockFile.old
    BY <1>4, <2>1 DEF Unlock, HasTokenOf, LockInv, Holds
  <2>3. QED
    BY <2>1, <2>2 DEF LeftInv, LockInv, Holds
<1>5. ASSUME NEW p \in Procs,
             \/ Repair(p) \/ ReadPrev(p) \/ WriteLine(p) \/ WriteFails(p)
             \/ WriteNewline(p) \/ NewlineFails(p)
      PROVE  LeftInv'
  <2>1. /\ UNCHANGED lockFile /\ pc[p] \in {"repair", "read", "write", "newline"}
        /\ \E place \in {"read", "write", "newline", "unlock"} :
             pc' = [pc EXCEPT ![p] = place]
    BY <1>5 DEF Repair, ReadPrev, WriteLine, WriteFails, WriteNewline, NewlineFails
  <2>2. QED
    BY <2>1 DEF LeftInv, LockInv, Dead, Holds
<1>6. ASSUME NEW p \in Procs, Kill(p) PROVE LeftInv'
  <2>1. UNCHANGED lockFile /\ p \in Killable /\ pc' = [pc EXCEPT ![p] = "gone"]
    BY <1>6 DEF Kill
  <2>2. QED
    BY <2>1 DEF LeftInv, LockInv, Dead, Holds
<1>7. CASE LockAges
  <2>1. /\ lockFile \in Locks /\ lockFile # NoLock /\ ~lockFile.old
        /\ lockFile' = [lockFile EXCEPT !.old = TRUE] /\ UNCHANGED pc
    BY <1>7 DEF LockAges, LockInv
  <2>2. lockFile' \in Locks /\ lockFile'.old /\ lockFile'.owner = lockFile.owner
    BY <2>1 DEF Locks
  <2>3. ~Holds(lockFile.owner) /\ lockFile'.token
    BY <2>1, <2>2, NoLockAssumption DEF HoldersArePrompt, TokensAreWritten
  <2>4. QED
    BY <2>1, <2>2, <2>3 DEF LeftInv, Dead
<1>8. CASE UNCHANGED vars
  BY <1>8 DEF vars, LeftInv, Dead, Holds
<1>9. QED
  BY <1>1, <1>2, <1>3, <1>4, <1>5, <1>6, <1>7, <1>8 DEF Next, AppendStep, Quiet

Two == \A p, q, r \in Procs : p = q \/ q = r \/ p = r

\* Of two processes, one that is about to rename is alone: the lock is the dead
\* other's, and nobody creates another before the rename.
AloneInv ==
  \A p \in Procs : At(p, "rename") => lockFile # NoLock /\ lockFile.old /\ lockFile.owner # p

LEMMA NextAlone ==
  ASSUME Two \/ Killable = {}, LockInv, LeftInv, AloneInv, [Next]_vars
  PROVE  AloneInv' /\ RenamesTheStale
<1>. USE DEF At, Goto
<1>1. RenamesTheStale
  BY DEF RenamesTheStale, AloneInv
<1>2. ASSUME NEW p \in Procs, Tick(p) \/ AppendStep(p) \/ Stop(p) \/ Kill(p) PROVE AloneInv'
  <2>1. /\ pc[p] # "gone"
        /\ \E place \in Places : pc' = [pc EXCEPT ![p] = place]
        /\ pc'[p] = "rename" => Stat(p) /\ Stale
    BY <1>2 DEF Tick, AppendStep, Stop, Kill, TryLock, Stat, TakeOver, Repair, ReadPrev,
       WriteLine, WriteFails, WriteNewline, NewlineFails, Unlock, Remove, LockInv, Places
  <2>2. lockFile # NoLock /\ lockFile.old =>
          /\ lockFile.owner \in Procs /\ pc[lockFile.owner] = "gone" /\ Two
    BY DEF LeftInv, Dead, LockInv, Locks
  <2>3. ASSUME NEW q \in Procs, pc'[q] = "rename"
        PROVE  lockFile' # NoLock /\ lockFile'.old /\ lockFile'.owner # q
    <3>1. CASE q = p
      <4>1. lockFile # NoLock /\ lockFile.old /\ lockFile' = lockFile
        BY <2>1, <2>3, <3>1 DEF Stat, Stale
      <4>2. QED
        BY <2>1, <2>2, <3>1, <4>1
    <3>2. CASE q # p
      <4>1. lockFile # NoLock /\ lockFile.old /\ lockFile.owner # q
        BY <2>1, <2>3, <3>2 DEF AloneInv, LockInv
      <4>2. lockFile.owner = p
        BY <2>2, <3>2, <4>1 DEF Two
      <4>3. QED
        BY <2>1, <2>2, <4>1, <4>2
    <3>3. QED
      BY <3>1, <3>2
  <2>4. QED
    BY <2>3 DEF AloneInv
<1>3. CASE LockAges
  <2>1. lockFile # NoLock /\ ~lockFile.old /\ UNCHANGED pc
    BY <1>3 DEF LockAges
  <2>2. QED
    BY <1>1, <2>1 DEF AloneInv
<1>4. CASE UNCHANGED vars
  BY <1>1, <1>4 DEF vars, AloneInv
<1>5. QED
  BY <1>1, <1>2, <1>3, <1>4 DEF Next, Quiet

\* The conditions on a step under which no lock is left behind but by a death.
Prompt == HoldersArePrompt /\ TokensAreWritten

LEMMA StepsAlone ==
  ASSUME Two \/ Killable = {}
  PROVE  LockInv /\ LeftInv /\ AloneInv /\ [Next /\ Prompt]_vars
           => LockInv' /\ LeftInv' /\ AloneInv' /\ RenamesTheStale
<1>1. ASSUME LockInv, LeftInv, AloneInv, Next, Prompt
      PROVE  LockInv' /\ LeftInv' /\ AloneInv' /\ RenamesTheStale
  BY <1>1, NextLock, NextLeft, NextAlone DEF Prompt
<1>2. ASSUME LockInv, LeftInv, AloneInv, UNCHANGED vars
      PROVE  LockInv' /\ LeftInv' /\ AloneInv' /\ RenamesTheStale
  <2>1. AloneInv' /\ RenamesTheStale
    BY <1>2, NextAlone
  <2>2. LockInv' /\ LeftInv'
    BY <1>2 DEF vars, LockInv, LeftInv, Dead, Holds, At
  <2>3. QED
    BY <2>1, <2>2
<1>3. QED
  BY <1>1, <1>2

LEMMA InitAlone == Init => LockInv /\ LeftInv /\ AloneInv
BY InitLock DEF Init, LeftInv, AloneInv, At

\* Wherever processes die, and whether or not their locks have their tokens, one
\* process at a time appends, if appends are prompt and a rename takes the lock
\* that was found stale (AnchorLock::acquire and its Drop).
THEOREM HolderIsAlone ==
  Init /\ [][Next /\ HoldersArePrompt /\ RenamesTheStale]_vars => []OneHolder
<1>1. LockInv /\ [Next /\ HoldersArePrompt /\ RenamesTheStale]_vars => LockInv'
  <2>1. ASSUME LockInv, UNCHANGED vars PROVE LockInv'
    BY <2>1 DEF LockInv, vars, Holds, At
  <2>2. QED
    BY <2>1, NextLock
<1>2. QED
  BY InitLock, LockExcludes, <1>1, PTL

\* Of two processes, either of which may die anywhere and the other break its
\* lock, one at a time appends whatever a rename takes, if appends are prompt and
\* each lock that is taken gets its token.
THEOREM SurvivorIsAlone ==
  ASSUME Two
  PROVE  Init /\ [][Next /\ Prompt]_vars => []OneHolder
<1>1. LockInv /\ LeftInv /\ AloneInv /\ [Next /\ Prompt]_vars
        => LockInv' /\ LeftInv' /\ AloneInv'
  BY StepsAlone
<1>2. QED
  BY InitAlone, LockExcludes, <1>1, PTL
-----------------------------------------------------------------------------
(* Types. *)

LEMMA InitTypes == Init => TypeOK
<1>. SUFFICES ASSUME Init PROVE TypeOK
  OBVIOUS
<1>. USE EntriesAssumption DEF Init
<1>1. \A i \in 1..OldEntries : Entry(i - 1, i) \in Pieces({"entry", "garbage"})
  BY DEF Entry, Pieces
<1>2. lines \in Seq(Pieces({"entry", "garbage"}))
  BY <1>1, SeqDef
<1>3. tail \in Seq(Pieces({"entry", "fragment"}))
  BY EmptySeq
<1>4. QED
  BY <1>2, <1>3 DEF TypeOK

\* What a write adds is a piece, and so are, still, the pieces before it.
LEMMA MorePieces ==
  ASSUME NEW kinds, NEW s \in Seq(Pieces(kinds)), made \in Nat, made' = made + 1
  PROVE  s \in Seq(Pieces(kinds)')
<1>1. Pieces(kinds) \subseteq Pieces(kinds)'
  BY DEF Pieces
<1>2. QED
  BY <1>1

LEMMA NextTypes == TypeOK /\ [Next]_vars => TypeOK'
<1> SUFFICES ASSUME TypeOK, [Next]_vars PROVE TypeOK'
  OBVIOUS
<1>. DEFINE Whole == Pieces({"entry", "garbage"})
            Torn == Pieces({"entry", "fragment"})
<1>. USE DEF TypeOK, Goto, At
<1>1. ASSUME NEW p \in Procs,
             \/ Tick(p) \/ TryLock(p) \/ Stat(p) \/ TakeOver(p) \/ Unlock(p)
             \/ Remove(p) \/ NewlineFails(p) \/ Stop(p)
      PROVE  TypeOK'
  <2>1. UNCHANGED <<lines, tail, made, prev>>
    BY <1>1 DEF Tick, TryLock, Stat, TakeOver, Unlock, Remove, NewlineFails, Stop
  <2>2. Whole' = Whole /\ Torn' = Torn
    BY <2>1 DEF Pieces
  <2>3. lockFile' \in Locks \cup {NoLock}
    <3>1. \/ lockFile' \in {lockFile, NoLock}
          \/ \E written \in BOOLEAN : lockFile' = [owner |-> p, token |-> written, old |-> FALSE]
      BY <1>1 DEF Tick, TryLock, Stat, TakeOver, Unlock, Remove, NewlineFails, Stop
    <3>2. QED
      BY <3>1, NewLock
  <2>4. pc' \in [Procs -> {"idle", "lock", "stat", "rename", "repair", "read", "write",
                          "newline", "unlock", "remove", "gone"}]
    BY <1>1 DEF Tick, TryLock, Stat, TakeOver, Unlock, Remove, NewlineFails, Stop
  <2>5. QED
    BY <2>1, <2>2, <2>3, <2>4
<1>2. ASSUME NEW p \in Procs, Repair(p) PROVE TypeOK'
  <2>1. UNCHANGED <<lines, made, lockFile, prev>>
    BY <1>2 DEF Repair, RepairedLines
  <2>2. tail' \in Seq(Torn)
    BY <1>2, EmptySeq DEF Repair, RepairedTail
  <2>3. Whole' = Whole /\ Torn' = Torn
    BY <2>1 DEF Pieces
  <2>4. QED
    BY <1>2, <2>1, <2>2, <2>3 DEF Repair
<1>3. ASSUME NEW p \in Procs, ReadPrev(p) PROVE TypeOK'
  <2>1. UNCHANGED <<lines, tail, made, lockFile>>
    BY <1>3 DEF ReadPrev
  <2>2. Whole' = Whole /\ Torn' = Torn
    BY <2>1 DEF Pieces
  <2>3. lines # <<>> => lines[Len(lines)] \in Whole
    BY ElementOfSeq, EmptySeq, LenProperties
  <2>4. lines # <<>> => lines[Len(lines)].hmac \in 0..made
    BY <2>3 DEF Pieces
  <2>5. prev' \in [Procs -> 0..made]
    BY <1>3, <2>4 DEF ReadPrev
  <2>6. QED
    BY <1>3, <2>1, <2>2, <2>5 DEF ReadPrev
<1>4. ASSUME NEW p \in Procs, WriteLine(p) \/ WriteFails(p) PROVE TypeOK'
  <2>1. UNCHANGED <<lines, lockFile, prev>> /\ made' = made + 1
    BY <1>4 DEF WriteLine, WriteFails
  <2>2. lines' \in Seq(Whole') /\ tail \in Seq(Torn')
    BY <2>1, MorePieces
  <2>3. Entry(prev[p], made') \in Torn' /\ Fragment \in Torn'
    BY <2>1 DEF Pieces, Entry, Fragment
  <2>4. Append(tail, Entry(prev[p], made')) \in Seq(Torn') /\ Append(tail, Fragment) \in Seq(Torn')
    BY <2>2, <2>3, AppendProperties
  <2>5. tail' \in Seq(Torn')
    BY <1>4, <2>2, <2>4 DEF WriteLine, WriteFails
  <2>6. prev' \in [Procs -> 0..made'] /\ made' \in Nat
    BY <2>1
  <2>7. pc' \in [Procs -> {"idle", "lock", "stat", "rename", "repair", "read", "write",
                          "newline", "unlock", "remove", "gone"}]
    BY <1>4 DEF WriteLine, WriteFails
  <2>8. QED
    BY <2>1, <2>2, <2>5, <2>6, <2>7
<1>5. ASSUME NEW p \in Procs, WriteNewline(p) PROVE TypeOK'
  <2>1. UNCHANGED <<made, lockFile, prev>> /\ tail' = <<>>
    BY <1>5 DEF WriteNewline
  <2>2. Whole' = Whole /\ Torn' = Torn
    BY <2>1 DEF Pieces
  <2>3. Garbage \in Whole
    BY DEF Garbage, Pieces
  <2>4. Len(tail) = 1 /\ tail[1].kind = "entry" => tail = <<tail[1]>> /\ tail[1] \in Whole
    <3>1. SUFFICES ASSUME Len(tail) = 1, tail[1].kind = "entry"
                   PROVE  tail = <<tail[1]>> /\ tail[1] \in Whole
      OBVIOUS
    <3>2. tail[1] \in Torn
      <4>1. tail \in Seq(Torn) /\ 1 \in 1..Len(tail)
        BY <3>1
      <4>2. QED
        BY <4>1, ElementOfSeq
    <3>3. QED
      BY <3>1, <3>2 DEF Pieces
  <2>5. Terminated(tail) \in Seq(Whole)
    <3>1. CASE tail = <<>>
      BY <3>1, EmptySeq DEF Terminated
    <3>2. CASE Len(tail) = 1 /\ tail[1].kind = "entry"
      <4>1. <<tail[1]>> \in Seq(Whole)
        BY <2>4, <3>2
      <4>2. QED
        BY <2>4, <3>2, <4>1 DEF Terminated
    <3>3. CASE tail # <<>> /\ ~(Len(tail) = 1 /\ tail[1].kind = "entry")
      <4>1. <<Garbage>> \in Seq(Whole)
        BY <2>3
      <4>2. QED
        BY <3>3, <4>1 DEF Terminated
    <3>4. QED
      BY <3>1, <3>2, <3>3
  <2>6. lines' \in Seq(Whole)
    BY <1>5, <2>5, ConcatProperties DEF WriteNewline
  <2>7. tail' \in Seq(Torn)
    BY <2>1, EmptySeq
  <2>8. QED
    BY <1>5, <2>1, <2>2, <2>6, <2>7 DEF WriteNewline
<1>6. ASSUME NEW p \in Procs, Kill(p) PROVE TypeOK'
  <2>1. UNCHANGED <<lines, made, lockFile, prev>>
    BY <1>6 DEF Kill
  <2>2. Whole' = Whole /\ Torn' = Torn
    BY <2>1 DEF Pieces
  <2>3. Fragment \in Torn
    BY DEF Fragment, Pieces
  <2>4. Append(tail, Fragment) \in Seq(Torn)
    BY <2>3, AppendProperties
  <2>5. tail' \in Seq(Torn)
    BY <1>6, <2>4 DEF Kill
  <2>6. QED
    BY <1>6, <2>1, <2>2, <2>5 DEF Kill
<1>7. CASE LockAges
  <2>1. UNCHANGED <<lines, tail, made, pc, prev>>
    BY <1>7 DEF LockAges
  <2>2. Whole' = Whole /\ Torn' = Torn
    BY <2>1 DEF Pieces
  <2>3. lockFile' \in Locks
    BY <1>7 DEF LockAges, Locks
  <2>4. QED
    BY <2>1, <2>2, <2>3
<1>8. CASE UNCHANGED vars
  BY <1>8 DEF vars, Pieces
<1>9. QED
  BY <1>1, <1>2, <1>3, <1>4, <1>5, <1>6, <1>7, <1>8 DEF Next, AppendStep, Quiet

\* Whatever tears a line or kills a writer, the file is lines of entries and
\* of garbage, then a rest without its newline, and no process chains from an
\* entry that was never made.
THEOREM TypeCorrect == Spec => []TypeOK
BY InitTypes, NextTypes, PTL DEF Spec
-----------------------------------------------------------------------------
(* The chain of the entries. *)

Whole == Pieces({"entry", "garbage"})

Linked(s) ==
  \A i \in 1..Len(s) :
    /\ s[i].kind = "entry"
    /\ s[i].prev = IF i = 1 THEN 0 ELSE s[i - 1].hmac

\* The last entry that has its newline.
LastHmac == lines[Len(lines)].hmac

\* The tail is one entry, which chains from the last line.
TailIsNext == Len(tail) = 1 /\ tail[1].kind = "entry" /\ tail[1].prev = LastHmac

\* The lines are a chain, of at least the line that repairs cut back to; the
\* tail is nothing, the next entry, or the beginning of one; and who is about
\* to write has an empty tail and the last entry before it.
ChainInv ==
  /\ lines # <<>>
  /\ Linked(lines)
  /\ tail = <<>> \/ TailIsNext \/ (Len(tail) = 1 /\ tail[1].kind = "fragment")
  /\ \A p \in Procs : pc[p] \in {"read", "write"} => tail = <<>>
  /\ \A p \in Procs : At(p, "write") => prev[p] = LastHmac
  /\ \A p \in Procs : At(p, "newline") => TailIsNext

LEMMA TailIsWhole ==
  ASSUME TypeOK, Len(tail) = 1, tail[1].kind = "entry"
  PROVE  tail \in Seq(Whole)
<1>1. tail = <<tail[1]>>
  BY DEF TypeOK
<1>2. tail[1] \in Pieces({"entry", "fragment"})
  <2>1. tail \in Seq(Pieces({"entry", "fragment"})) /\ 1 \in 1..Len(tail)
    BY DEF TypeOK
  <2>2. QED
    BY <2>1, ElementOfSeq
<1>3. tail[1] \in Whole
  BY <1>2 DEF Pieces, Whole
<1>4. <<tail[1]>> \in Seq(Whole)
  BY <1>3
<1>5. QED
  BY <1>1, <1>4

LEMMA LinkedConcat ==
  ASSUME TypeOK, lines # <<>>, Linked(lines), TailIsNext
  PROVE  Linked(lines \o tail)
<1>1. lines \in Seq(Whole) /\ tail \in Seq(Whole)
  BY TailIsWhole DEF TypeOK, Whole, TailIsNext
<1>2. Len(lines) \in Nat \ {0}
  BY <1>1, EmptySeq
<1>3. /\ Len(lines \o tail) = Len(lines) + 1
      /\ \A i \in 1..Len(lines) + 1 :
           (lines \o tail)[i] = IF i <= Len(lines) THEN lines[i] ELSE tail[i - Len(lines)]
  BY <1>1, ConcatProperties DEF TailIsNext
<1>4. ASSUME NEW i \in 1..Len(lines) + 1
      PROVE  /\ (lines \o tail)[i].kind = "entry"
             /\ (lines \o tail)[i].prev = IF i = 1 THEN 0 ELSE (lines \o tail)[i - 1].hmac
  <2>1. CASE i \in 1..Len(lines)
    BY <1>2, <1>3, <2>1 DEF Linked
  <2>2. CASE i = Len(lines) + 1
    <3>1. (lines \o tail)[i] = tail[1]
      BY <1>2, <1>3, <2>2
    <3>2. i # 1 /\ (lines \o tail)[i - 1] = lines[Len(lines)]
      BY <1>2, <1>3, <2>2
    <3>3. QED
      BY <3>1, <3>2 DEF TailIsNext, LastHmac
  <2>3. i \in 1..Len(lines) \/ i = Len(lines) + 1
    BY <1>2
  <2>4. QED
    BY <2>1, <2>2, <2>3
<1>5. QED
  BY <1>3, <1>4 DEF Linked

LEMMA InitChain == ASSUME OldEntries # 0, Init PROVE ChainInv
<1>. USE EntriesAssumption DEF Init
<1>1. lines \in Seq(Whole)
  BY InitTypes DEF TypeOK, Whole
<1>2. DOMAIN lines = 1..OldEntries /\ Len(lines) = OldEntries
  BY <1>1, LenProperties
<1>3. lines # <<>>
  BY <1>1, <1>2, EmptySeq
<1>4. Linked(lines)
  BY <1>2 DEF Linked, Entry
<1>5. QED
  BY <1>3, <1>4 DEF ChainInv, At

LEMMA NextChain ==
  ASSUME TypeOK, LockInv, ChainInv, [Next]_vars
  PROVE  ChainInv'
<1>. USE DEF ChainInv, At, Goto
<1>1. ASSUME NEW p \in Procs,
             \/ Tick(p) \/ TryLock(p) \/ Stat(p) \/ TakeOver(p) \/ Unlock(p)
             \/ Remove(p) \/ NewlineFails(p) \/ Stop(p)
      PROVE  ChainInv'
  <2>1. UNCHANGED <<lines, tail, prev>>
    BY <1>1 DEF Tick, TryLock, Stat, TakeOver, Unlock, Remove, NewlineFails, Stop
  <2>2. \E place \in Places \ {"read", "write", "newline"} : pc' = [pc EXCEPT ![p] = place]
    BY <1>1 DEF Tick, TryLock, Stat, TakeOver, Unlock, Remove, NewlineFails, Stop, Places
  <2>3. \A q \in Procs : pc'[q] \in {"read", "write", "newline"} => pc'[q] = pc[q]
    BY <2>2 DEF TypeOK
  <2>4. Linked(lines)' /\ (TailIsNext' <=> TailIsNext) /\ LastHmac' = LastHmac
    BY <2>1 DEF Linked, TailIsNext, LastHmac
  <2>5. QED
    BY <2>1, <2>3, <2>4
<1>2. ASSUME NEW p \in Procs,
             \/ Repair(p) \/ ReadPrev(p) \/ WriteLine(p) \/ WriteFails(p)
             \/ WriteNewline(p)
      PROVE  ChainInv'
  <2>1. \A q \in Procs : pc[q] \in {"read", "write", "newline"} => q = p
    BY <1>2 DEF LockInv, Holds, Repair, ReadPrev, WriteLine, WriteFails, WriteNewline
  <2>2. \A q \in Procs : q # p => pc'[q] \notin {"read", "write", "newline"}
    BY <1>2, <2>1 DEF Repair, ReadPrev, WriteLine, WriteFails, WriteNewline, TypeOK
  <2>3. CASE Repair(p)
    <3>1. lines' = lines /\ tail' = <<>> /\ pc'[p] = "read"
      BY <2>3 DEF Repair, RepairedLines, RepairedTail, TypeOK
    <3>2. Linked(lines)'
      BY <3>1 DEF Linked
    <3>3. QED
      BY <2>2, <3>1, <3>2
  <2>4. CASE ReadPrev(p)
    <3>1. UNCHANGED <<lines, tail>> /\ tail = <<>>
      BY <2>4 DEF ReadPrev
    <3>2. \/ pc'[p] = "write" /\ prev'[p] = LastHmac
          \/ pc'[p] = "unlock"
      BY <2>4 DEF ReadPrev, LastHmac, TypeOK
    <3>3. Linked(lines)' /\ LastHmac' = LastHmac
      BY <3>1 DEF Linked, LastHmac
    <3>4. QED
      BY <2>2, <3>1, <3>2, <3>3
  <2>5. CASE WriteLine(p)
    <3>1. lines' = lines /\ prev[p] = LastHmac /\ pc'[p] = "newline"
      BY <2>5 DEF WriteLine, TypeOK
    <3>2. tail' = <<Entry(LastHmac, made')>>
      <4>1. tail = <<>> /\ tail' = Append(tail, Entry(prev[p], made'))
        BY <2>5 DEF WriteLine
      <4>2. QED
        BY <3>1, <4>1
    <3>3. Linked(lines)' /\ LastHmac' = LastHmac
      BY <3>1 DEF Linked, LastHmac
    <3>4. TailIsNext'
      BY <3>2, <3>3 DEF TailIsNext, Entry
    <3>5. QED
      BY <2>2, <3>1, <3>3, <3>4
  <2>6. CASE WriteFails(p)
    <3>1. lines' = lines /\ pc'[p] = "unlock"
      BY <2>6 DEF WriteFails, TypeOK
    <3>2. tail' = <<>> \/ tail' = <<Fragment>>
      <4>1. tail = <<>> /\ tail' \in {tail, Append(tail, Fragment)}
        BY <2>6 DEF WriteFails
      <4>2. QED
        BY <4>1
    <3>3. Linked(lines)'
      BY <3>1 DEF Linked
    <3>4. QED
      BY <2>2, <3>1, <3>2, <3>3 DEF Fragment
  <2>7. CASE WriteNewline(p)
    <3>1. TailIsNext /\ pc'[p] = "unlock" /\ tail' = <<>>
      BY <2>7 DEF WriteNewline, TypeOK
    <3>2. lines' = lines \o tail
      BY <2>7, <3>1 DEF WriteNewline, Terminated, TailIsNext
    <3>3. Linked(lines \o tail)
      BY <3>1, LinkedConcat
    <3>4. Linked(lines)'
      BY <3>2, <3>3 DEF Linked
    <3>5. lines' # <<>>
      <4>1. lines \in Seq(Whole) /\ tail \in Seq(Whole)
        BY <3>1, TailIsWhole DEF TypeOK, Whole, TailIsNext
      <4>2. Len(lines \o tail) = Len(lines) + Len(tail) /\ Len(lines) \in Nat
        BY <4>1, ConcatProperties, LenProperties
      <4>3. QED
        BY <3>1, <3>2, <4>2 DEF TailIsNext
    <3>6. QED
      BY <2>2, <3>1, <3>4, <3>5
  <2>8. QED
    BY <1>2, <2>3, <2>4, <2>5, <2>6, <2>7
<1>3. ASSUME NEW p \in Procs, Kill(p) PROVE ChainInv'
  <2>1. /\ UNCHANGED <<lines, prev>> /\ pc' = [pc EXCEPT ![p] = "gone"]
        /\ tail' = tail \/ (pc[p] = "write" /\ tail' = Append(tail, Fragment))
    BY <1>3 DEF Kill
  <2>2. Linked(lines)' /\ LastHmac' = LastHmac
    BY <2>1 DEF Linked, LastHmac
  <2>3. \A q \in Procs : pc'[q] \in {"read", "write", "newline"} => q # p /\ pc'[q] = pc[q]
    BY <2>1 DEF TypeOK
  <2>4. CASE tail' = tail
    <3>1. TailIsNext' <=> TailIsNext
      BY <2>2, <2>4 DEF TailIsNext
    <3>2. QED
      BY <2>1, <2>2, <2>3, <2>4, <3>1
  <2>5. CASE pc[p] = "write" /\ tail' = Append(tail, Fragment)
    <3>1. tail' = <<Fragment>>
      <4>1. tail = <<>>
        BY <2>5
      <4>2. QED
        BY <2>5, <4>1
    <3>2. \A q \in Procs : pc[q] \in {"read", "write", "newline"} => q = p
      BY <2>5 DEF LockInv, Holds
    <3>3. Len(tail') = 1 /\ tail'[1].kind = "fragment"
      BY <3>1 DEF Fragment
    <3>4. QED
      BY <2>1, <2>2, <2>3, <3>2, <3>3
  <2>6. QED
    BY <2>1, <2>4, <2>5
<1>4. CASE LockAges \/ UNCHANGED vars
  <2>1. UNCHANGED <<lines, tail, prev, pc>>
    BY <1>4 DEF LockAges, vars
  <2>2. QED
    BY <2>1 DEF Linked, TailIsNext, LastHmac
<1>5. QED
  BY <1>1, <1>2, <1>3, <1>4 DEF Next, AppendStep, Quiet

LEMMA ChainVerifies == ASSUME TypeOK, ChainInv PROVE AnchorVerifies
<1>1. CASE Len(tail) = 1 /\ tail[1].kind = "entry"
  <2>1. TailIsNext
    BY <1>1, EmptySeq DEF ChainInv, TailIsNext
  <2>2. Entries = lines \o tail /\ Linked(lines \o tail)
    BY <1>1, <2>1, LinkedConcat DEF Entries, ChainInv
  <2>3. lines \o tail \in Seq(Whole)
    BY <1>1, TailIsWhole, ConcatProperties DEF TypeOK, Whole
  <2>4. DOMAIN Entries = 1..Len(lines \o tail)
    BY <2>2, <2>3, LenProperties
  <2>5. QED
    BY <2>2, <2>4 DEF AnchorVerifies, Linked
<1>2. CASE ~(Len(tail) = 1 /\ tail[1].kind = "entry")
  <2>1. lines \in Seq(Whole)
    BY DEF TypeOK, Whole
  <2>2. Entries = lines
    BY <1>2, <2>1, ConcatEmptySeq DEF Entries
  <2>3. DOMAIN Entries = 1..Len(lines)
    BY <2>1, <2>2, LenProperties
  <2>4. QED
    BY <2>2, <2>3 DEF AnchorVerifies, ChainInv, Linked
<1>3. QED
  BY <1>1, <1>2

LEMMA StepsVerify ==
  ASSUME TypeOK, LockInv, ChainInv, HoldersArePrompt, RenamesTheStale, [Next]_vars
  PROVE  TypeOK' /\ LockInv' /\ ChainInv'
BY NextTypes, NextLock, NextChain

LEMMA StutterVerifies ==
  ASSUME TypeOK, LockInv, ChainInv, UNCHANGED vars
  PROVE  TypeOK' /\ LockInv' /\ ChainInv'
<1>1. LockInv'
  BY DEF LockInv, vars, Holds, At
<1>2. QED
  BY <1>1, NextTypes, NextChain

\* Wherever processes die and writes fail, be it that of the token, an anchor
\* with a first line stays verifiable, if appends are prompt and a rename takes
\* the lock that was found stale.
THEOREM AnchorStaysVerifiable ==
  ASSUME OldEntries # 0
  PROVE  Init /\ [][Next /\ HoldersArePrompt /\ RenamesTheStale]_vars => []AnchorVerifies
<1> DEFINE Inv == TypeOK /\ LockInv /\ ChainInv
<1>1. Init => Inv
  BY InitTypes, InitLock, InitChain
<1>2. Inv /\ [Next /\ HoldersArePrompt /\ RenamesTheStale]_vars => Inv'
  BY StepsVerify, StutterVerifies
<1>3. Inv => AnchorVerifies
  BY ChainVerifies
<1>4. QED
  BY <1>1, <1>2, <1>3, PTL

LEMMA AloneStepsVerify ==
  ASSUME Two \/ Killable = {}
  PROVE  TypeOK /\ LockInv /\ ChainInv /\ LeftInv /\ AloneInv /\ [Next /\ Prompt]_vars
           => (TypeOK /\ LockInv /\ ChainInv /\ LeftInv /\ AloneInv)'
BY StepsAlone, StepsVerify, StutterVerifies DEF Prompt

\* Two processes keep an anchor with a first line verifiable, though either is
\* killed anywhere, even in the middle of a line, and the other breaks its lock,
\* if appends are prompt and each lock that is taken gets its token.
THEOREM SurvivorKeepsTheChain ==
  ASSUME Two, OldEntries # 0
  PROVE  Init /\ [][Next /\ Prompt]_vars => []AnchorVerifies
<1> DEFINE Inv == TypeOK /\ LockInv /\ ChainInv /\ LeftInv /\ AloneInv
<1>1. Init => Inv
  BY InitTypes, InitChain, InitAlone
<1>2. Inv /\ [Next /\ Prompt]_vars => Inv'
  BY AloneStepsVerify
<1>3. Inv => AnchorVerifies
  BY ChainVerifies
<1>4. QED
  BY <1>1, <1>2, <1>3, PTL

\* Any number of processes keep it so, and one at a time appends, as long as none
\* is killed, appends are prompt and each lock that is taken gets its token.
THEOREM ContendersKeepTheChain ==
  ASSUME Killable = {}, OldEntries # 0
  PROVE  Init /\ [][Next /\ Prompt]_vars => []OneHolder /\ []AnchorVerifies
<1> DEFINE Inv == TypeOK /\ LockInv /\ ChainInv /\ LeftInv /\ AloneInv
<1>1. Init => Inv
  BY InitTypes, InitChain, InitAlone
<1>2. Inv /\ [Next /\ Prompt]_vars => Inv'
  BY AloneStepsVerify
<1>3. Inv => OneHolder /\ AnchorVerifies
  BY ChainVerifies, LockExcludes
<1>4. QED
  BY <1>1, <1>2, <1>3, PTL
=============================================================================
