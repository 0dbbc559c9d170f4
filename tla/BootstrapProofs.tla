-------------------------- MODULE BootstrapProofs ---------------------------
(***************************************************************************)
(* Theorems about Bootstrap, for any number of processes that start, fail  *)
(* and are killed in any order: TypeOK, the key of an established chain    *)
(* (KeyInv without resets; AloneInv, FreshInv and HeldInv with resets that *)
(* run on their own), the one chain of those who start together (AloneInv  *)
(* and ChainInv), and what a failed genesis leaves (ConnInv).              *)
(***************************************************************************)
EXTENDS Bootstrap, TLAPS

LEMMA InitTypes == Init => TypeOK
BY KeyFilesAssumption DEF Init, TypeOK, Keys

LEMMA NextTypes == TypeOK /\ [Next]_vars => TypeOK'
<1> SUFFICES ASSUME TypeOK, [Next]_vars PROVE TypeOK'
  OBVIOUS
<1>. USE DEF TypeOK, Goto, At
<1>1. ASSUME NEW p \in Procs, Launch(p) PROVE TypeOK'
  BY <1>1 DEF Launch
<1>2. ASSUME NEW p \in Procs, ResetDb(p) PROVE TypeOK'
  BY <1>2 DEF ResetDb, AfterReset, ResetOrder
<1>3. ASSUME NEW p \in Procs, ResetKey(p) PROVE TypeOK'
  BY <1>3 DEF ResetKey, AfterReset, ResetOrder
<1>4. ASSUME NEW p \in Procs, CheckDb(p) PROVE TypeOK'
  BY <1>4 DEF CheckDb
<1>5. ASSUME NEW p \in Procs, Open(p) PROVE TypeOK'
  BY <1>5 DEF Open, OpenAs, Files
<1>6. ASSUME NEW p \in Procs, OpenFails(p) PROVE TypeOK'
  BY <1>6 DEF OpenFails, Files
<1>7. ASSUME NEW p \in Procs, LoadKey(p) PROVE TypeOK'
  BY <1>7 DEF LoadKey, Load, Parses
<1>8. ASSUME NEW p \in Procs, CreateKey(p) PROVE TypeOK'
  BY <1>8 DEF CreateKey, TornKeys
<1>9. ASSUME NEW p \in Procs, WriteKey(p) PROVE TypeOK'
  BY <1>9 DEF WriteKey, Keys
<1>10. ASSUME NEW p \in Procs, KeyFails(p) PROVE TypeOK'
  BY <1>10 DEF KeyFails
<1>11. ASSUME NEW p \in Procs, ReloadKey(p) PROVE TypeOK'
  BY <1>11 DEF ReloadKey, Load, Parses
<1>12. ASSUME NEW p \in Procs, Genesis(p) PROVE TypeOK'
  BY <1>12 DEF Genesis
<1>13. ASSUME NEW p \in Procs, GenesisFails(p) PROVE TypeOK'
  BY <1>13 DEF GenesisFails
<1>14. ASSUME NEW p \in Procs, Recover(p) PROVE TypeOK'
  BY <1>14 DEF Recover, AdoptClaimed, CleanUpOrder
<1>15. ASSUME NEW p \in Procs, Close(p) \/ Remove(p) PROVE TypeOK'
  BY <1>15 DEF Close, Remove, AfterCleanUp, CleanUpOrder
<1>16. ASSUME NEW p \in Procs, ReadMeta(p) PROVE TypeOK'
  BY <1>16 DEF ReadMeta, Refuse
<1>17. ASSUME NEW p \in Procs, Verify(p) PROVE TypeOK'
  BY <1>17 DEF Verify, Refuse, Parses
<1>18. ASSUME NEW p \in Procs, Spawn(p) PROVE TypeOK'
  BY <1>18 DEF Spawn, OpenAs, Files
<1>19. ASSUME NEW p \in Procs, End(p) PROVE TypeOK'
  BY <1>19 DEF End
<1>20. CASE UNCHANGED vars
  BY <1>20 DEF vars
<1>21. QED
  BY <1>1, <1>2, <1>3, <1>4, <1>5, <1>6, <1>7, <1>8, <1>9, <1>10, <1>11, <1>12, <1>13,
     <1>14, <1>15, <1>16, <1>17, <1>18, <1>19, <1>20 DEF Next, ProcStep, Settled

\* A key is loaded only if it is whole, so no process ever works with half a
\* key (KeyFile::load).
THEOREM TypeCorrect == Spec => []TypeOK
BY InitTypes, NextTypes, PTL DEF Spec
-----------------------------------------------------------------------------
(* The key of an established chain. *)

\* Without resets, the key file changes only while nobody relies on it: its
\* creator alone writes it, and who is about to write a genesis holds the key
\* that the file holds.
KeyInv ==
  /\ \A f \in Files : meta[f] \in {NoKey, keyFile}
  /\ \A p \in Procs : At(p, "genesis") => key[p] = keyFile /\ key[p] \in Keys
  /\ \A p \in Procs : At(p, "writeKey") => keyFile = Torn(p)
  /\ \A p \in Procs : ~At(p, "resetDb") /\ ~At(p, "resetKey")

LEMMA NextKey ==
  ASSUME TypeOK, KeyInv, ~Resets, [Next]_vars
  PROVE  KeyInv'
<1>. USE DEF TypeOK, KeyInv, Goto, At
<1>1. ASSUME NEW p \in Procs,
             \/ Launch(p) \/ ResetDb(p) \/ ResetKey(p) \/ CheckDb(p) \/ Open(p)
             \/ OpenFails(p) \/ KeyFails(p) \/ GenesisFails(p) \/ Recover(p)
             \/ Close(p) \/ Remove(p) \/ ReadMeta(p) \/ Spawn(p) \/ End(p)
      PROVE  KeyInv'
  <2>1. /\ UNCHANGED <<meta, keyFile, key>>
        /\ \E place \in {"check", "open", "loadKey", "readMeta", "refused", "cleanup",
                         "close", "unlink", "cleaned", "verify", "running", "ended"} :
             pc' = [pc EXCEPT ![p] = place]
    BY <1>1 DEF Launch, ResetDb, ResetKey, CheckDb, Open, OpenFails, KeyFails,
                GenesisFails, Recover, AdoptClaimed, CleanUpOrder, AfterCleanUp, Close, Remove,
                Refuse, ReadMeta, Spawn, End
  <2>2. QED
    BY <2>1
<1>2. ASSUME NEW p \in Procs, LoadKey(p) \/ ReloadKey(p) PROVE KeyInv'
  <2>1. UNCHANGED <<meta, keyFile>>
    BY <1>2 DEF LoadKey, ReloadKey
  <2>2. CASE /\ keyFile \in Keys /\ key' = [key EXCEPT ![p] = keyFile]
             /\ pc' = [pc EXCEPT ![p] = "genesis"]
    BY <2>1, <2>2
  <2>3. CASE /\ UNCHANGED key
             /\ \E place \in {"createKey", "cleanup"} : pc' = [pc EXCEPT ![p] = place]
    BY <2>1, <2>3
  <2>4. QED
    BY <1>2, <2>2, <2>3 DEF LoadKey, ReloadKey, Load, Parses
<1>3. ASSUME NEW p \in Procs, CreateKey(p) PROVE KeyInv'
  <2>1. CASE keyFile = NoKey /\ keyFile' = Torn(p) /\ pc' = [pc EXCEPT ![p] = "writeKey"]
    <3>1. UNCHANGED <<meta, key>>
      BY <1>3 DEF CreateKey
    <3>2. \A f \in Files : meta[f] = NoKey
      BY <2>1
    <3>3. \A q \in Procs : ~At(q, "genesis")
      BY <2>1, NoKeyAssumption DEF Keys
    <3>4. \A q \in Procs : Torn(q) # NoKey
      BY TornAssumption DEF TornKeys
    <3>5. \A q \in Procs : ~At(q, "writeKey")
      BY <2>1, <3>4
    <3>6. QED
      BY <2>1, <3>1, <3>2, <3>3, <3>5
  <2>2. CASE UNCHANGED keyFile /\ pc' = [pc EXCEPT ![p] = "reloadKey"]
    BY <1>3, <2>2 DEF CreateKey
  <2>3. QED
    BY <1>3, <2>1, <2>2 DEF CreateKey, CreatesKey
<1>4. ASSUME NEW p \in Procs, WriteKey(p) PROVE KeyInv'
  <2>1. /\ UNCHANGED meta /\ keyFile = Torn(p) /\ keyFile' = p
        /\ key' = [key EXCEPT ![p] = p] /\ pc' = [pc EXCEPT ![p] = "genesis"]
    BY <1>4 DEF WriteKey
  <2>2. keyFile \notin Keys /\ keyFile # NoKey
    BY <2>1, TornAssumption DEF TornKeys
  <2>3. \A f \in Files : meta[f] = NoKey
    BY <2>2
  <2>4. \A q \in Procs : ~At(q, "genesis")
    BY <2>2
  <2>5. \A q \in Procs : At(q, "writeKey") => q = p
    BY <2>1 DEF Torn
  <2>6. QED
    BY <2>1, <2>3, <2>4, <2>5 DEF Keys
<1>5. ASSUME NEW p \in Procs, Genesis(p) PROVE KeyInv'
  <2>1. CASE meta' = [meta EXCEPT ![conn[p]] = key[p]] /\ pc' = [pc EXCEPT ![p] = "spawn"]
    BY <1>5, <2>1 DEF Genesis
  <2>2. CASE UNCHANGED meta /\ pc' = [pc EXCEPT ![p] = "cleanup"]
    BY <1>5, <2>2 DEF Genesis
  <2>3. QED
    BY <1>5, <2>1, <2>2 DEF Genesis
<1>6. ASSUME NEW p \in Procs, Verify(p) PROVE KeyInv'
  <2>1. /\ UNCHANGED <<meta, keyFile>>
        /\ \A q \in Procs : q # p => key'[q] = key[q]
        /\ \E place \in {"spawn", "refused"} : pc' = [pc EXCEPT ![p] = place]
    BY <1>6 DEF Verify, Refuse
  <2>2. QED
    BY <2>1
<1>7. CASE UNCHANGED vars
  BY <1>7 DEF vars
<1>8. QED
  BY <1>1, <1>2, <1>3, <1>4, <1>5, <1>6, <1>7 DEF Next, ProcStep, Settled

\* However many processes start, race for the key file and the genesis, fail
\* or are killed, a database with a genesis never loses the key it was made
\* with: load_or_generate adopts a key that is there and never replaces it.
THEOREM KeyIsNeverLost == ASSUME ~Resets PROVE Spec => []EstablishedChainHasKey
<1>1. Init => KeyInv
  BY DEF Init, KeyInv, At
<1>2. TypeOK /\ KeyInv /\ [Next]_vars => KeyInv'
  BY NextKey
<1>3. TypeOK /\ KeyInv => EstablishedChainHasKey
  BY DEF TypeOK, KeyInv, EstablishedChainHasKey
<1>4. QED
  BY <1>1, <1>2, <1>3, TypeCorrect, PTL DEF Spec

-----------------------------------------------------------------------------
(* A step is one process's. *)

LEMMA OnlyOneMoves ==
  ASSUME TypeOK, NEW p \in Procs, ProcStep(p)
  PROVE  /\ pc'[p] # pc[p]
         /\ \A q \in Procs \ {p} :
              pc'[q] = pc[q] /\ job'[q] = job[q] /\ conn'[q] = conn[q] /\ key'[q] = key[q]
         /\ ~At(p, "idle") => job'[p] = job[p] /\ pc'[p] \notin {"idle", "resetDb"}
         /\ pc'[p] = "resetKey" => At(p, "resetDb") /\ dbAt' = NoFile
         /\ pc[p] \in {"running"} \cup Over => pc'[p] = "ended"
<1>. USE DEF TypeOK, Goto, At, Over
<1>1. CASE Launch(p)
  BY <1>1 DEF Launch
<1>2. CASE ResetDb(p) \/ ResetKey(p)
  BY <1>2 DEF ResetDb, ResetKey, AfterReset, ResetOrder
<1>3. CASE CheckDb(p)
  BY <1>3 DEF CheckDb
<1>4. CASE Open(p)
  BY <1>4 DEF Open, OpenAs
<1>5. CASE OpenFails(p) \/ KeyFails(p) \/ GenesisFails(p)
  BY <1>5 DEF OpenFails, KeyFails, GenesisFails
<1>6. CASE LoadKey(p) \/ ReloadKey(p)
  BY <1>6 DEF LoadKey, ReloadKey, Load
<1>7. CASE CreateKey(p)
  BY <1>7 DEF CreateKey
<1>8. CASE WriteKey(p)
  BY <1>8 DEF WriteKey
<1>9. CASE Genesis(p)
  BY <1>9 DEF Genesis
<1>10. CASE Recover(p)
  BY <1>10 DEF Recover, AdoptClaimed, CleanUpOrder
<1>11. CASE Close(p) \/ Remove(p)
  BY <1>11 DEF Close, Remove, AfterCleanUp, CleanUpOrder
<1>12. CASE ReadMeta(p)
  BY <1>12 DEF ReadMeta, Refuse
<1>13. CASE Verify(p)
  BY <1>13 DEF Verify, Refuse
<1>14. CASE Spawn(p)
  BY <1>14 DEF Spawn, OpenAs
<1>15. CASE End(p)
  BY <1>15 DEF End
<1>16. QED
  BY <1>1, <1>2, <1>3, <1>4, <1>5, <1>6, <1>7, <1>8, <1>9, <1>10, <1>11, <1>12, <1>13,
     <1>14, <1>15 DEF ProcStep

-----------------------------------------------------------------------------
(* Resets that run alone. *)

\* A reset in progress is the only start, and removes the key of no database.
AloneInv ==
  /\ \A p \in Procs : At(p, "idle") => job[p] = "run"
  /\ \A p \in Procs : job[p] = "reset" /\ Starting(p) => \A q \in Procs \ {p} : ~Starting(q)
  /\ \A p \in Procs : At(p, "resetDb") \/ At(p, "resetKey") => job[p] = "reset"
  /\ \A p \in Procs : At(p, "resetKey") => dbAt = NoFile

\* While a reset goes on nobody else moves.
LEMMA ResetMovesAlone ==
  ASSUME TypeOK, ResetsAlone, NEW p \in Procs, ProcStep(p), NEW q \in Procs,
         job[q] = "reset", Starting(q)
  PROVE  q = p
<1> SUFFICES ASSUME q # p PROVE FALSE
  OBVIOUS
<1>1. pc'[p] # pc[p] /\ job'[q] = job[q]
  BY OnlyOneMoves
<1>2. QED
  BY <1>1 DEF ResetsAlone

LEMMA AloneStep ==
  ASSUME TypeOK, TypeOK', AloneInv, ResetsAlone, [Next]_vars
  PROVE  AloneInv'
<1>1. CASE UNCHANGED vars
  BY <1>1 DEF vars, AloneInv, Starting, Over, At
<1>2. ASSUME NEW p \in Procs, ProcStep(p) PROVE AloneInv'
  <2>1. /\ \A q \in Procs \ {p} : pc'[q] = pc[q] /\ job'[q] = job[q]
        /\ ~At(p, "idle") => job'[p] = job[p] /\ pc'[p] \notin {"idle", "resetDb"}
        /\ pc'[p] = "resetKey" => At(p, "resetDb") /\ dbAt' = NoFile
        /\ pc[p] \in {"running"} \cup Over => pc'[p] = "ended"
    BY <1>2, OnlyOneMoves
  <2>2. \A q \in Procs : job[q] = "reset" /\ Starting(q) => q = p
    BY <1>2, ResetMovesAlone
  <2>3. CASE At(p, "idle")
    <3>1. Launch(p)
      BY <1>2, <2>3 DEF ProcStep, Launch, ResetDb, ResetKey, CheckDb, Open, OpenFails,
         LoadKey, CreateKey, WriteKey, KeyFails, ReloadKey, Genesis, GenesisFails, Recover,
         Close, Remove, ReadMeta, Verify, Spawn, End, At
    <3>2. ~Starting(p) /\ job[p] = "run"
      BY <2>3 DEF Starting, Over, At, AloneInv
    <3>3. \A q \in Procs : ~(job[q] = "reset" /\ Starting(q))
      BY <2>2, <3>2
    <3>4. /\ dbAt' = dbAt
          /\ \/ pc' = [pc EXCEPT ![p] = "check"] /\ job' = job
             \/ pc' = [pc EXCEPT ![p] = "resetDb"] /\ job' = [job EXCEPT ![p] = "reset"]
      BY <3>1 DEF Launch, Goto
    <3>5. ASSUME NEW q \in Procs, job'[q] = "reset", (Starting(q))', NEW r \in Procs \ {q}
          PROVE  ~(Starting(r))'
      <4>1. q = p
        BY <2>1, <3>3, <3>5 DEF Starting, Over
      <4>2. ~Starting(r)
        BY <3>2, <3>5, <4>1 DEF ResetsAlone
      <4>3. QED
        BY <2>1, <3>5, <4>1, <4>2 DEF Starting, Over
    <3>6. ASSUME NEW q \in Procs
          PROVE  /\ (At(q, "idle"))' => job'[q] = "run"
                 /\ (At(q, "resetDb") \/ At(q, "resetKey"))' => job'[q] = "reset"
                 /\ (At(q, "resetKey"))' => dbAt' = NoFile
      BY <2>1, <2>3, <3>4 DEF AloneInv, At, TypeOK
    <3>7. QED
      BY <3>5, <3>6 DEF AloneInv
  <2>4. CASE ~At(p, "idle")
    <3>1. \A q \in Procs : job'[q] = job[q] /\ ((Starting(q))' => Starting(q))
      BY <2>1, <2>4 DEF Starting, Over, At
    <3>2. ASSUME NEW q \in Procs
          PROVE  /\ (At(q, "idle"))' => job'[q] = "run"
                 /\ (At(q, "resetDb") \/ At(q, "resetKey"))' => job'[q] = "reset"
                 /\ (At(q, "resetKey"))' => dbAt' = NoFile
      <4>1. CASE q = p
        BY <2>1, <2>4, <3>1, <4>1 DEF AloneInv, At
      <4>2. CASE q # p
        <5>1. pc'[q] = pc[q]
          BY <2>1, <4>2
        <5>2. ~At(q, "resetKey")
          BY <2>2, <4>2 DEF AloneInv, At, Starting, Over
        <5>3. QED
          BY <3>1, <5>1, <5>2 DEF AloneInv, At
      <4>3. QED
        BY <4>1, <4>2
    <3>3. QED
      BY <3>1, <3>2 DEF AloneInv
  <2>5. QED
    BY <2>3, <2>4
<1>3. QED
  BY <1>1, <1>2 DEF Next, Settled

\* No database is at the name of a file that its process has yet to create.
Unseen(f) == meta[f] = NoKey /\ dbAt # f /\ \A q \in Procs : conn[q] # f

FreshInv ==
  \A p \in Procs :
    /\ pc[p] \in {"idle", "resetDb", "resetKey", "check", "open"} => Unseen(<<p, 1>>)
    /\ pc[p] \notin {"running", "refused", "ended"} => Unseen(<<p, 2>>)

\* What a step may do to the files.
LEMMA FilesMove ==
  ASSUME TypeOK, NEW p \in Procs, ProcStep(p)
  PROVE  /\ dbAt' \in {dbAt, NoFile, <<p, 1>>, <<p, 2>>}
         /\ dbAt' = <<p, 1>> /\ dbAt # <<p, 1>> =>
              At(p, "open") /\ pc'[p] \in {"readMeta", "loadKey", "refused"} /\ dbAt = NoFile
         /\ dbAt' = <<p, 2>> /\ dbAt # <<p, 2>> =>
              At(p, "spawn") /\ pc'[p] \in {"running", "refused"} /\ dbAt = NoFile
         /\ conn'[p] \in {conn[p], NoFile, dbAt'}
         /\ meta' # meta => meta' = [meta EXCEPT ![conn[p]] = key[p]] /\ Genesis(p)
         /\ (pc'[p] \in {"idle", "resetDb", "resetKey", "check", "open"}
               => pc[p] \in {"idle", "resetDb", "resetKey", "check", "open"})
<1>. USE DEF TypeOK, Goto, At
<1>0. NoFile # <<p, 1>> /\ NoFile # <<p, 2>>
  BY NoFileAssumption
<1>1. CASE Launch(p)
  BY <1>1 DEF Launch
<1>2. CASE ResetDb(p) \/ ResetKey(p)
  BY <1>0, <1>2 DEF ResetDb, ResetKey, AfterReset, ResetOrder
<1>3. CASE CheckDb(p)
  BY <1>3 DEF CheckDb
<1>4. CASE Open(p)
  BY <1>4 DEF Open, OpenAs
<1>5. CASE OpenFails(p) \/ KeyFails(p) \/ GenesisFails(p)
  BY <1>5 DEF OpenFails, KeyFails, GenesisFails
<1>6. CASE LoadKey(p) \/ ReloadKey(p)
  BY <1>6 DEF LoadKey, ReloadKey, Load
<1>7. CASE CreateKey(p)
  BY <1>7 DEF CreateKey
<1>8. CASE WriteKey(p)
  BY <1>8 DEF WriteKey
<1>9. CASE Genesis(p)
  BY <1>9 DEF Genesis
<1>10. CASE Recover(p)
  BY <1>10 DEF Recover, AdoptClaimed, CleanUpOrder
<1>11. CASE Close(p) \/ Remove(p)
  BY <1>0, <1>11 DEF Close, Remove, AfterCleanUp, CleanUpOrder
<1>12. CASE ReadMeta(p)
  BY <1>12 DEF ReadMeta, Refuse
<1>13. CASE Verify(p)
  BY <1>13 DEF Verify, Refuse
<1>14. CASE Spawn(p)
  BY <1>14 DEF Spawn, OpenAs
<1>15. CASE End(p)
  BY <1>15 DEF End
<1>16. QED
  BY <1>1, <1>2, <1>3, <1>4, <1>5, <1>6, <1>7, <1>8, <1>9, <1>10, <1>11, <1>12, <1>13,
     <1>14, <1>15 DEF ProcStep

LEMMA FreshStep ==
  ASSUME TypeOK, TypeOK', FreshInv, [Next]_vars
  PROVE  FreshInv'
<1>1. CASE UNCHANGED vars
  BY <1>1 DEF vars, FreshInv, Unseen
<1>2. ASSUME NEW p \in Procs, ProcStep(p) PROVE FreshInv'
  <2>1. /\ pc'[p] # pc[p]
        /\ \A q \in Procs \ {p} : pc'[q] = pc[q] /\ conn'[q] = conn[q]
        /\ pc[p] \in {"running"} \cup Over => pc'[p] = "ended"
    BY <1>2, OnlyOneMoves
  <2>2. /\ dbAt' \in {dbAt, NoFile, <<p, 1>>, <<p, 2>>}
        /\ dbAt' = <<p, 1>> /\ dbAt # <<p, 1>> =>
             pc[p] = "open" /\ pc'[p] \in {"readMeta", "loadKey", "refused"}
        /\ dbAt' = <<p, 2>> /\ dbAt # <<p, 2>> => pc[p] = "spawn" /\ pc'[p] \in {"running", "refused"}
        /\ conn'[p] \in {conn[p], NoFile, dbAt'}
        /\ meta' # meta => meta' = [meta EXCEPT ![conn[p]] = key[p]]
        /\ (pc'[p] \in {"idle", "resetDb", "resetKey", "check", "open"}
               => pc[p] \in {"idle", "resetDb", "resetKey", "check", "open"})
    BY <1>2, FilesMove DEF At
  <2>3. ASSUME NEW f \in Files, Unseen(f), dbAt' # f PROVE Unseen(f)'
    <3>1. meta'[f] = NoKey
      BY <2>2, <2>3 DEF Unseen, TypeOK
    <3>2. f # NoFile
      BY NoFileAssumption DEF Files
    <3>3. \A q \in Procs : conn'[q] # f
      BY <2>1, <2>2, <2>3, <3>2 DEF Unseen
    <3>4. QED
      BY <2>3, <3>1, <3>3 DEF Unseen
  <2>4. ASSUME NEW q \in Procs, pc'[q] \in {"idle", "resetDb", "resetKey", "check", "open"}
        PROVE  Unseen(<<q, 1>>)'
    <3>1. pc[q] \in {"idle", "resetDb", "resetKey", "check", "open"}
      BY <2>1, <2>2, <2>4
    <3>2. Unseen(<<q, 1>>) /\ <<q, 1>> \in Files
      BY <3>1 DEF FreshInv, Files
    <3>3. dbAt' # <<q, 1>>
      <4>1. SUFFICES ASSUME dbAt' = <<q, 1>> PROVE FALSE
        OBVIOUS
      <4>2. dbAt # <<q, 1>> /\ <<q, 1>> # NoFile
        BY <3>2, NoFileAssumption DEF Unseen, Files
      <4>3. q = p
        BY <2>2, <4>1, <4>2
      <4>4. QED
        BY <2>2, <2>4, <4>1, <4>2, <4>3
    <3>4. QED
      BY <2>3, <3>2, <3>3
  <2>5. ASSUME NEW q \in Procs, pc'[q] \notin {"running", "refused", "ended"}
        PROVE  Unseen(<<q, 2>>)'
    <3>1. pc[q] \notin {"running", "refused", "ended"}
      BY <2>1, <2>5 DEF Over
    <3>2. Unseen(<<q, 2>>) /\ <<q, 2>> \in Files
      BY <3>1 DEF FreshInv, Files
    <3>3. dbAt' # <<q, 2>>
      <4>1. SUFFICES ASSUME dbAt' = <<q, 2>> PROVE FALSE
        OBVIOUS
      <4>2. dbAt # <<q, 2>> /\ <<q, 2>> # NoFile
        BY <3>2, NoFileAssumption DEF Unseen, Files
      <4>3. q = p
        BY <2>2, <4>1, <4>2
      <4>4. QED
        BY <2>2, <2>5, <4>1, <4>2, <4>3
    <3>4. QED
      BY <2>3, <3>2, <3>3
  <2>6. QED
    BY <2>4, <2>5 DEF FreshInv
<1>3. QED
  BY <1>1, <1>2 DEF Next, Settled

-----------------------------------------------------------------------------
(* What a failed genesis leaves. *)

\* Where a process is connected.
Connected == {"loadKey", "createKey", "writeKey", "reloadKey", "genesis", "cleanup", "close",
              "readMeta", "verify", "running"}

\* A process has a connection from its open until it closes it.
ConnInv == \A p \in Procs : conn[p] = NoFile <=> pc[p] \notin Connected

LEMMA NextConn ==
  ASSUME TypeOK, ConnInv, [Next]_vars
  PROVE  ConnInv'
<1>. USE DEF TypeOK, Goto, At
<1>1. ASSUME NEW p \in Procs, ProcStep(p) PROVE conn'[p] = NoFile <=> pc'[p] \notin Connected
  <2>0. /\ NoFile # <<p, 1>> /\ NoFile # <<p, 2>>
        /\ conn[p] = NoFile <=> pc[p] \notin Connected
    BY NoFileAssumption DEF ConnInv
  <2>1. CASE Launch(p) \/ CheckDb(p)
    BY <2>0, <2>1 DEF Launch, CheckDb, Connected
  <2>2. CASE ResetDb(p) \/ ResetKey(p)
    BY <2>0, <2>2 DEF ResetDb, ResetKey, AfterReset, ResetOrder, Connected
  <2>3. CASE Open(p)
    BY <2>0, <2>3 DEF Open, OpenAs, Connected
  <2>4. CASE OpenFails(p) \/ KeyFails(p) \/ GenesisFails(p)
    BY <2>0, <2>4 DEF OpenFails, KeyFails, GenesisFails, Connected
  <2>5. CASE LoadKey(p) \/ ReloadKey(p)
    BY <2>0, <2>5 DEF LoadKey, ReloadKey, Load, Parses, Connected
  <2>6. CASE CreateKey(p) \/ WriteKey(p)
    BY <2>0, <2>6 DEF CreateKey, WriteKey, Connected
  <2>7. CASE Genesis(p)
    BY <2>0, <2>7 DEF Genesis, Connected
  <2>8. CASE Recover(p)
    BY <2>0, <2>8 DEF Recover, AdoptClaimed, CleanUpOrder, Connected
  <2>9. CASE Close(p) \/ Remove(p)
    BY <2>0, <2>9 DEF Close, Remove, AfterCleanUp, CleanUpOrder, Connected
  <2>10. CASE ReadMeta(p)
    BY <2>0, <2>10 DEF ReadMeta, Refuse, Connected
  <2>11. CASE Verify(p)
    BY <2>0, <2>11 DEF Verify, Refuse, Parses, Connected
  <2>12. CASE Spawn(p)
    BY <2>0, <2>12 DEF Spawn, OpenAs, Connected
  <2>13. CASE End(p)
    BY <2>0, <2>13 DEF End, Connected
  <2>14. QED
    BY <1>1, <2>1, <2>2, <2>3, <2>4, <2>5, <2>6, <2>7, <2>8, <2>9, <2>10, <2>11, <2>12,
       <2>13 DEF ProcStep
<1>2. ASSUME NEW p \in Procs, ProcStep(p) PROVE ConnInv'
  <2>1. \A q \in Procs \ {p} : pc'[q] = pc[q] /\ conn'[q] = conn[q]
    BY <1>2, OnlyOneMoves
  <2>2. QED
    BY <1>1, <1>2, <2>1 DEF ConnInv
<1>3. CASE UNCHANGED vars
  BY <1>3 DEF vars, ConnInv
<1>4. QED
  BY <1>2, <1>3 DEF Next, Settled

\* The removal of the database ends a clean-up.
LEMMA OnlyRemoveCleans ==
  ASSUME TypeOK, NEW p \in Procs, ProcStep(p), pc'[p] = "cleaned"
  PROVE  Remove(p)
<1>. USE DEF TypeOK, Goto, At
<1>1. ~(Launch(p) \/ ResetDb(p) \/ ResetKey(p) \/ CheckDb(p) \/ Open(p) \/ OpenFails(p))
  BY DEF Launch, ResetDb, ResetKey, AfterReset, ResetOrder, CheckDb, Open, OpenFails
<1>2. ~(LoadKey(p) \/ CreateKey(p) \/ WriteKey(p) \/ KeyFails(p) \/ ReloadKey(p))
  BY DEF LoadKey, CreateKey, WriteKey, KeyFails, ReloadKey, Load
<1>3. ~(Genesis(p) \/ GenesisFails(p) \/ Recover(p) \/ Close(p))
  BY DEF Genesis, GenesisFails, Recover, AdoptClaimed, Close, AfterCleanUp, CleanUpOrder
<1>4. ~(ReadMeta(p) \/ Verify(p) \/ Spawn(p) \/ End(p))
  BY DEF ReadMeta, Verify, Refuse, Spawn, End
<1>5. QED
  BY <1>1, <1>2, <1>3, <1>4 DEF ProcStep

\* A process that has cleaned up created no database that is at the path, unless
\* somebody else came to open it.
LEMMA NextLeaves ==
  ASSUME TypeOK, ConnInv, FailedGenesisLeavesNothing, [Next]_vars
  PROVE  FailedGenesisLeavesNothing'
<1>1. CASE UNCHANGED vars
  BY <1>1 DEF vars, FailedGenesisLeavesNothing, CameToOpen, At
<1>2. ASSUME NEW p \in Procs, ProcStep(p) PROVE FailedGenesisLeavesNothing'
  <2>1. /\ pc'[p] # pc[p]
        /\ \A q \in Procs \ {p} : pc'[q] = pc[q]
        /\ \A q \in Procs : CameToOpen(q) => (CameToOpen(q))'
    BY <1>2, OnlyOneMoves, FilesMove DEF CameToOpen
  <2>2. ASSUME NEW q \in Procs, pc'[q] = "cleaned", dbAt' = <<q, 1>>
        PROVE  ~Unix /\ \E r \in Procs \ {q} : (CameToOpen(r))'
    <3>1. NoFile # <<q, 1>> /\ \A r \in Procs : <<r, 2>> # <<q, 1>>
      BY NoFileAssumption DEF Files
    <3>2. dbAt = <<q, 1>>
      <4>1. SUFFICES ASSUME dbAt # <<q, 1>> PROVE FALSE
        OBVIOUS
      <4>2. dbAt' = <<p, 1>>
        BY <1>2, <2>2, <3>1, <4>1, FilesMove
      <4>3. p = q /\ pc'[p] \in {"readMeta", "loadKey", "refused"}
        BY <1>2, <2>2, <4>1, <4>2, FilesMove
      <4>4. QED
        BY <2>2, <4>3
    <3>3. CASE pc[q] = "cleaned"
      <4>1. ~Unix /\ \E r \in Procs \ {q} : CameToOpen(r)
        BY <3>2, <3>3 DEF FailedGenesisLeavesNothing, At
      <4>2. QED
        BY <2>1, <4>1
    <3>4. CASE pc[q] # "cleaned"
      <4>1. p = q
        BY <2>1, <2>2, <3>4
      <4>2. Remove(p)
        BY <1>2, <2>2, <4>1, OnlyRemoveCleans
      <4>3. ~Unix /\ InUse(dbAt) /\ conn[p] = NoFile
        BY <2>2, <3>1, <4>1, <4>2 DEF Remove, CanUnlink, ConnInv, Connected, At
      <4>4. PICK r \in Procs : conn[r] = dbAt
        BY <4>3 DEF InUse
      <4>5. r # q /\ CameToOpen(r)
        BY <3>1, <3>2, <4>1, <4>3, <4>4 DEF ConnInv, Connected, CameToOpen
      <4>6. QED
        BY <2>1, <4>3, <4>5
    <3>5. QED
      BY <3>3, <3>4
  <2>3. QED
    BY <2>2 DEF FailedGenesisLeavesNothing, At
<1>3. QED
  BY <1>1, <1>2 DEF Next, Settled

\* Whatever else starts, fails, is killed or resets beside it, a first start whose
\* genesis failed leaves no database of its own at the path once it has cleaned up,
\* but one that another process came to open (recover_or_clean_up drops its own
\* connection first, or its removal would fail as well).
THEOREM NothingIsLeft == Spec => []FailedGenesisLeavesNothing
<1>1. Init => ConnInv /\ FailedGenesisLeavesNothing
  BY DEF Init, ConnInv, Connected, FailedGenesisLeavesNothing, At
<1>2. TypeOK /\ ConnInv /\ FailedGenesisLeavesNothing /\ [Next]_vars
        => ConnInv' /\ FailedGenesisLeavesNothing'
  BY NextConn, NextLeaves
<1>3. QED
  BY <1>1, <1>2, TypeCorrect, PTL DEF Spec

-----------------------------------------------------------------------------
(* The key and the chain beside resets. *)

\* The key file holds the key of the database at the path, of whoever is about to
\* write a genesis, or the half of its creator.
HeldInv ==
  /\ EstablishedChainHasKey
  /\ \A p \in Procs : At(p, "genesis") => key[p] = keyFile /\ key[p] \in Keys
  /\ \A p \in Procs : At(p, "writeKey") => keyFile = Torn(p)

\* What a step may do to the key file.
LEMMA KeyMoves ==
  ASSUME TypeOK, NEW p \in Procs, ProcStep(p)
  PROVE  /\ \/ keyFile' = keyFile
            \/ ResetKey(p)
            \/ At(p, "createKey") /\ keyFile = NoKey /\ keyFile' = Torn(p)
            \/ At(p, "writeKey") /\ keyFile' = (IF Unix /\ keyFile # Torn(p) THEN keyFile ELSE p)
         /\ pc'[p] = "genesis" =>
              \/ keyFile \in Keys /\ key'[p] = keyFile /\ keyFile' = keyFile
              \/ WriteKey(p)
         /\ pc'[p] = "writeKey" => keyFile' = Torn(p)
<1>. USE DEF TypeOK, Goto, At
<1>1. CASE Launch(p)
  BY <1>1 DEF Launch
<1>2. CASE ResetDb(p) \/ ResetKey(p)
  BY <1>2 DEF ResetDb, ResetKey, AfterReset, ResetOrder
<1>3. CASE CheckDb(p)
  BY <1>3 DEF CheckDb
<1>4. CASE Open(p)
  BY <1>4 DEF Open, OpenAs
<1>5. CASE OpenFails(p) \/ KeyFails(p) \/ GenesisFails(p)
  BY <1>5 DEF OpenFails, KeyFails, GenesisFails
<1>6. CASE LoadKey(p) \/ ReloadKey(p)
  BY <1>6 DEF LoadKey, ReloadKey, Load, Parses
<1>7. CASE CreateKey(p)
  BY <1>7 DEF CreateKey, CreatesKey
<1>8. CASE WriteKey(p)
  BY <1>8 DEF WriteKey
<1>9. CASE Genesis(p)
  BY <1>9 DEF Genesis
<1>10. CASE Recover(p)
  BY <1>10 DEF Recover, AdoptClaimed, CleanUpOrder
<1>11. CASE Close(p) \/ Remove(p)
  BY <1>11 DEF Close, Remove, AfterCleanUp, CleanUpOrder
<1>12. CASE ReadMeta(p)
  BY <1>12 DEF ReadMeta, Refuse
<1>13. CASE Verify(p)
  BY <1>13 DEF Verify, Refuse
<1>14. CASE Spawn(p)
  BY <1>14 DEF Spawn, OpenAs
<1>15. CASE End(p)
  BY <1>15 DEF End
<1>16. QED
  BY <1>1, <1>2, <1>3, <1>4, <1>5, <1>6, <1>7, <1>8, <1>9, <1>10, <1>11, <1>12, <1>13,
     <1>14, <1>15 DEF ProcStep

LEMMA HeldStep ==
  ASSUME TypeOK, TypeOK', AloneInv, FreshInv, HeldInv, ResetsAlone, [Next]_vars
  PROVE  HeldInv'
<1>1. CASE UNCHANGED vars
  BY <1>1 DEF vars, HeldInv, EstablishedChainHasKey, At
<1>2. ASSUME NEW p \in Procs, ProcStep(p) PROVE HeldInv'
  <2>1. \A q \in Procs \ {p} : pc'[q] = pc[q] /\ key'[q] = key[q]
    BY <1>2, OnlyOneMoves
  <2>2. /\ dbAt' \in {dbAt, NoFile, <<p, 1>>, <<p, 2>>}
        /\ dbAt' = <<p, 1>> /\ dbAt # <<p, 1>> => pc[p] = "open"
        /\ dbAt' = <<p, 2>> /\ dbAt # <<p, 2>> => pc[p] = "spawn"
        /\ meta' # meta => meta' = [meta EXCEPT ![conn[p]] = key[p]] /\ Genesis(p)
    BY <1>2, FilesMove DEF At
  <2>3. /\ \/ keyFile' = keyFile
           \/ ResetKey(p)
           \/ At(p, "createKey") /\ keyFile = NoKey /\ keyFile' = Torn(p)
           \/ At(p, "writeKey") /\ keyFile' = (IF Unix /\ keyFile # Torn(p) THEN keyFile ELSE p)
        /\ pc'[p] = "genesis" =>
             \/ keyFile \in Keys /\ key'[p] = keyFile /\ keyFile' = keyFile
             \/ WriteKey(p)
        /\ pc'[p] = "writeKey" => keyFile' = Torn(p)
    BY <1>2, KeyMoves
  <2>4. /\ \A q \in Procs : Torn(q) \in TornKeys /\ Torn(q) \notin Keys /\ Torn(q) # NoKey
        /\ \A q, r \in Procs : Torn(q) = Torn(r) => q = r
        /\ NoKey \notin Keys /\ p \in Keys
    BY TornAssumption, NoKeyAssumption DEF TornKeys, Torn, Keys
  <2>5. CASE keyFile' = keyFile
    <3>1. ASSUME dbAt' # NoFile PROVE meta'[dbAt'] \in {NoKey, keyFile}
      <4>1. CASE dbAt' = dbAt
        <5>1. meta[dbAt] \in {NoKey, keyFile} /\ dbAt \in Files
          BY <3>1, <4>1 DEF HeldInv, EstablishedChainHasKey, TypeOK
        <5>2. meta'[dbAt] = meta[dbAt] \/ (meta'[dbAt] = key[p] /\ At(p, "genesis"))
          BY <2>2, <5>1 DEF Genesis, TypeOK
        <5>3. QED
          BY <4>1, <5>1, <5>2 DEF HeldInv
      <4>2. CASE dbAt' # dbAt
        <5>1. Unseen(dbAt')
          BY <2>2, <3>1, <4>2 DEF FreshInv
        <5>2. meta' = meta
          BY <2>2, <4>2 DEF Genesis
        <5>3. QED
          BY <5>1, <5>2 DEF Unseen
      <4>3. QED
        BY <4>1, <4>2
    <3>2. ASSUME NEW q \in Procs, pc'[q] = "genesis" PROVE key'[q] = keyFile' /\ key'[q] \in Keys
      <4>1. CASE q = p /\ WriteKey(p)
        <5>1. keyFile = Torn(p)
          BY <4>1 DEF WriteKey, HeldInv
        <5>2. keyFile' = p
          BY <4>1, <5>1 DEF WriteKey
        <5>3. Torn(p) = p
          BY <2>5, <5>1, <5>2
        <5>4. QED
          BY <2>4, <5>3
      <4>2. CASE q = p /\ ~WriteKey(p)
        BY <2>3, <2>5, <3>2, <4>2
      <4>3. CASE q # p
        BY <2>1, <2>5, <3>2, <4>3 DEF HeldInv, At
      <4>4. QED
        BY <4>1, <4>2, <4>3
    <3>3. ASSUME NEW q \in Procs, pc'[q] = "writeKey" PROVE keyFile' = Torn(q)
      BY <2>1, <2>3, <2>5, <3>3 DEF HeldInv, At
    <3>4. QED
      BY <2>5, <3>1, <3>2, <3>3 DEF HeldInv, EstablishedChainHasKey, At
  <2>6. CASE ResetKey(p)
    <3>1. /\ job[p] = "reset" /\ Starting(p) /\ dbAt = NoFile /\ dbAt' = dbAt
          /\ pc'[p] = "check" /\ \A q \in Procs \ {p} : ~Starting(q)
      BY <2>6 DEF ResetKey, AloneInv, At, Starting, Over, Goto, AfterReset, ResetOrder, TypeOK
    <3>2. \A q \in Procs : pc'[q] \notin {"genesis", "writeKey"}
      BY <2>1, <3>1 DEF Starting, Over
    <3>3. QED
      BY <3>1, <3>2 DEF HeldInv, EstablishedChainHasKey, At
  <2>7. CASE At(p, "createKey") /\ keyFile = NoKey /\ keyFile' = Torn(p)
    <3>1. CreateKey(p) /\ pc'[p] = "writeKey" /\ meta' = meta /\ dbAt' = dbAt
      BY <1>2, <2>4, <2>7 DEF ProcStep, Launch, ResetDb, ResetKey, CheckDb, Open, OpenFails,
         LoadKey, CreateKey, WriteKey, KeyFails, ReloadKey, Genesis, GenesisFails, Recover,
         Close, Remove, ReadMeta, Verify, Spawn, End, At, Goto, TypeOK
    <3>2. \A q \in Procs : ~At(q, "genesis") /\ ~At(q, "writeKey")
      BY <2>4, <2>7 DEF HeldInv
    <3>3. QED
      BY <2>1, <2>7, <3>1, <3>2 DEF HeldInv, EstablishedChainHasKey, At
  <2>8. CASE At(p, "writeKey") /\ keyFile' = (IF Unix /\ keyFile # Torn(p) THEN keyFile ELSE p)
             /\ keyFile' # keyFile
    <3>1. keyFile = Torn(p) /\ keyFile' = p
      BY <2>8 DEF HeldInv
    <3>2. WriteKey(p) /\ pc'[p] = "genesis" /\ key'[p] = p /\ meta' = meta /\ dbAt' = dbAt
      BY <1>2, <2>8 DEF ProcStep, Launch, ResetDb, ResetKey, CheckDb, Open, OpenFails,
         LoadKey, CreateKey, WriteKey, KeyFails, ReloadKey, Genesis, GenesisFails, Recover,
         Close, Remove, ReadMeta, Verify, Spawn, End, At, Goto, TypeOK
    <3>3. \A q \in Procs : ~At(q, "genesis") /\ (At(q, "writeKey") => q = p)
      BY <2>4, <3>1 DEF HeldInv
    <3>4. dbAt # NoFile => meta[dbAt] = NoKey
      BY <2>4, <3>1 DEF HeldInv, EstablishedChainHasKey, TypeOK
    <3>5. QED
      BY <2>1, <2>4, <3>1, <3>2, <3>3, <3>4 DEF HeldInv, EstablishedChainHasKey, At
  <2>9. QED
    BY <2>3, <2>5, <2>6, <2>7, <2>8
<1>3. QED
  BY <1>1, <1>2 DEF Next, Settled

\* Everybody who is connected is so to the database at the path; who has founded
\* or verified the chain there works with its key, and who is about to remove the
\* database knows that it has no chain.
ChainInv ==
  /\ \A p \in Procs : conn[p] \in {NoFile, dbAt}
  /\ \A p \in Procs : conn[p] = NoFile <=> pc[p] \notin Connected
  /\ \A p \in Procs : At(p, "genesis") => key[p] \in Keys
  /\ \A p \in Procs : pc[p] \in {"close", "unlink"} /\ dbAt # NoFile => meta[dbAt] = NoKey
  /\ \A p \in Procs : At(p, "spawn") \/ At(p, "running") =>
       dbAt # NoFile /\ meta[dbAt] = key[p] /\ key[p] \in Keys

\* What a step does to its process's connection and to the chain of the database.
LEMMA ConnMoves ==
  ASSUME TypeOK, ChainInv, NEW p \in Procs, ProcStep(p)
  PROVE  /\ dbAt # NoFile /\ dbAt' = NoFile =>
              (At(p, "resetDb") \/ At(p, "unlink")) /\ CanUnlink
         /\ conn'[p] \in {conn[p], NoFile, dbAt'}
         /\ conn'[p] = NoFile <=> pc'[p] \notin Connected
         /\ pc'[p] = "genesis" => key'[p] \in Keys
         /\ pc'[p] = "close" => At(p, "cleanup") /\ dbAt' = dbAt /\ meta' = meta
         /\ pc'[p] = "unlink" => At(p, "close") /\ dbAt' = dbAt /\ meta' = meta
         /\ pc'[p] = "spawn" =>
              dbAt' = dbAt /\ conn[p] # NoFile /\ meta'[conn[p]] = key'[p] /\ key'[p] \in Keys
         /\ pc'[p] = "running" => At(p, "spawn") /\ meta' = meta /\ key'[p] = key[p]
         /\ meta' # meta =>
              /\ conn[p] # NoFile /\ meta[conn[p]] = NoKey
              /\ meta' = [meta EXCEPT ![conn[p]] = key[p]]
<1>. USE DEF TypeOK, Goto, At
<1>0. /\ NoFile # <<p, 1>> /\ NoFile # <<p, 2>> /\ NoKey \notin Keys /\ p \in Keys
      /\ conn[p] = NoFile <=> pc[p] \notin Connected
      /\ pc[p] = "genesis" => key[p] \in Keys
  BY NoFileAssumption, NoKeyAssumption DEF ChainInv, Keys
<1>1. CASE Launch(p)
  BY <1>0, <1>1 DEF Launch, Connected
<1>2. CASE ResetDb(p) \/ ResetKey(p)
  BY <1>0, <1>2 DEF ResetDb, ResetKey, AfterReset, ResetOrder, Connected
<1>3. CASE CheckDb(p)
  BY <1>0, <1>3 DEF CheckDb, Connected
<1>4. CASE Open(p)
  BY <1>0, <1>4 DEF Open, OpenAs, Connected
<1>5. CASE OpenFails(p) \/ KeyFails(p) \/ GenesisFails(p)
  BY <1>0, <1>5 DEF OpenFails, KeyFails, GenesisFails, Connected
<1>6. CASE LoadKey(p) \/ ReloadKey(p)
  BY <1>0, <1>6 DEF LoadKey, ReloadKey, Load, Parses, Connected
<1>7. CASE CreateKey(p)
  BY <1>0, <1>7 DEF CreateKey, Connected
<1>8. CASE WriteKey(p)
  BY <1>0, <1>8 DEF WriteKey, Connected
<1>9. CASE Genesis(p)
  BY <1>0, <1>9 DEF Genesis, Connected
<1>10. CASE Recover(p)
  BY <1>0, <1>10 DEF Recover, AdoptClaimed, CleanUpOrder, Connected
<1>11. CASE Close(p) \/ Remove(p)
  BY <1>0, <1>11 DEF Close, Remove, AfterCleanUp, CleanUpOrder, Connected
<1>12. CASE ReadMeta(p)
  BY <1>0, <1>12 DEF ReadMeta, Refuse, Connected
<1>13. CASE Verify(p)
  BY <1>0, <1>13 DEF Verify, Refuse, Parses, Connected
<1>14. CASE Spawn(p)
  BY <1>0, <1>14 DEF Spawn, OpenAs, Connected
<1>15. CASE End(p)
  BY <1>0, <1>15 DEF End, Connected
<1>16. QED
  BY <1>1, <1>2, <1>3, <1>4, <1>5, <1>6, <1>7, <1>8, <1>9, <1>10, <1>11, <1>12, <1>13,
     <1>14, <1>15 DEF ProcStep

\* What a process stands on stays: a file in use is not unlinked, a reset waits for
\* the starts, and who removes a database has seen that it has no chain.
LEMMA ChainStep ==
  ASSUME ~Unix, TypeOK, TypeOK', AloneInv, FreshInv, ChainInv, LooksAndRemoves, [Next]_vars
  PROVE  ChainInv'
<1>1. CASE UNCHANGED vars
  BY <1>1 DEF vars, ChainInv, At
<1>2. ASSUME NEW p \in Procs, ProcStep(p) PROVE ChainInv'
  <2>1. \A q \in Procs \ {p} : pc'[q] = pc[q] /\ conn'[q] = conn[q] /\ key'[q] = key[q]
    BY <1>2, OnlyOneMoves
  <2>2. dbAt' = dbAt \/ dbAt' = NoFile \/ dbAt = NoFile
    BY <1>2, FilesMove
  <2>3. /\ dbAt # NoFile /\ dbAt' = NoFile => (At(p, "resetDb") \/ At(p, "unlink")) /\ CanUnlink
        /\ conn'[p] \in {conn[p], NoFile, dbAt'}
        /\ conn'[p] = NoFile <=> pc'[p] \notin Connected
        /\ pc'[p] = "genesis" => key'[p] \in Keys
        /\ pc'[p] = "close" => At(p, "cleanup") /\ dbAt' = dbAt /\ meta' = meta
        /\ pc'[p] = "unlink" => At(p, "close") /\ dbAt' = dbAt /\ meta' = meta
        /\ pc'[p] = "spawn" =>
             dbAt' = dbAt /\ conn[p] # NoFile /\ meta'[conn[p]] = key'[p] /\ key'[p] \in Keys
        /\ pc'[p] = "running" => At(p, "spawn") /\ meta' = meta /\ key'[p] = key[p]
        /\ meta' # meta =>
             /\ conn[p] # NoFile /\ meta[conn[p]] = NoKey
             /\ meta' = [meta EXCEPT ![conn[p]] = key[p]]
    BY <1>2, ConnMoves
  <2>4. \A q \in Procs : conn[q] \in {NoFile, dbAt} /\ (conn[q] = NoFile <=> pc[q] \notin Connected)
    BY DEF ChainInv
  <2>5. ASSUME NEW q \in Procs, conn[q] # NoFile PROVE dbAt' = dbAt
    BY <2>2, <2>3, <2>4, <2>5 DEF CanUnlink, InUse
  <2>6. ASSUME NEW q \in Procs
        PROVE  /\ conn'[q] \in {NoFile, dbAt'}
               /\ conn'[q] = NoFile <=> pc'[q] \notin Connected
    <3>1. CASE q = p
      <4>1. conn[p] # NoFile => dbAt' = dbAt
        BY <2>5
      <4>2. QED
        BY <2>3, <2>4, <3>1, <4>1
    <3>2. CASE q # p
      BY <2>1, <2>4, <2>5, <3>2
    <3>3. QED
      BY <3>1, <3>2
  <2>7. ASSUME NEW q \in Procs, pc'[q] = "genesis" PROVE key'[q] \in Keys
    BY <2>1, <2>3, <2>7 DEF ChainInv, At
  <2>8. ASSUME NEW q \in Procs, pc'[q] \in {"close", "unlink"}, dbAt' # NoFile
        PROVE  meta'[dbAt'] = NoKey
    <3>1. CASE q = p /\ pc'[p] = "close"
      <4>1. ~Claimed(p) /\ At(p, "cleanup") /\ dbAt' = dbAt /\ meta' = meta
        BY <2>3, <3>1 DEF LooksAndRemoves, At
      <4>2. conn[p] = dbAt
        BY <2>4, <4>1 DEF At, Connected
      <4>3. QED
        BY <4>1, <4>2 DEF Claimed
    <3>2. CASE q = p /\ pc'[p] = "unlink"
      BY <2>3, <2>8, <3>2 DEF ChainInv, At
    <3>3. CASE q # p
      <4>1. pc[q] \in {"close", "unlink"} /\ meta' = meta
        BY <2>1, <2>8, <3>3 DEF LooksAndRemoves
      <4>2. CASE dbAt' = dbAt
        BY <2>8, <4>1, <4>2 DEF ChainInv
      <4>3. CASE dbAt' # dbAt
        <5>1. Unseen(dbAt')
          BY <1>2, <2>8, <4>3, FilesMove DEF FreshInv, At
        <5>2. QED
          BY <4>1, <5>1 DEF Unseen
      <4>4. QED
        BY <4>2, <4>3
    <3>4. QED
      BY <2>8, <3>1, <3>2, <3>3
  <2>9. ASSUME NEW q \in Procs, pc'[q] \in {"spawn", "running"}
        PROVE  dbAt' # NoFile /\ meta'[dbAt'] = key'[q] /\ key'[q] \in Keys
    <3>1. CASE q = p /\ pc'[p] = "spawn"
      BY <2>3, <2>4, <3>1
    <3>2. CASE q = p /\ pc'[p] = "running"
      <4>1. pc[p] = "spawn" /\ meta' = meta /\ key'[p] = key[p]
        BY <2>3, <3>2 DEF At
      <4>2. dbAt # NoFile /\ meta[dbAt] = key[p] /\ key[p] \in Keys
        BY <4>1 DEF ChainInv, At
      <4>3. dbAt' = dbAt
        BY <2>2, <2>3, <4>1, <4>2 DEF At
      <4>4. QED
        BY <3>2, <4>1, <4>2, <4>3
    <3>3. CASE q # p
      <4>1. pc[q] \in {"spawn", "running"} /\ key'[q] = key[q]
        BY <2>1, <2>9, <3>3
      <4>2. dbAt # NoFile /\ meta[dbAt] = key[q] /\ key[q] \in Keys /\ meta[dbAt] # NoKey
        BY <4>1, NoKeyAssumption DEF ChainInv, At, Keys
      <4>3. dbAt' = dbAt
        <5>1. SUFFICES ASSUME dbAt' # dbAt PROVE FALSE
          OBVIOUS
        <5>2. At(p, "resetDb") /\ conn[q] = NoFile
          BY <2>2, <2>3, <2>5, <3>3, <4>2, <5>1 DEF ChainInv, At
        <5>3. pc[q] = "spawn"
          BY <2>4, <4>1, <5>2 DEF Connected
        <5>4. QED
          BY <3>3, <5>2, <5>3 DEF AloneInv, Starting, Over, At
      <4>4. meta'[dbAt] = meta[dbAt]
        BY <2>3, <2>4, <4>2
      <4>5. QED
        BY <4>1, <4>2, <4>3, <4>4
    <3>4. QED
      BY <2>9, <3>1, <3>2, <3>3
  <2>10. QED
    BY <2>6, <2>7, <2>8, <2>9 DEF ChainInv, At
<1>3. QED
  BY <1>1, <1>2 DEF Next, Settled

-----------------------------------------------------------------------------
(* The theorems. *)

LEMMA StartsAlone == Init => AloneInv /\ FreshInv /\ HeldInv /\ ChainInv
<1>1. SUFFICES ASSUME Init PROVE AloneInv /\ FreshInv /\ HeldInv /\ ChainInv
  OBVIOUS
<1>2. \A p \in Procs : pc[p] = "idle" /\ job[p] = "run" /\ conn[p] = NoFile
  BY <1>1 DEF Init
<1>3. AloneInv
  BY <1>2 DEF AloneInv, Starting, Over, At
<1>4. FreshInv
  <2>1. \A p \in Procs : <<p, 1>> \in Files /\ <<p, 2>> \in Files
    BY DEF Files
  <2>2. \A f \in Files : meta[f] = NoKey /\ dbAt # f
    BY <1>1, NoFileAssumption DEF Init, Files
  <2>3. \A f \in Files : Unseen(f)
    BY <1>2, <2>2, NoFileAssumption DEF Unseen, Files
  <2>4. QED
    BY <2>1, <2>3 DEF FreshInv
<1>5. HeldInv
  BY <1>1, <1>2 DEF HeldInv, EstablishedChainHasKey, Init, At
<1>6. ChainInv
  BY <1>2 DEF ChainInv, Connected, At
<1>7. QED
  BY <1>3, <1>4, <1>5, <1>6

\* Starts on one path in any order, with kills, failures and resets that run on
\* their own, leave the key of every founded database in the key file: create_new
\* keeps a key from being replaced, and reset removes the database first.
THEOREM KeySurvivesResets ==
  Init /\ [][Next /\ ResetsAlone]_vars => []EstablishedChainHasKey
<1> DEFINE Inv == TypeOK /\ AloneInv /\ FreshInv /\ HeldInv
<1>1. Init => Inv
  BY StartsAlone, InitTypes
<1>2. Inv /\ [Next /\ ResetsAlone]_vars => Inv'
  <2>1. SUFFICES ASSUME Inv, [Next /\ ResetsAlone]_vars PROVE Inv'
    OBVIOUS
  <2>2. TypeOK'
    BY <2>1, NextTypes
  <2>3. CASE UNCHANGED vars
    BY <2>1, <2>2, <2>3 DEF vars, AloneInv, FreshInv, HeldInv, EstablishedChainHasKey, Unseen,
       Starting, Over, At
  <2>4. CASE Next /\ ResetsAlone
    BY <2>1, <2>2, <2>4, AloneStep, FreshStep, HeldStep
  <2>5. QED
    BY <2>1, <2>3, <2>4
<1>3. Inv => EstablishedChainHasKey
  BY DEF HeldInv
<1>4. QED
  BY <1>1, <1>2, <1>3, PTL

\* On a system that does not unlink files in use, processes that start on one path
\* write one chain, whatever is killed or fails, as long as a reset runs on its own
\* and a database is removed only as recover_or_clean_up says of it.
THEOREM StartersShareOneChain ==
  ASSUME ~Unix
  PROVE  Init /\ [][Next /\ ResetsAlone /\ LooksAndRemoves]_vars => []OneChain
<1> DEFINE Inv == TypeOK /\ AloneInv /\ FreshInv /\ ChainInv
<1>1. Init => Inv
  BY StartsAlone, InitTypes
<1>2. Inv /\ [Next /\ ResetsAlone /\ LooksAndRemoves]_vars => Inv'
  <2>1. SUFFICES ASSUME Inv, [Next /\ ResetsAlone /\ LooksAndRemoves]_vars PROVE Inv'
    OBVIOUS
  <2>2. TypeOK'
    BY <2>1, NextTypes
  <2>3. CASE UNCHANGED vars
    BY <2>1, <2>2, <2>3 DEF vars, AloneInv, FreshInv, Unseen, ChainInv, Starting, Over, At
  <2>4. CASE Next /\ ResetsAlone /\ LooksAndRemoves
    BY <2>1, <2>2, <2>4, AloneStep, FreshStep, ChainStep
  <2>5. QED
    BY <2>1, <2>3, <2>4
<1>3. Inv => OneChain
  BY DEF ChainInv, OneChain, Connected, At
<1>4. QED
  BY <1>1, <1>2, <1>3, PTL
=============================================================================
