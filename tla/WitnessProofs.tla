---------------------------- MODULE WitnessProofs ----------------------------
(***************************************************************************)
(* Theorems about Witness, for any number of rows, secrets, sessions and   *)
(* anchor entries, and any cadence: a clean verdict of verify is earned,   *)
(* an alarm has its cause, and a repair restores what it planned for.      *)
(***************************************************************************)
EXTENDS Witness, SequenceTheorems, TLAPS

Flags   == Nat \cup {Bad}
RowsOf  == [kind : {"call", "beat", "gap"}, flags : Flags, session : Nat, time : Nat,
            prev : Nat, hash : Nat]
Entries == [id : Nat, hash : Nat]
Places  == {"idle", "expected", "actual", "apply", "rows", "anchor", "done"}

Types ==
  /\ rows \in Seq(RowsOf) /\ index \in Seq(Nat)
  /\ durable \in Nat /\ commits \in Nat
  /\ running \in BOOLEAN /\ session \in Nat /\ now \in Nat /\ woke \in Nat
  /\ due \in BOOLEAN /\ skipped \in BOOLEAN
  /\ anchor \in Seq(Entries)
  /\ pc \in Places /\ stage \in {"check", "plan", "recheck"}
  /\ expected \in Seq(Flags) /\ plan \in Seq(Int) /\ seen \in Seq(RowsOf)
  /\ lost \subseteq Nat /\ mishaps \subseteq Nat

\* The rows chain, under hashes that never come again; the index has no more of a
\* row's secrets than its flags name; an anchor entry names a row that is there
\* or that a power loss has taken back.
ChainInv ==
  /\ Len(index) = Len(rows) /\ durable <= Len(rows)
  /\ \A i \in 1..Len(rows) :
       /\ rows[i].prev = IF i = 1 THEN 0 ELSE rows[i - 1].hash
       /\ 0 < rows[i].hash /\ rows[i].hash <= commits /\ rows[i].hash \notin lost
       /\ index[i] = 0 \/ (rows[i].flags # Bad /\ index[i] <= rows[i].flags)
  /\ \A i, j \in 1..Len(rows) : i < j => rows[i].hash < rows[j].hash
  /\ \A h \in lost : h <= commits
  /\ \A k \in 1..Len(anchor) :
       /\ 0 < anchor[k].id
       /\ \/ anchor[k].hash \in lost
          \/ anchor[k].id <= Len(rows) /\ rows[anchor[k].id].hash = anchor[k].hash

IsBeat(i, s) == rows[i].kind = "beat" /\ rows[i].session = s

\* Two beats of a session with no other beat of it and no gap marker between.
Follows(i, j, s) ==
  /\ i < j /\ IsBeat(i, s) /\ IsBeat(j, s)
  /\ \A k \in (i + 1)..(j - 1) : ~IsBeat(k, s) /\ rows[k].kind # "gap"

\* The last beat of the session that runs, with no gap marker behind it.
IsLast(i) ==
  /\ IsBeat(i, session)
  /\ \A k \in (i + 1)..Len(rows) : ~IsBeat(k, session) /\ rows[k].kind # "gap"

\* A session that met with no mishap beats in time, or leaves a marker.
SessionsInv ==
  /\ \A i \in 1..Len(rows) : rows[i].kind = "beat" => rows[i].session \in 1..session
  /\ \A s \in mishaps : s <= session
  /\ running => 0 < session
TaskInv ==
  /\ ~running => ~due /\ ~skipped
  /\ skipped => session \in mishaps
  /\ woke <= now
  /\ running /\ session \notin mishaps =>
       /\ now - woke <= MaxAllowed
       /\ ~due => \A i \in 1..Len(rows) : IsLast(i) => rows[i].time = woke
Spaced ==
  \A i, j \in 1..Len(rows) : \A s \in 1..session :
    Follows(i, j, s) /\ s \notin mishaps => rows[j].time - rows[i].time <= MaxAllowed
BeatInv == SessionsInv /\ TaskInv /\ Spaced

Matched == \A i \in 1..Len(expected) : index[i] = rows[i].flags

\* Beats that nothing of their session comes between are in time, if no marker
\* is among the rows.
InTime ==
  /\ \A i \in 1..Len(seen) : seen[i].kind # "gap"
  /\ \A i, j \in 1..Len(seen) :
       (/\ i < j /\ seen[i].kind = "beat" /\ seen[j].kind = "beat"
        /\ seen[i].session = seen[j].session
        /\ \A k \in i..j : seen[k].kind = "beat" => k \in {i, j})
         => seen[j].time - seen[i].time <= MaxAllowed

\* What verify has read is still there, and what it has found still holds,
\* whatever the proxy has written since.
PlaceInv ==
  /\ outcome = "none" <=> pc # "done"
  /\ pc = "idle" => expected = <<>> /\ seen = <<>> /\ stage = "check"
ReadInv ==
  /\ Len(expected) <= Len(rows) /\ \A i \in 1..Len(expected) : expected[i] = rows[i].flags
  /\ Len(seen) <= Len(rows) /\ \A i \in 1..Len(seen) : seen[i] = rows[i]
RepairInv ==
  /\ pc = "apply" =>
       /\ Len(expected) <= Len(plan) /\ Len(plan) <= Len(index)
       /\ \A i \in 1..Len(plan) : plan[i] = Diff(i)
  /\ pc = "expected" /\ stage = "recheck" =>
       \A i \in 1..Len(expected) : rows[i].flags # Bad => index[i] = rows[i].flags
  /\ pc \in {"rows", "anchor"} => Matched
VerdictInv ==
  /\ pc = "anchor" /\ GenesisChecks => InTime
  /\ CleanIsEarned /\ AlarmsHaveACause
VerifyInv == PlaceInv /\ ReadInv /\ RepairInv /\ VerdictInv

WitnessInv == Types /\ ChainInv /\ BeatInv /\ VerifyInv

-----------------------------------------------------------------------------
(* Rows that are appended, and rows that a power loss leaves. *)

LEMMA Appended ==
  ASSUME NEW S, NEW q \in Seq(S), NEW x \in S
  PROVE  /\ Append(q, x) \in Seq(S) /\ Len(Append(q, x)) = Len(q) + 1
         /\ \A i \in 1..Len(q) : Append(q, x)[i] = q[i]
         /\ Append(q, x)[Len(q) + 1] = x
  OBVIOUS

LEMMA Cut ==
  ASSUME NEW S, NEW q \in Seq(S), NEW n \in 0..Len(q)
  PROVE  /\ SubSeq(q, 1, n) \in Seq(S) /\ Len(SubSeq(q, 1, n)) = n
         /\ \A i \in 1..n : SubSeq(q, 1, n)[i] = q[i]
  OBVIOUS

\* What a commit leaves, whatever row it is.
Adds(r, n) ==
  /\ r \in RowsOf /\ rows' \in Seq(RowsOf) /\ index' \in Seq(Nat)
  /\ Len(rows') = Len(rows) + 1 /\ Len(index') = Len(index) + 1
  /\ \A i \in 1..Len(rows) : rows'[i] = rows[i]
  /\ \A i \in 1..Len(index) : index'[i] = index[i]
  /\ rows'[Len(rows) + 1] = r /\ index'[Len(index) + 1] = n
  /\ r.prev = IF Len(rows) = 0 THEN 0 ELSE rows[Len(rows)].hash
  /\ r.hash = commits + 1 /\ commits' = commits + 1 /\ durable' = durable

LEMMA Committed ==
  ASSUME Types, NEW kind \in {"call", "beat", "gap"}, NEW flags \in Flags, NEW n \in Nat,
         Commit(kind, flags, n)
  PROVE  \E r \in RowsOf :
           /\ Adds(r, n) /\ r.kind = kind /\ r.flags = flags
           /\ kind = "beat" => r.session = session /\ r.time = now
<1> USE DEF Types
<1>1. PICK r : /\ rows' = Append(rows, r)
               /\ r = [kind |-> kind, flags |-> flags,
                       session |-> IF kind = "beat" THEN session ELSE 0,
                       time |-> IF kind = "beat" THEN now ELSE 0,
                       prev |-> IF rows = <<>> THEN 0 ELSE Last(rows).hash,
                       hash |-> commits + 1]
  BY DEF Commit
<1>2. /\ Len(rows) \in Nat /\ (rows = <<>> <=> Len(rows) = 0)
      /\ rows # <<>> => Last(rows) = rows[Len(rows)] /\ rows[Len(rows)] \in RowsOf
  BY DEF Last
<1>3. r \in RowsOf
  BY <1>1, <1>2 DEF RowsOf
<1>4. /\ rows' \in Seq(RowsOf) /\ Len(rows') = Len(rows) + 1
      /\ \A i \in 1..Len(rows) : rows'[i] = rows[i]
      /\ rows'[Len(rows) + 1] = r
  BY <1>1, <1>3, Appended
<1>5. /\ index' \in Seq(Nat) /\ Len(index') = Len(index) + 1
      /\ \A i \in 1..Len(index) : index'[i] = index[i]
      /\ index'[Len(index) + 1] = n
  BY Appended DEF Commit
<1>6. /\ r.prev = IF Len(rows) = 0 THEN 0 ELSE rows[Len(rows)].hash
      /\ r.hash = commits + 1 /\ r.kind = kind /\ r.flags = flags
      /\ kind = "beat" => r.session = session /\ r.time = now
  BY <1>1, <1>2
<1>7. commits' = commits + 1 /\ durable' = durable
  BY DEF Commit
<1>8. QED
  BY <1>3, <1>4, <1>5, <1>6, <1>7 DEF Adds

LEMMA TypesOf ==
  ASSUME Types
  PROVE  /\ Len(rows) \in Nat /\ Len(index) \in Nat /\ Len(anchor) \in Nat
         /\ Len(seen) \in Nat /\ Len(expected) \in Nat /\ Len(plan) \in Nat
         /\ \A i \in 1..Len(rows) : /\ rows[i] \in RowsOf /\ rows[i].hash \in Nat
                                    /\ rows[i].time \in Nat /\ rows[i].session \in Nat
                                    /\ rows[i].flags \in Flags
         /\ \A i \in 1..Len(index) : index[i] \in Nat
         /\ \A k \in 1..Len(anchor) : anchor[k].id \in Nat /\ anchor[k].hash \in Nat
         /\ DOMAIN rows = 1..Len(rows) /\ DOMAIN index = 1..Len(index)
         /\ DOMAIN anchor = 1..Len(anchor) /\ DOMAIN seen = 1..Len(seen)
         /\ DOMAIN expected = 1..Len(expected) /\ DOMAIN plan = 1..Len(plan)
<1>1. \A r \in RowsOf : r.hash \in Nat /\ r.time \in Nat /\ r.session \in Nat /\ r.flags \in Flags
  BY DEF RowsOf
<1>2. \A e \in Entries : e.id \in Nat /\ e.hash \in Nat
  BY DEF Entries
<1>3. \A i \in 1..Len(rows) : rows[i] \in RowsOf
  BY DEF Types
<1>4. \A k \in 1..Len(anchor) : anchor[k] \in Entries
  BY DEF Types
<1>5. \A i \in 1..Len(index) : index[i] \in Nat
  BY DEF Types
<1>6. QED
  BY <1>1, <1>2, <1>3, <1>4, <1>5 DEF Types

LEMMA AddsKeepsChain ==
  ASSUME Types, ChainInv, NEW n \in Nat, NEW r \in RowsOf, Adds(r, n),
         n = 0 \/ (r.flags # Bad /\ n <= r.flags), UNCHANGED <<anchor, lost>>
  PROVE  ChainInv'
<1>1. /\ Len(rows) \in Nat /\ commits \in Nat /\ Len(index) = Len(rows) /\ durable <= Len(rows)
      /\ durable \in Nat /\ Len(anchor) \in Nat
      /\ \A i \in 1..Len(rows) : rows[i].hash \in Nat
      /\ \A k \in 1..Len(anchor) : anchor[k].id \in Nat
  BY TypesOf DEF Types, ChainInv
<1>2. /\ Len(rows') = Len(rows) + 1 /\ Len(index') = Len(rows) + 1
      /\ \A i \in 1..Len(rows) : rows'[i] = rows[i] /\ index'[i] = index[i]
      /\ rows'[Len(rows) + 1] = r /\ index'[Len(rows) + 1] = n
      /\ r.prev = IF Len(rows) = 0 THEN 0 ELSE rows[Len(rows)].hash
      /\ r.hash = commits + 1 /\ commits' = commits + 1 /\ durable' = durable
  BY <1>1 DEF Adds
<1>3. ASSUME NEW i \in 1..Len(rows')
      PROVE  /\ rows'[i].prev = IF i = 1 THEN 0 ELSE rows'[i - 1].hash
             /\ 0 < rows'[i].hash /\ rows'[i].hash <= commits' /\ rows'[i].hash \notin lost'
             /\ index'[i] = 0 \/ (rows'[i].flags # Bad /\ index'[i] <= rows'[i].flags)
  <2>1. CASE i = Len(rows) + 1
    <3>1. rows'[i] = r /\ index'[i] = n /\ rows'[i].hash = commits + 1
      BY <1>2, <2>1
    <3>2. i # 1 => i - 1 \in 1..Len(rows) /\ i - 1 = Len(rows)
      BY <1>1, <2>1
    <3>3. rows'[i].prev = IF i = 1 THEN 0 ELSE rows'[i - 1].hash
      BY <1>1, <1>2, <2>1, <3>1, <3>2
    <3>4. commits + 1 \notin lost /\ 0 < commits + 1
      BY <1>1 DEF ChainInv
    <3>5. QED
      BY <1>2, <3>1, <3>3, <3>4
  <2>2. CASE i # Len(rows) + 1
    <3>1. i \in 1..Len(rows)
      BY <1>1, <1>2, <2>2
    <3>2. rows'[i] = rows[i] /\ index'[i] = index[i] /\ (i # 1 => rows'[i - 1] = rows[i - 1])
      BY <1>1, <1>2, <3>1
    <3>3. rows[i].hash <= commits'
      BY <1>1, <1>2, <3>1 DEF ChainInv
    <3>4. QED
      BY <3>1, <3>2, <3>3 DEF ChainInv
  <2>3. QED
    BY <2>1, <2>2
<1>4. /\ \A h \in lost' : h <= commits'
      /\ \A i, j \in 1..Len(rows') : i < j => rows'[i].hash < rows'[j].hash
  <2>1. \A h \in lost' : h <= commits'
    BY <1>1, <1>2 DEF Types, ChainInv
  <2>2. ASSUME NEW i \in 1..Len(rows'), NEW j \in 1..Len(rows'), i < j
        PROVE  rows'[i].hash < rows'[j].hash
    <3>1. i \in 1..Len(rows) /\ rows'[i] = rows[i]
      BY <1>1, <1>2, <2>2
    <3>2. CASE j = Len(rows) + 1
      <4>1. rows[i].hash <= commits
        BY <3>1 DEF ChainInv
      <4>2. QED
        BY <1>1, <1>2, <3>1, <3>2, <4>1
    <3>3. CASE j \in 1..Len(rows)
      BY <1>2, <2>2, <3>1, <3>3 DEF ChainInv
    <3>4. QED
      BY <1>1, <1>2, <3>2, <3>3
  <2>3. QED
    BY <2>1, <2>2
<1>5. ASSUME NEW k \in 1..Len(anchor)
      PROVE  /\ 0 < anchor[k].id
             /\ \/ anchor[k].hash \in lost
                \/ anchor[k].id <= Len(rows') /\ rows'[anchor[k].id].hash = anchor[k].hash
  <2>1. anchor[k].id \in Nat /\ 0 < anchor[k].id
    BY <1>1 DEF ChainInv
  <2>2. CASE anchor[k].hash \in lost
    BY <2>1, <2>2
  <2>3. CASE anchor[k].id <= Len(rows) /\ rows[anchor[k].id].hash = anchor[k].hash
    <3>1. anchor[k].id \in 1..Len(rows) /\ anchor[k].id <= Len(rows')
      BY <1>1, <1>2, <2>1, <2>3
    <3>2. QED
      BY <1>2, <2>1, <2>3, <3>1
  <2>4. QED
    BY <2>2, <2>3 DEF ChainInv
<1>6. QED
  BY <1>1, <1>2, <1>3, <1>4, <1>5 DEF ChainInv

-----------------------------------------------------------------------------
(* Heartbeats. *)

LEMMA JitterIsNat == MaxAllowed \in Nat
<1>1. 3 * CadenceMax \in Nat
  BY CadenceAssumption
<1>2. \A m \in Nat : m \div 2 \in Nat
  OBVIOUS
<1>3. QED
  BY <1>1, <1>2 DEF MaxAllowed

\* Only the rows up to the second beat matter.
LEMMA FollowsBefore ==
  ASSUME NEW i \in Nat \ {0}, NEW j \in Nat \ {0}, NEW s,
         \A k \in 1..j : rows'[k] = rows[k], Follows(i, j, s)'
  PROVE  Follows(i, j, s)
<1>1. i < j /\ i \in 1..j /\ j \in 1..j
  BY DEF Follows
<1>2. \A k \in (i + 1)..(j - 1) : k \in 1..j
  BY <1>1
<1>3. QED
  BY <1>1, <1>2 DEF Follows, IsBeat

LEMMA AddsKeepsBeats ==
  ASSUME Types, BeatInv, NEW n, NEW r, Adds(r, n), running,
         UNCHANGED <<running, session, mishaps, now>>, ~skipped',
         \/ r.kind = "call" /\ due' = due /\ woke' = woke
         \/ r.kind = "gap" /\ ~due' /\ woke' = woke
         \/ /\ r.kind = "beat" /\ r.session = session /\ r.time = now
            /\ due' = due /\ woke' = now /\ MarkerIsTried
  PROVE  BeatInv'
<1>1. /\ Len(rows) \in Nat /\ Len(rows') = Len(rows) + 1 /\ r \in RowsOf
      /\ \A i \in 1..Len(rows) : rows'[i] = rows[i]
      /\ rows'[Len(rows) + 1] = r
  BY TypesOf DEF Adds
<1>2. \A i \in 1..Len(rows') : i = Len(rows) + 1 \/ i \in 1..Len(rows)
  BY <1>1
<1>3. now \in Nat /\ woke \in Nat /\ woke' \in Nat /\ woke' <= now /\ session \in Nat /\ 0 < session
  BY DEF Types, BeatInv, SessionsInv, TaskInv, Spaced
<1>4. session \notin mishaps => now - woke' <= MaxAllowed
  <2>1. CASE woke' = now
    BY <1>3, <2>1, JitterIsNat
  <2>2. CASE woke' = woke
    BY <2>2 DEF BeatInv, TaskInv
  <2>3. QED
    BY <2>1, <2>2
<1>5. \A i \in 1..Len(rows') : rows'[i].kind = "beat" => rows'[i].session \in 1..session
  BY <1>1, <1>2, <1>3 DEF BeatInv, SessionsInv, TaskInv, Spaced
<1>6. ASSUME session \notin mishaps, ~due', NEW i \in 1..Len(rows'), IsLast(i)'
      PROVE  rows'[i].time = woke'
  <2>1. /\ IsBeat(i, session)'
        /\ \A k \in (i + 1)..Len(rows') : ~IsBeat(k, session)' /\ rows'[k].kind # "gap"
    BY <1>6 DEF IsLast
  <2>2. CASE i = Len(rows) + 1
    BY <1>1, <2>1, <2>2 DEF IsBeat
  <2>3. CASE i \in 1..Len(rows)
    <3>1. Len(rows) + 1 \in (i + 1)..Len(rows')
      BY <1>1, <2>3
    <3>2. r.kind = "call" /\ due' = due /\ woke' = woke
      BY <1>1, <2>1, <3>1 DEF IsBeat
    <3>3. IsLast(i)
      <4>1. \A k \in (i + 1)..Len(rows) : k \in (i + 1)..Len(rows') /\ rows'[k] = rows[k]
        BY <1>1, <2>3
      <4>2. QED
        BY <1>1, <2>1, <2>3, <4>1 DEF IsLast, IsBeat
    <3>4. QED
      BY <1>1, <1>6, <2>3, <3>2, <3>3 DEF BeatInv, SessionsInv, TaskInv, Spaced
  <2>4. QED
    BY <1>2, <2>2, <2>3
<1>7. ASSUME NEW i \in 1..Len(rows'), NEW j \in 1..Len(rows'), NEW s \in 1..session,
             Follows(i, j, s)', s \notin mishaps
      PROVE  rows'[j].time - rows'[i].time <= MaxAllowed
  <2>1. i < j /\ i \in 1..Len(rows)
    BY <1>1, <1>7 DEF Follows
  <2>2. CASE j \in 1..Len(rows)
    <3>1. Follows(i, j, s)
      <4>1. \A k \in 1..j : rows'[k] = rows[k]
        BY <1>1, <2>2
      <4>2. QED
        BY <1>7, <2>1, <2>2, <4>1, FollowsBefore
    <3>2. QED
      BY <1>1, <1>7, <2>1, <2>2, <3>1 DEF BeatInv, SessionsInv, TaskInv, Spaced
  <2>3. CASE j = Len(rows) + 1
    <3>1. /\ IsBeat(j, s)' /\ IsBeat(i, s)'
          /\ \A k \in (i + 1)..(j - 1) : ~IsBeat(k, s)' /\ rows'[k].kind # "gap"
      BY <1>7 DEF Follows
    <3>2. r.kind = "beat" /\ s = session /\ r.time = now /\ MarkerIsTried
      BY <1>1, <2>3, <3>1 DEF IsBeat
    <3>3. ~due
      BY <1>7, <3>2 DEF MarkerIsTried, BeatInv, SessionsInv, TaskInv, Spaced
    <3>4. IsLast(i)
      <4>1. \A k \in (i + 1)..Len(rows) : k \in (i + 1)..(j - 1) /\ rows'[k] = rows[k]
        BY <1>1, <2>1, <2>3
      <4>2. QED
        BY <1>1, <2>1, <3>1, <3>2, <4>1 DEF IsLast, IsBeat
    <3>5. rows[i].time = woke
      BY <1>7, <2>1, <3>2, <3>3, <3>4 DEF BeatInv, SessionsInv, TaskInv, Spaced
    <3>6. QED
      BY <1>1, <1>7, <2>1, <2>3, <3>2, <3>5 DEF BeatInv, SessionsInv, TaskInv, Spaced
  <2>4. QED
    BY <1>2, <2>2, <2>3
<1>8. QED
  BY <1>3, <1>4, <1>5, <1>6, <1>7 DEF BeatInv, SessionsInv, TaskInv, Spaced

\* The task's own affairs, with the rows as they are.
LEMMA QuietKeepsBeats ==
  ASSUME Types, BeatInv, UNCHANGED rows,
         LoseBeat \/ MarkerFails \/ Start \/ Stop \/ Tick \/ Second \/ Suspend
  PROVE  BeatInv'
<1> USE DEF Types
<1>1. /\ now \in Nat /\ woke \in Nat /\ session \in Nat /\ MaxAllowed \in Nat
      /\ \A i \in 1..Len(rows) : rows[i].session \in Nat
  BY TypesOf, JitterIsNat
<1>2. ASSUME UNCHANGED <<session>> PROVE (\A i \in 1..Len(rows) : IsLast(i))' <=> \A i \in 1..Len(rows) : IsLast(i)
  BY <1>2 DEF IsLast, IsBeat
<1>3. \A i, j, s : Follows(i, j, s)' <=> Follows(i, j, s)
  BY DEF Follows, IsBeat
<1>4. CASE LoseBeat
  <2>1. UNCHANGED <<running, session, now, mishaps>> /\ running /\ woke' = now /\ due' /\ ~skipped'
    BY <1>4 DEF LoseBeat, Wakes
  <2>2. QED
    BY <1>1, <1>3, <2>1 DEF BeatInv, SessionsInv, TaskInv, Spaced
<1>5. CASE MarkerFails
  <2>1. UNCHANGED <<running, session, now, woke, due>> /\ running /\ mishaps' = mishaps \cup {session}
    BY <1>5 DEF MarkerFails
  <2>2. QED
    BY <1>1, <1>3, <2>1 DEF BeatInv, SessionsInv, TaskInv, Spaced
<1>6. CASE Start
  <2>1. /\ ~running /\ running' /\ session' = session + 1 /\ woke' = now
        /\ UNCHANGED <<now, due, skipped, mishaps>>
    BY <1>6 DEF Start
  <2>2. \A i \in 1..Len(rows) : ~IsLast(i)'
    BY <1>1, <2>1 DEF BeatInv, SessionsInv, TaskInv, Spaced, IsLast, IsBeat
  <2>3. session + 1 \notin mishaps
    BY <1>1 DEF BeatInv, SessionsInv, TaskInv, Spaced
  <2>4. \A i, j \in 1..Len(rows) : ~Follows(i, j, session + 1)
    BY <1>1 DEF BeatInv, SessionsInv, TaskInv, Spaced, Follows, IsBeat
  <2>5. \A s \in 1..session' : s \in 1..session \/ s = session + 1
    BY <1>1, <2>1
  <2>6. \A s \in 1..session : s \in 1..session'
    BY <1>1, <2>1
  <2>7. \A s \in mishaps : s <= session'
    BY <1>1, <2>1 DEF BeatInv, SessionsInv, TaskInv, Spaced
  <2>8. \A i, j \in 1..Len(rows) : \A s \in 1..session' :
          Follows(i, j, s)' /\ s \notin mishaps' => rows[j].time - rows[i].time <= MaxAllowed
    BY <1>3, <2>1, <2>4, <2>5 DEF BeatInv, SessionsInv, TaskInv, Spaced
  <2>9. SessionsInv'
    <3>1. 0 < session'
      BY <1>1, <2>1
    <3>2. \A i \in 1..Len(rows) : rows[i].kind = "beat" => rows[i].session \in 1..session'
      BY <2>6 DEF BeatInv, SessionsInv
    <3>3. QED
      BY <2>1, <2>7, <3>1, <3>2 DEF SessionsInv
  <2>10. TaskInv'
    <3>1. ~due' /\ ~skipped'
      BY <2>1 DEF BeatInv, TaskInv
    <3>2. woke' <= now' /\ now' - woke' <= MaxAllowed
      BY <1>1, <2>1
    <3>3. QED
      BY <2>2, <3>1, <3>2 DEF TaskInv
  <2>11. QED
    BY <2>8, <2>9, <2>10 DEF BeatInv, Spaced
<1>7. CASE Stop
  <2>1. ~running' /\ woke' = 0 /\ ~due' /\ ~skipped' /\ UNCHANGED <<session, now, mishaps>>
    BY <1>7 DEF Stop, SessionGone
  <2>2. TaskInv' /\ SessionsInv'
    BY <1>1, <2>1 DEF BeatInv, SessionsInv, TaskInv
  <2>3. Spaced'
    BY <1>1, <1>3, <2>1 DEF BeatInv, Spaced
  <2>4. QED
    BY <2>2, <2>3 DEF BeatInv
<1>8. CASE Tick
  <2>1. UNCHANGED <<running, session, now, woke, due, skipped, mishaps>>
    BY <1>8 DEF Tick, proxyVars
  <2>2. QED
    BY <1>1, <1>3, <2>1 DEF BeatInv, SessionsInv, TaskInv, Spaced, IsLast, IsBeat
<1>9. CASE Second
  <2>1. /\ UNCHANGED <<running, session, woke, due, skipped, mishaps>> /\ now' = now + 1
        /\ running => now - woke < MaxAllowed
    BY <1>9 DEF Second, proxyVars
  <2>2. (running => now' - woke <= MaxAllowed) /\ (woke <= now => woke <= now')
    BY <1>1, <2>1
  <2>3. QED
    BY <1>1, <1>3, <2>1, <2>2 DEF BeatInv, SessionsInv, TaskInv, Spaced, IsLast, IsBeat
<1>10. CASE Suspend
  <2>1. /\ UNCHANGED <<running, session, woke, due, skipped>> /\ now' = now + MaxAllowed + 1
        /\ mishaps' = mishaps \cup {session} /\ running
    BY <1>10 DEF Suspend, proxyVars
  <2>2. woke <= now => woke <= now'
    BY <1>1, <2>1
  <2>3. QED
    BY <1>1, <1>3, <2>1, <2>2 DEF BeatInv, SessionsInv, TaskInv, Spaced
<1>11. QED
  BY <1>4, <1>5, <1>6, <1>7, <1>8, <1>9, <1>10

\* What a power loss leaves of the database and of the anchor file.
Cuts(n, k) ==
  /\ n \in 0..Len(rows) /\ k \in 0..Len(anchor)
  /\ rows' \in Seq(RowsOf) /\ index' \in Seq(Nat) /\ anchor' \in Seq(Entries)
  /\ Len(rows') = n /\ Len(index') = n /\ Len(anchor') = k /\ durable' = n
  /\ \A i \in 1..n : rows'[i] = rows[i] /\ index'[i] = index[i]
  /\ \A i \in 1..k : anchor'[i] = anchor[i]
  /\ lost' = lost \cup {rows[i].hash : i \in (n + 1)..Len(rows)}
  /\ ~running' /\ ~due' /\ ~skipped' /\ woke' = 0
  /\ pc = "idle" /\ UNCHANGED <<commits, session, now, verifyVars, mishaps>>

LEMMA PowerCuts ==
  ASSUME Types, ChainInv, PowerLoss
  PROVE  \E n, k \in Nat : Cuts(n, k)
<1>1. PICK n \in durable..Len(rows), k \in 0..Len(anchor) :
       /\ rows' = SubSeq(rows, 1, n) /\ index' = SubSeq(index, 1, n)
       /\ durable' = n
       /\ anchor' = SubSeq(anchor, 1, k)
       /\ lost' = lost \cup {rows[i].hash : i \in (n + 1)..Len(rows)}
  BY DEF PowerLoss
<1>2. /\ n \in 0..Len(rows) /\ n \in 0..Len(index) /\ n \in Nat /\ k \in Nat
      /\ rows \in Seq(RowsOf) /\ index \in Seq(Nat) /\ anchor \in Seq(Entries)
  BY <1>1, TypesOf DEF Types, ChainInv
<1>3. rows' \in Seq(RowsOf) /\ Len(rows') = n /\ \A i \in 1..n : rows'[i] = rows[i]
  BY <1>1, <1>2, Cut
<1>4. index' \in Seq(Nat) /\ Len(index') = n /\ \A i \in 1..n : index'[i] = index[i]
  BY <1>1, <1>2, Cut
<1>5. anchor' \in Seq(Entries) /\ Len(anchor') = k /\ \A i \in 1..k : anchor'[i] = anchor[i]
  BY <1>1, <1>2, Cut
<1>6. /\ ~running' /\ ~due' /\ ~skipped' /\ woke' = 0
      /\ pc = "idle" /\ UNCHANGED <<commits, session, now, verifyVars, mishaps>>
  BY DEF PowerLoss, SessionGone
<1>7. QED
  BY <1>1, <1>2, <1>3, <1>4, <1>5, <1>6 DEF Cuts

LEMMA CutsKeepBeats ==
  ASSUME Types, BeatInv, NEW n \in Nat, NEW k \in Nat, Cuts(n, k)
  PROVE  BeatInv'
<1>1. \A i \in 1..n : i \in 1..Len(rows) /\ rows'[i] = rows[i]
  BY TypesOf DEF Cuts
<1>2. ASSUME NEW i \in 1..n, NEW j \in 1..n, NEW s, Follows(i, j, s)'
      PROVE  Follows(i, j, s)
  <2>1. \A l \in 1..j : rows'[l] = rows[l]
    BY <1>1
  <2>2. QED
    BY <1>2, <2>1, FollowsBefore
<1>3. now \in Nat
  BY DEF Types
<1>4. SessionsInv' /\ TaskInv'
  BY <1>1, <1>3 DEF Cuts, BeatInv, SessionsInv, TaskInv
<1>5. Spaced'
  BY <1>1, <1>2 DEF Cuts, BeatInv, Spaced
<1>6. QED
  BY <1>4, <1>5 DEF BeatInv

LEMMA CutsKeepChain ==
  ASSUME Types, ChainInv, NEW n \in Nat, NEW k \in Nat, Cuts(n, k)
  PROVE  ChainInv'
<1>1. /\ Len(rows) \in Nat /\ commits \in Nat /\ Len(anchor) \in Nat /\ n <= Len(rows)
      /\ \A i \in 1..Len(rows) : rows[i].hash \in Nat
      /\ \A i \in 1..Len(anchor) : anchor[i].id \in Nat
      /\ \A i \in 1..n : i \in 1..Len(rows) /\ rows'[i] = rows[i] /\ index'[i] = index[i]
      /\ \A i \in 1..k : i \in 1..Len(anchor) /\ anchor'[i] = anchor[i]
      /\ Len(rows') = n /\ Len(index') = n /\ Len(anchor') = k /\ durable' = n /\ commits' = commits
  BY TypesOf DEF Cuts, Types
<1>2. ASSUME NEW i \in 1..n
      PROVE  /\ rows'[i].prev = IF i = 1 THEN 0 ELSE rows'[i - 1].hash
             /\ 0 < rows'[i].hash /\ rows'[i].hash <= commits' /\ rows'[i].hash \notin lost'
             /\ index'[i] = 0 \/ (rows'[i].flags # Bad /\ index'[i] <= rows'[i].flags)
  <2>1. i # 1 => i - 1 \in 1..n
    BY <1>1
  <2>2. \A j \in (n + 1)..Len(rows) : rows[i].hash # rows[j].hash
    <3>1. \A j \in (n + 1)..Len(rows) : j \in 1..Len(rows) /\ i < j
      BY <1>1
    <3>2. \A j \in (n + 1)..Len(rows) : rows[i].hash < rows[j].hash /\ rows[j].hash \in Nat
      BY <1>1, <3>1 DEF ChainInv
    <3>3. rows[i].hash \in Nat
      BY <1>1
    <3>4. QED
      BY <3>2, <3>3
  <2>3. rows[i].hash \notin lost'
    BY <1>1, <2>2 DEF Cuts, ChainInv
  <2>4. QED
    BY <1>1, <2>1, <2>3 DEF ChainInv
<1>3. \A i, j \in 1..n : i < j => rows'[i].hash < rows'[j].hash
  BY <1>1 DEF ChainInv
<1>4. \A h \in lost' : h <= commits'
  <2>1. \A i \in (n + 1)..Len(rows) : i \in 1..Len(rows)
    BY <1>1
  <2>2. QED
    BY <1>1, <2>1 DEF Cuts, ChainInv
<1>5. ASSUME NEW i \in 1..k
      PROVE  /\ 0 < anchor'[i].id
             /\ \/ anchor'[i].hash \in lost'
                \/ anchor'[i].id <= n /\ rows'[anchor'[i].id].hash = anchor'[i].hash
  <2>1. anchor'[i] = anchor[i] /\ 0 < anchor[i].id /\ anchor[i].id \in Nat
    BY <1>1 DEF ChainInv
  <2>2. CASE anchor[i].hash \in lost
    BY <2>1, <2>2 DEF Cuts
  <2>3. CASE anchor[i].id <= Len(rows) /\ rows[anchor[i].id].hash = anchor[i].hash
    <3>1. anchor[i].id \in 1..n \/ anchor[i].id \in (n + 1)..Len(rows)
      BY <1>1, <2>1, <2>3
    <3>2. anchor[i].id \in (n + 1)..Len(rows) => anchor[i].hash \in lost'
      BY <2>3 DEF Cuts
    <3>3. QED
      BY <1>1, <2>1, <2>3, <3>1, <3>2
  <2>4. QED
    BY <1>1, <2>2, <2>3 DEF ChainInv
<1>6. QED
  BY <1>1, <1>2, <1>3, <1>4, <1>5 DEF ChainInv

-----------------------------------------------------------------------------
(* verify beside the proxy. *)

LEMMA ChainIntact ==
  ASSUME Types, ChainInv
  PROVE  ChainIsIntact
  BY TypesOf DEF ChainInv, ChainIsIntact

\* What verify holds on to survives what the proxy adds; and before it begins
\* there is nothing to hold on to.
LEMMA VerifyStands ==
  ASSUME WitnessInv, Types', ChainInv', outcome = "none", UNCHANGED verifyVars,
         \/ pc = "idle"
         \/ /\ Len(rows) <= Len(rows')
            /\ \A i \in 1..Len(rows) : rows'[i] = rows[i] /\ index'[i] = index[i]
  PROVE  VerifyInv'
<1> USE DEF WitnessInv
<1>1. UNCHANGED <<pc, stage, expected, plan, seen, outcome>>
  BY DEF verifyVars
<1>2. /\ Len(rows) \in Nat /\ Len(rows') \in Nat /\ Len(index) = Len(rows) /\ Len(index') = Len(rows')
      /\ Len(expected) \in Nat /\ Len(plan) \in Nat /\ Len(seen) \in Nat
  BY TypesOf DEF Types, ChainInv
<1>3. PlaceInv'
  BY <1>1 DEF VerifyInv, PlaceInv
<1>4. VerdictInv'
  <2>1. ChainIsIntact'
    <3>1. DOMAIN rows' = 1..Len(rows')
      BY DEF Types
    <3>2. QED
      BY <3>1 DEF ChainInv, ChainIsIntact
  <2>2. outcome' = "none"
    BY <1>1
  <2>3. InTime' <=> InTime
    BY <1>1 DEF InTime
  <2>4. QED
    BY <1>1, <2>1, <2>2, <2>3 DEF VerifyInv, VerdictInv, CleanIsEarned, AlarmsHaveACause
<1>5. CASE pc = "idle"
  <2>1. expected = <<>> /\ seen = <<>> /\ stage = "check"
    BY <1>5 DEF VerifyInv, PlaceInv
  <2>2. ReadInv'
    BY <1>1, <1>2, <2>1 DEF ReadInv
  <2>3. RepairInv'
    BY <1>1, <1>5 DEF RepairInv
  <2>4. QED
    BY <1>3, <1>4, <2>2, <2>3 DEF VerifyInv
<1>6. CASE /\ Len(rows) <= Len(rows')
           /\ \A i \in 1..Len(rows) : rows'[i] = rows[i] /\ index'[i] = index[i]
  <2>1. ReadInv'
    BY <1>1, <1>2, <1>6 DEF VerifyInv, ReadInv
  <2>2. \A i \in 1..Len(expected) : i \in 1..Len(rows) /\ rows'[i] = rows[i] /\ index'[i] = index[i]
    BY <1>2, <1>6 DEF VerifyInv, ReadInv
  <2>3. ASSUME pc = "apply"
        PROVE  /\ Len(expected) <= Len(plan) /\ Len(plan) <= Len(index')
               /\ \A i \in 1..Len(plan) : plan[i] = Diff(i)'
    <3>1. Len(expected) <= Len(plan) /\ Len(plan) <= Len(index) /\ \A i \in 1..Len(plan) : plan[i] = Diff(i)
      BY <2>3 DEF VerifyInv, RepairInv
    <3>2. \A i \in 1..Len(plan) : index'[i] = index[i]
      BY <1>2, <1>6, <3>1
    <3>3. \A i \in 1..Len(plan) : Diff(i)' = Diff(i)
      BY <1>1, <3>2 DEF Diff, Wanted
    <3>4. QED
      BY <1>2, <1>6, <3>1, <3>3
  <2>4. Matched => Matched'
    BY <1>1, <2>2 DEF Matched
  <2>5. RepairInv'
    BY <1>1, <2>2, <2>3, <2>4 DEF VerifyInv, RepairInv
  <2>6. QED
    BY <1>3, <1>4, <2>1, <2>5 DEF VerifyInv
<1>7. QED
  BY <1>5, <1>6

\* A commit, of whatever kind, beside a verify that is not done.
LEMMA CommitKeeps ==
  ASSUME WitnessInv, Live, NEW n \in Nat, NEW r \in RowsOf, Adds(r, n), BeatInv',
         n = 0 \/ (r.flags # Bad /\ n <= r.flags),
         UNCHANGED <<running, session, mishaps, now, anchor, verifyVars, lost>>,
         due' \in BOOLEAN, skipped' \in BOOLEAN, woke' \in Nat
  PROVE  WitnessInv'
<1> USE DEF WitnessInv
<1>1. Types'
  BY DEF Types, Adds, verifyVars
<1>2. ChainInv'
  BY AddsKeepsChain
<1>3. VerifyInv'
  <2>1. /\ Len(rows) \in Nat /\ Len(rows') = Len(rows) + 1 /\ Len(index) = Len(rows)
        /\ \A i \in 1..Len(rows) : rows'[i] = rows[i]
        /\ \A i \in 1..Len(index) : index'[i] = index[i]
    BY TypesOf DEF Adds, ChainInv
  <2>2. QED
    BY <1>1, <1>2, <2>1, VerifyStands DEF Live
<1>4. QED
  BY <1>1, <1>2, <1>3

LEMMA RowsKeep ==
  ASSUME WitnessInv, LogCall \/ Beat \/ Marker
  PROVE  WitnessInv'
<1> USE DEF WitnessInv
<1>1. CASE LogCall
  <2>1. PICK flags \in FlagCounts \cup {Bad} : \E n \in Projections(flags) : Commit("call", flags, n)
    BY <1>1 DEF LogCall
  <2>2. PICK n \in Projections(flags) : Commit("call", flags, n)
    BY <2>1
  <2>3. flags \in Flags /\ n \in Nat /\ (n = 0 \/ (flags # Bad /\ n <= flags))
    BY FlagCountsAssumption DEF Flags, Projections
  <2>4. PICK r \in RowsOf : Adds(r, n) /\ r.kind = "call" /\ r.flags = flags
    BY <2>2, <2>3, Committed
  <2>5. /\ Live /\ running /\ skipped' = FALSE
        /\ UNCHANGED <<running, session, mishaps, now, woke, due, anchor, verifyVars, lost>>
    BY <1>1 DEF LogCall
  <2>6. BeatInv'
    BY <2>4, <2>5, AddsKeepsBeats
  <2>7. QED
    BY <2>3, <2>4, <2>5, <2>6, CommitKeeps DEF Types
<1>2. CASE Beat
  <2>1. 0 \in Flags /\ Commit("beat", 0, 0)
    BY <1>2 DEF Beat, Flags
  <2>2. PICK r \in RowsOf : Adds(r, 0) /\ r.kind = "beat" /\ r.session = session /\ r.time = now
    BY <2>1, Committed
  <2>3. /\ Live /\ running /\ skipped' = FALSE /\ woke' = now /\ MarkerIsTried
        /\ UNCHANGED <<running, session, mishaps, now, due, anchor, verifyVars, lost>>
    BY <1>2 DEF Beat, Wakes
  <2>4. BeatInv'
    BY <2>2, <2>3, AddsKeepsBeats
  <2>5. QED
    BY <2>2, <2>3, <2>4, CommitKeeps DEF Types
<1>3. CASE Marker
  <2>1. 0 \in Flags /\ Commit("gap", 0, 0)
    BY <1>3 DEF Marker, Flags
  <2>2. PICK r \in RowsOf : Adds(r, 0) /\ r.kind = "gap"
    BY <2>1, Committed
  <2>3. /\ Live /\ running /\ due' = FALSE /\ skipped' = FALSE
        /\ UNCHANGED <<running, session, mishaps, now, woke, anchor, verifyVars, lost>>
    BY <1>3 DEF Marker
  <2>4. BeatInv'
    BY <2>2, <2>3, AddsKeepsBeats
  <2>5. QED
    BY <2>2, <2>3, <2>4, CommitKeeps DEF Types
<1>4. QED
  BY <1>1, <1>2, <1>3

LEMMA QuietKeeps ==
  ASSUME WitnessInv, LoseBeat \/ MarkerFails \/ Start \/ Stop \/ Tick \/ Second \/ Suspend
  PROVE  WitnessInv'
<1> USE DEF WitnessInv
<1>1. UNCHANGED <<rows, index, commits, verifyVars, lost>> /\ Live
  BY DEF LoseBeat, MarkerFails, Start, Stop, Tick, Second, Suspend, dbVars, Wakes
<1>2. BeatInv'
  BY <1>1, QuietKeepsBeats
<1>3. CASE Tick
  <2>1. PICK i \in DOMAIN rows : anchor' = Append(anchor, [id |-> i, hash |-> rows[i].hash])
    BY <1>3 DEF Tick
  <2> DEFINE e == [id |-> i, hash |-> rows[i].hash]
  <2>2. i \in 1..Len(rows) /\ i \in Nat /\ e \in Entries /\ e.id = i /\ e.hash = rows[i].hash /\ 0 < i
    <3>1. i \in 1..Len(rows) /\ rows[i].hash \in Nat
      BY TypesOf
    <3>2. QED
      BY <3>1, TypesOf DEF Entries
  <2> HIDE DEF e
  <2>3. /\ anchor' \in Seq(Entries) /\ Len(anchor') = Len(anchor) + 1
        /\ \A k \in 1..Len(anchor) : anchor'[k] = anchor[k]
        /\ anchor'[Len(anchor) + 1] = e
    BY <2>1, <2>2, Appended DEF Types, e
  <2>4. Types'
    BY <1>1, <1>3, <2>3 DEF Types, verifyVars, Tick, dbVars, proxyVars
  <2>5. ASSUME NEW k \in 1..Len(anchor')
        PROVE  /\ 0 < anchor'[k].id
               /\ \/ anchor'[k].hash \in lost
                  \/ anchor'[k].id <= Len(rows) /\ rows[anchor'[k].id].hash = anchor'[k].hash
    <3>1. k = Len(anchor) + 1 \/ k \in 1..Len(anchor)
      BY <2>3, TypesOf
    <3>2. CASE k = Len(anchor) + 1
      BY <2>2, <2>3, <3>2, TypesOf
    <3>3. CASE k \in 1..Len(anchor)
      BY <2>3, <3>3 DEF ChainInv
    <3>4. QED
      BY <3>1, <3>2, <3>3
  <2>6. ChainInv'
    BY <1>1, <1>3, <2>5 DEF ChainInv, Tick, dbVars
  <2>7. QED
    BY <1>1, <1>2, <2>4, <2>6, TypesOf, VerifyStands DEF Live
<1>4. CASE LoseBeat \/ MarkerFails \/ Start \/ Stop \/ Second \/ Suspend
  <2>1. anchor' = anchor
    BY <1>4 DEF LoseBeat, MarkerFails, Start, Stop, Second, Suspend
  <2>2. durable' \in Nat /\ durable' <= Len(rows)
    <3>1. CASE Stop
      BY <3>1, TypesOf DEF Stop
    <3>2. CASE LoseBeat \/ MarkerFails \/ Start \/ Second \/ Suspend
      BY <3>2 DEF LoseBeat, MarkerFails, Start, Second, Suspend, dbVars, Types, ChainInv
    <3>3. QED
      BY <1>4, <3>1, <3>2
  <2>3. ChainInv'
    BY <1>1, <2>1, <2>2 DEF ChainInv
  <2>4. /\ running' \in BOOLEAN /\ due' \in BOOLEAN /\ skipped' \in BOOLEAN
        /\ session' \in Nat /\ now' \in Nat /\ woke' \in Nat /\ mishaps' \subseteq Nat
    <3>1. CASE LoseBeat
      BY <3>1 DEF LoseBeat, Types
    <3>2. CASE MarkerFails
      BY <3>2 DEF MarkerFails, Types
    <3>3. CASE Stop
      BY <3>3 DEF Stop, SessionGone, Types
    <3>4. CASE Start
      BY <3>4 DEF Start, Types
    <3>5. CASE Second
      BY <3>5 DEF Second, proxyVars, Types
    <3>6. CASE Suspend
      BY <3>6, JitterIsNat DEF Suspend, proxyVars, Types
    <3>7. QED
      BY <1>4, <3>1, <3>2, <3>3, <3>4, <3>5, <3>6
  <2>5. Types'
    BY <1>1, <2>1, <2>2, <2>4 DEF Types, verifyVars
  <2>6. VerifyInv'
    <3>1. /\ Len(rows) <= Len(rows')
          /\ \A i \in 1..Len(rows) : rows'[i] = rows[i] /\ index'[i] = index[i]
      BY <1>1, TypesOf
    <3>2. QED
      BY <1>1, <2>3, <2>5, <3>1, VerifyStands DEF Live
  <2>7. QED
    BY <1>2, <2>3, <2>5, <2>6
<1>5. QED
  BY <1>3, <1>4

LEMMA PowerLossKeeps ==
  ASSUME WitnessInv, PowerLoss
  PROVE  WitnessInv'
<1> USE DEF WitnessInv
<1>1. PICK n, k \in Nat : Cuts(n, k)
  BY PowerCuts
<1>2. BeatInv' /\ ChainInv'
  BY <1>1, CutsKeepBeats, CutsKeepChain
<1>3. Types'
  <2>1. \A i \in (n + 1)..Len(rows) : rows[i].hash \in Nat
    BY TypesOf
  <2>2. lost' \subseteq Nat
    BY <1>1, <2>1 DEF Cuts, Types
  <2>3. /\ running' \in BOOLEAN /\ due' \in BOOLEAN /\ skipped' \in BOOLEAN /\ woke' \in Nat
        /\ UNCHANGED <<commits, session, now, mishaps, pc, stage, expected, plan, seen>>
    BY DEF PowerLoss, SessionGone, verifyVars
  <2>4. rows' \in Seq(RowsOf) /\ index' \in Seq(Nat) /\ anchor' \in Seq(Entries) /\ durable' \in Nat
    BY <1>1 DEF Cuts
  <2>5. QED
    BY <2>2, <2>3, <2>4 DEF Types
<1>4. VerifyInv'
  BY <1>1, <1>2, <1>3, VerifyStands DEF Cuts, PowerLoss, Live
<1>5. QED
  BY <1>2, <1>3, <1>4

-----------------------------------------------------------------------------
(* The steps of verify. *)

\* Nothing about the beats changes while rows, clock and sessions stand.
LEMMA SameBeats ==
  ASSUME BeatInv, UNCHANGED <<rows, running, session, woke, due, skipped, now, mishaps>>
  PROVE  BeatInv'
<1>1. \A i, s : IsBeat(i, s)' <=> IsBeat(i, s)
  BY DEF IsBeat
<1>2. SessionsInv'
  BY DEF BeatInv, SessionsInv
<1>3. TaskInv'
  <2>1. \A i : IsLast(i)' <=> IsLast(i)
    BY <1>1 DEF IsLast
  <2>2. MaxAllowed' = MaxAllowed
    BY DEF MaxAllowed
  <2>3. QED
    BY <2>1, <2>2 DEF BeatInv, TaskInv
<1>4. Spaced'
  <2>1. \A i, j, s : Follows(i, j, s)' <=> Follows(i, j, s)
    BY <1>1 DEF Follows
  <2>2. MaxAllowed' = MaxAllowed
    BY DEF MaxAllowed
  <2>3. QED
    BY <2>1, <2>2 DEF BeatInv, Spaced
<1>5. QED
  BY <1>2, <1>3, <1>4 DEF BeatInv

LEMMA ReadingKeeps ==
  ASSUME WitnessInv, UNCHANGED Unread
  PROVE  ChainInv' /\ BeatInv' /\ ChainIsIntact'
<1> USE DEF WitnessInv
<1>1. UNCHANGED <<rows, index, durable, commits, running, session, woke, due, skipped, now,
                  anchor, lost, mishaps>>
  BY DEF Unread, dbVars, proxyVars
<1>2. ChainInv'
  BY <1>1 DEF ChainInv
<1>3. BeatInv'
  BY <1>1, SameBeats
<1>4. ChainIsIntact'
  BY <1>1, ChainIntact DEF ChainIsIntact
<1>5. QED
  BY <1>2, <1>3, <1>4

LEMMA ReadingTypes ==
  ASSUME WitnessInv, UNCHANGED Unread,
         pc' \in Places, stage' \in {"check", "plan", "recheck"},
         expected' \in Seq(Flags), plan' \in Seq(Int), seen' \in Seq(RowsOf)
  PROVE  Types'
  BY DEF WitnessInv, Types, Unread, dbVars, proxyVars

LEMMA VerifyKeeps ==
  ASSUME WitnessInv, Verify
  PROVE  WitnessInv'
<1> USE DEF WitnessInv
<1>1. /\ pc = "idle" /\ UNCHANGED <<stage, expected, plan, seen>> /\ UNCHANGED Unread
      /\ rows' = rows /\ index' = index
  BY DEF Verify, Unread, dbVars
<1>2. \/ outcome' \in {"Tampered", "Drift"} /\ pc' = "done"
      \/ outcome' = outcome /\ pc' = "expected"
  <2>1. PICK meta \in {"good", "missing", "unknown", "edited"}, key \in BOOLEAN :
       LET o == MetadataVerdict(meta, key)
       IN  IF o # "none" THEN Conclude(o)
           ELSE IF ~ChainIsIntact THEN Conclude("Tampered")
           ELSE pc' = "expected" /\ UNCHANGED outcome
    BY DEF Verify
  <2>2. MetadataVerdict(meta, key) \in {"Tampered", "Drift", "none"}
    BY DEF MetadataVerdict
  <2>3. QED
    BY <2>1, <2>2 DEF Conclude
<1>3. outcome = "none" /\ expected = <<>> /\ seen = <<>> /\ stage = "check"
  BY <1>1 DEF VerifyInv, PlaceInv
<1>4. ChainInv' /\ BeatInv' /\ ChainIsIntact'
  BY <1>1, ReadingKeeps
<1>5. Types'
  BY <1>1, <1>2, ReadingTypes DEF Types, Places
<1>6. PlaceInv' /\ ReadInv' /\ RepairInv'
  BY <1>1, <1>2, <1>3 DEF VerifyInv, PlaceInv, ReadInv, RepairInv
<1>7. VerdictInv'
  BY <1>1, <1>2, <1>3, <1>4 DEF VerdictInv, CleanIsEarned, AlarmsHaveACause
<1>8. QED
  BY <1>4, <1>5, <1>6, <1>7 DEF VerifyInv

LEMMA ReadExpectedKeeps ==
  ASSUME WitnessInv, ReadExpected
  PROVE  WitnessInv'
<1> USE DEF WitnessInv
<1>1. /\ pc = "expected" /\ pc' = "actual" /\ UNCHANGED <<stage, plan, seen, outcome>>
      /\ UNCHANGED Unread /\ rows' = rows /\ index' = index
      /\ expected' = [i \in DOMAIN rows |-> rows[i].flags]
  BY DEF ReadExpected, Unread, dbVars
<1>2. ChainInv' /\ BeatInv' /\ ChainIsIntact'
  BY <1>1, ReadingKeeps
<1>3. /\ expected' \in Seq(Flags) /\ Len(expected') = Len(rows)
      /\ \A i \in 1..Len(rows) : expected'[i] = rows[i].flags
  <2>1. expected' = [i \in 1..Len(rows) |-> rows[i].flags] /\ Len(rows) \in Nat
    BY <1>1, TypesOf
  <2>2. \A i \in 1..Len(rows) : rows[i].flags \in Flags
    BY TypesOf
  <2>3. QED
    BY <2>1, <2>2
<1>4. Types'
  BY <1>1, <1>3, ReadingTypes DEF Types, Places
<1>5. PlaceInv' /\ ReadInv' /\ RepairInv'
  BY <1>1, <1>3, TypesOf DEF VerifyInv, PlaceInv, ReadInv, RepairInv
<1>6. outcome' = "none"
  BY <1>1 DEF VerifyInv, PlaceInv
<1>7. VerdictInv'
  BY <1>1, <1>2, <1>6 DEF VerdictInv, CleanIsEarned, AlarmsHaveACause
<1>8. QED
  BY <1>2, <1>4, <1>5, <1>7 DEF VerifyInv

LEMMA WantedIs ==
  ASSUME Types, NEW i
  PROVE  Wanted(i) \in Nat
<1>1. i \in DOMAIN expected => expected[i] \in Flags
  BY DEF Types
<1>2. QED
  BY <1>1 DEF Wanted, Flags

\* A row that the expected flags were read from wants its own.
LEMMA WantedOwn ==
  ASSUME WitnessInv, NEW i \in 1..Len(expected)
  PROVE  /\ i \in 1..Len(rows) /\ i \in DOMAIN index /\ expected[i] = rows[i].flags
         /\ rows[i].flags = Bad => Wanted(i) = 0 /\ index[i] = 0
         /\ rows[i].flags # Bad => Wanted(i) = rows[i].flags /\ rows[i].flags \in Nat
         /\ index[i] \in Nat /\ index[i] # Bad
<1> USE DEF WitnessInv
<1>1. /\ i \in 1..Len(rows) /\ i \in DOMAIN index /\ i \in DOMAIN expected
      /\ expected[i] = rows[i].flags
  BY TypesOf DEF VerifyInv, ReadInv, ChainInv
<1>2. index[i] \in Nat /\ rows[i].flags \in Flags
  BY <1>1, TypesOf
<1>3. rows[i].flags = Bad => index[i] = 0
  BY <1>1 DEF ChainInv
<1>4. QED
  BY <1>1, <1>2, <1>3, FlagCountsAssumption DEF Wanted, Flags

LEMMA CompareKeeps ==
  ASSUME WitnessInv, Compare
  PROVE  WitnessInv'
<1> USE DEF WitnessInv
<1>1. /\ pc = "actual" /\ UNCHANGED <<expected, plan, seen>>
      /\ UNCHANGED Unread /\ rows' = rows /\ index' = index
      /\ \/ ~HasDrift /\ pc' = "rows" /\ UNCHANGED <<stage, outcome>>
         \/ HasDrift /\ outcome' = "Drift" /\ pc' = "done" /\ UNCHANGED stage
         \/ stage' = "plan" /\ pc' = "expected" /\ UNCHANGED outcome
  BY DEF Compare, Conclude, Unread, dbVars
<1>2. ChainInv' /\ BeatInv' /\ ChainIsIntact'
  BY <1>1, ReadingKeeps
<1>3. Types'
  BY <1>1, ReadingTypes DEF Types, Places
<1>4. outcome = "none"
  BY <1>1 DEF VerifyInv, PlaceInv
<1>5. PlaceInv' /\ ReadInv'
  BY <1>1, <1>4 DEF VerifyInv, PlaceInv, ReadInv
<1>6. ~HasDrift => Matched
  <2>1. ASSUME ~HasDrift, NEW i \in 1..Len(expected) PROVE index[i] = rows[i].flags
    <3>1. Diff(i) = 0 /\ expected[i] # Bad
      BY <2>1, WantedOwn, TypesOf DEF HasDrift
    <3>2. QED
      BY <3>1, WantedOwn DEF Diff
  <2>2. QED
    BY <2>1 DEF Matched
<1>7. RepairInv'
  BY <1>1, <1>6 DEF RepairInv, Matched
<1>8. HasDrift => (\E i \in 1..Len(expected) : index[i] # rows[i].flags) \/ Len(rows) > Len(expected)
  <2>1. ASSUME NEW i \in DOMAIN index, Diff(i) # 0
        PROVE  (\E j \in 1..Len(expected) : index[j] # rows[j].flags) \/ Len(rows) > Len(expected)
    <3>1. CASE i \in 1..Len(expected)
      <4>1. index[i] # rows[i].flags
        BY <2>1, <3>1, WantedOwn DEF Diff
      <4>2. QED
        BY <3>1, <4>1
    <3>2. CASE i \notin 1..Len(expected)
      BY <3>2, TypesOf DEF ChainInv
    <3>3. QED
      BY <3>1, <3>2
  <2>2. ASSUME NEW i \in DOMAIN expected, expected[i] = Bad
        PROVE  \E j \in 1..Len(expected) : index[j] # rows[j].flags
    BY <2>2, WantedOwn, TypesOf
  <2>3. QED
    BY <2>1, <2>2 DEF HasDrift
<1>9. VerdictInv'
  <2>1. outcome' = "Drift" =>
          (\E i \in Settled' : index'[i] # rows'[i].flags) \/ Len(rows') > Len(expected')
    BY <1>1, <1>4, <1>8, TypesOf DEF Settled
  <2>2. QED
    BY <1>1, <1>2, <1>4, <2>1 DEF VerdictInv, CleanIsEarned, AlarmsHaveACause
<1>10. QED
  BY <1>2, <1>3, <1>5, <1>7, <1>9 DEF VerifyInv

LEMMA PlanKeeps ==
  ASSUME WitnessInv, PlanRepair
  PROVE  WitnessInv'
<1> USE DEF WitnessInv
<1>1. /\ pc = "actual" /\ pc' = "apply" /\ UNCHANGED <<stage, expected, seen, outcome>>
      /\ UNCHANGED Unread /\ rows' = rows /\ index' = index
      /\ plan' = [i \in DOMAIN index |-> Diff(i)]
  BY DEF PlanRepair, Unread, dbVars
<1>2. ChainInv' /\ BeatInv' /\ ChainIsIntact'
  BY <1>1, ReadingKeeps
<1>3. /\ plan' \in Seq(Int) /\ Len(plan') = Len(index)
      /\ \A i \in 1..Len(index) : plan'[i] = Diff(i)
  <2>1. plan' = [i \in 1..Len(index) |-> Diff(i)] /\ Len(index) \in Nat
    BY <1>1, TypesOf
  <2>2. \A i \in 1..Len(index) : Diff(i) \in Int
    BY TypesOf, WantedIs DEF Diff
  <2>3. QED
    BY <2>1, <2>2
<1>4. Types'
  BY <1>1, <1>3, ReadingTypes DEF Types, Places
<1>5. PlaceInv' /\ ReadInv'
  BY <1>1 DEF VerifyInv, PlaceInv, ReadInv
<1>6. RepairInv'
  <2>1. \A i \in 1..Len(index) : Diff(i)' = Diff(i)
    BY <1>1 DEF Diff, Wanted
  <2>2. QED
    BY <1>1, <1>3, <2>1, TypesOf DEF VerifyInv, ReadInv, RepairInv, ChainInv
<1>7. outcome' = "none"
  BY <1>1 DEF VerifyInv, PlaceInv
<1>8. VerdictInv'
  BY <1>1, <1>2, <1>7 DEF VerdictInv, CleanIsEarned, AlarmsHaveACause
<1>9. QED
  BY <1>2, <1>4, <1>5, <1>6, <1>8 DEF VerifyInv

\* The larger of zero and a number.
LEMMA MaxIs ==
  ASSUME NEW a \in Int
  PROVE  Max({0, a}) = IF a > 0 THEN a ELSE 0
<1> DEFINE m == IF a > 0 THEN a ELSE 0
<1>1. m \in {0, a} /\ \A y \in {0, a} : m >= y
  OBVIOUS
<1>2. Max({0, a}) \in {0, a} /\ \A y \in {0, a} : Max({0, a}) >= y
  BY <1>1 DEF Max
<1>3. QED
  BY <1>1, <1>2

LEMMA ApplyKeeps ==
  ASSUME WitnessInv, ApplyRepair
  PROVE  WitnessInv'
<1> USE DEF WitnessInv
<1>1. /\ pc = "apply" /\ pc' = "expected" /\ stage' = "recheck"
      /\ UNCHANGED <<rows, durable, commits, running, session, woke, due, skipped, now,
                     anchor, lost, mishaps, expected, plan, seen, outcome>>
      /\ index' = [i \in DOMAIN index |-> Repaired(i)]
  BY DEF ApplyRepair, proxyVars
<1>2. /\ Len(expected) <= Len(plan) /\ Len(plan) <= Len(index)
      /\ \A i \in 1..Len(plan) : plan[i] = Diff(i)
  BY <1>1 DEF VerifyInv, RepairInv
<1>3. ASSUME NEW i \in 1..Len(index)
      PROVE  Repaired(i) = IF i \in 1..Len(plan) THEN Wanted(i) ELSE index[i]
  <2>1. index[i] \in Nat /\ Wanted(i) \in Nat
    BY TypesOf, WantedIs
  <2>2. CASE i \in 1..Len(plan)
    <3>1. plan[i] = Wanted(i) - index[i]
      BY <1>2, <2>2 DEF Diff
    <3>2. index[i] + plan[i] = Wanted(i)
      BY <2>1, <3>1
    <3>3. Max({0, Wanted(i)}) = Wanted(i)
      BY <2>1, MaxIs
    <3>4. QED
      BY <2>2, <3>2, <3>3, TypesOf DEF Repaired
  <2>3. CASE i \notin 1..Len(plan)
    BY <2>3, TypesOf DEF Repaired
  <2>4. QED
    BY <2>2, <2>3
<1>4. /\ index' \in Seq(Nat) /\ Len(index') = Len(index)
      /\ \A i \in 1..Len(index) : index'[i] = IF i \in 1..Len(plan) THEN Wanted(i) ELSE index[i]
  <2>1. index' = [i \in 1..Len(index) |-> Repaired(i)] /\ Len(index) \in Nat
    BY <1>1, TypesOf
  <2>2. \A i \in 1..Len(index) : Repaired(i) \in Nat
    BY <1>3, TypesOf, WantedIs
  <2>3. QED
    BY <1>3, <2>1, <2>2
<1>5. Types'
  BY <1>1, <1>4 DEF Types, Places
<1>6. ASSUME NEW i \in 1..Len(rows)
      PROVE  index'[i] = 0 \/ (rows[i].flags # Bad /\ index'[i] <= rows[i].flags)
  <2>1. i \in 1..Len(index) /\ Wanted(i) \in Nat
    BY WantedIs DEF ChainInv
  <2>2. CASE i \in 1..Len(plan) /\ i \in 1..Len(expected)
    BY <1>4, <2>1, <2>2, WantedOwn
  <2>3. CASE i \in 1..Len(plan) /\ i \notin 1..Len(expected)
    BY <1>4, <2>1, <2>3, TypesOf DEF Wanted
  <2>4. CASE i \notin 1..Len(plan)
    BY <1>4, <2>1, <2>4 DEF ChainInv
  <2>5. QED
    BY <2>2, <2>3, <2>4
<1>7. ChainInv'
  BY <1>1, <1>4, <1>6 DEF ChainInv
<1>8. BeatInv'
  BY <1>1, SameBeats
<1>9. outcome = "none"
  BY <1>1 DEF VerifyInv, PlaceInv
<1>10. PlaceInv' /\ ReadInv'
  BY <1>1, <1>9 DEF VerifyInv, PlaceInv, ReadInv
<1>11. RepairInv'
  <2>1. ASSUME NEW i \in 1..Len(expected), rows[i].flags # Bad
        PROVE  index'[i] = rows[i].flags
    <3>1. i \in 1..Len(plan) /\ i \in 1..Len(index)
      BY <1>2, TypesOf
    <3>2. QED
      BY <1>4, <2>1, <3>1, WantedOwn
  <2>2. QED
    BY <1>1, <2>1 DEF RepairInv
<1>12. ChainIsIntact'
  BY <1>1, ChainIntact DEF ChainIsIntact
<1>13. VerdictInv'
  BY <1>1, <1>9, <1>12 DEF VerdictInv, CleanIsEarned, AlarmsHaveACause
<1>14. QED
  BY <1>5, <1>7, <1>8, <1>10, <1>11, <1>13 DEF VerifyInv

\* What the gaps among the rows are.
LEMMA GapIs ==
  ASSUME WitnessInv, NEW g, g \in HeartbeatGaps(rows)
  PROVE  /\ g[1] \in 1..Len(rows) /\ g[2] \in 1..Len(rows)
         /\ \E s \in 1..session :
              /\ g[1] < g[2] /\ IsBeat(g[1], s) /\ IsBeat(g[2], s)
              /\ \A k \in (g[1] + 1)..(g[2] - 1) : ~IsBeat(k, s)
         /\ rows[g[2]].time - rows[g[1]].time > MaxAllowed
<1>1. PICK B \in BeatsBySession(rows) :
        /\ g \in B \X B /\ g[1] < g[2] /\ ~\E k \in B : g[1] < k /\ k < g[2]
        /\ rows[g[2]].time - rows[g[1]].time > MaxAllowed
  BY DEF HeartbeatGaps
<1>2. PICK s \in 1..session :
        B = {i \in DOMAIN rows : rows[i].kind = "beat" /\ rows[i].session = s}
  BY <1>1 DEF BeatsBySession
<1>3. g[1] \in B /\ g[2] \in B
  BY <1>1
<1>4. /\ Len(rows) \in Nat /\ DOMAIN rows = 1..Len(rows)
      /\ g[1] \in 1..Len(rows) /\ g[2] \in 1..Len(rows)
  BY <1>2, <1>3, TypesOf DEF WitnessInv
<1>5. IsBeat(g[1], s) /\ IsBeat(g[2], s)
  BY <1>2, <1>3 DEF IsBeat
<1>6. ASSUME NEW k \in (g[1] + 1)..(g[2] - 1) PROVE ~IsBeat(k, s)
  <2>1. k \in 1..Len(rows) /\ g[1] < k /\ k < g[2]
    BY <1>4
  <2>2. QED
    BY <1>1, <1>2, <1>4, <2>1 DEF IsBeat
<1>7. QED
  BY <1>1, <1>4, <1>5, <1>6

\* Beats that are too far apart are a gap.
LEMMA GapFound ==
  ASSUME WitnessInv, NEW i \in 1..Len(rows), NEW j \in 1..Len(rows), i < j,
         rows[i].kind = "beat", rows[j].kind = "beat", rows[i].session = rows[j].session,
         \A k \in i..j : rows[k].kind = "beat" => k \in {i, j},
         rows[j].time - rows[i].time > MaxAllowed
  PROVE  <<i, j>> \in HeartbeatGaps(rows)
<1>1. PICK s \in 1..session : s = rows[i].session
  BY DEF WitnessInv, BeatInv, SessionsInv
<1>2. PICK B : B = {m \in DOMAIN rows : rows[m].kind = "beat" /\ rows[m].session = s}
  OBVIOUS
<1>3. B \in BeatsBySession(rows)
  BY <1>2 DEF BeatsBySession
<1>4. DOMAIN rows = 1..Len(rows) /\ Len(rows) \in Nat
  BY TypesOf DEF WitnessInv
<1>5. i \in B /\ j \in B
  BY <1>1, <1>2, <1>4
<1>6. ASSUME NEW k \in B, i < k, k < j PROVE FALSE
  <2>1. k \in i..j /\ k # i /\ k # j /\ rows[k].kind = "beat"
    BY <1>2, <1>4, <1>6
  <2>2. QED
    BY <2>1
<1>7. \A g : g = <<i, j>> => g \in B \X B /\ g[1] = i /\ g[2] = j
  BY <1>5
<1>8. QED
  BY <1>3, <1>6, <1>7 DEF HeartbeatGaps

LEMMA ReadRowsKeeps ==
  ASSUME WitnessInv, ReadRows
  PROVE  WitnessInv'
<1> USE DEF WitnessInv
<1>1. /\ pc = "rows" /\ seen' = rows /\ UNCHANGED <<stage, expected, plan>>
      /\ UNCHANGED Unread
      /\ rows' = rows /\ index' = index /\ session' = session /\ anchor' = anchor
      /\ lost' = lost /\ mishaps' = mishaps
  BY DEF ReadRows, Unread, dbVars, proxyVars
<1>2. PICK config \in BOOLEAN :
        IF \E i \in DOMAIN rows : rows[i].kind = "gap" THEN Conclude("AuditGap")
        ELSE IF ~Checked(config) THEN Conclude("Clean")
        ELSE IF HeartbeatGaps(rows) # {} THEN Conclude("HeartbeatGap")
        ELSE pc' = "anchor" /\ UNCHANGED outcome
  BY DEF ReadRows
<1> DEFINE marked == \E i \in 1..Len(rows) : rows[i].kind = "gap"
<1>3. \/ outcome' = "AuditGap" /\ pc' = "done"
      \/ outcome' = "Clean" /\ pc' = "done" /\ ~GenesisChecks
      \/ ~marked /\ HeartbeatGaps(rows) # {} /\ outcome' = "HeartbeatGap" /\ pc' = "done"
      \/ ~marked /\ HeartbeatGaps(rows) = {} /\ outcome' = outcome /\ pc' = "anchor"
  BY <1>2, TypesOf DEF Conclude, Checked
<1>4. ChainInv' /\ BeatInv' /\ ChainIsIntact'
  BY <1>1, ReadingKeeps
<1>5. Types'
  BY <1>1, <1>3, ReadingTypes DEF Types, Places
<1>6. outcome = "none"
  BY <1>1 DEF VerifyInv, PlaceInv
<1>7. PlaceInv' /\ ReadInv' /\ RepairInv'
  <2>1. PlaceInv'
    BY <1>1, <1>3, <1>6 DEF PlaceInv
  <2>2. ReadInv'
    BY <1>1, TypesOf DEF VerifyInv, ReadInv
  <2>3. RepairInv'
    BY <1>1, <1>3 DEF VerifyInv, RepairInv, Matched
  <2>4. QED
    BY <2>1, <2>2, <2>3
<1>8. HeartbeatGaps(seen)' = HeartbeatGaps(rows)
  BY <1>1 DEF HeartbeatGaps, BeatsBySession, MaxAllowed
<1>9. ASSUME ~marked, HeartbeatGaps(rows) # {}
      PROVE  \E g \in HeartbeatGaps(rows) : rows[g[1]].session \in mishaps
  <2>1. PICK g : g \in HeartbeatGaps(rows)
    BY <1>9
  <2>2. /\ g[1] \in 1..Len(rows) /\ g[2] \in 1..Len(rows)
        /\ \E s \in 1..session :
             /\ g[1] < g[2] /\ IsBeat(g[1], s) /\ IsBeat(g[2], s)
             /\ \A k \in (g[1] + 1)..(g[2] - 1) : ~IsBeat(k, s)
        /\ rows[g[2]].time - rows[g[1]].time > MaxAllowed
    BY <2>1, GapIs
  <2>3. PICK s \in 1..session :
          /\ g[1] < g[2] /\ IsBeat(g[1], s) /\ IsBeat(g[2], s)
          /\ \A k \in (g[1] + 1)..(g[2] - 1) : ~IsBeat(k, s)
    BY <2>2
  <2>4. Follows(g[1], g[2], s)
    <3>1. \A k \in (g[1] + 1)..(g[2] - 1) : k \in 1..Len(rows)
      BY <2>2, TypesOf
    <3>2. QED
      BY <1>9, <2>3, <3>1 DEF Follows
  <2>5. s \in mishaps
    <3>1. rows[g[1]].time \in Nat /\ rows[g[2]].time \in Nat
      BY <2>2, TypesOf
    <3>2. QED
      BY <2>2, <2>4, <3>1, JitterIsNat DEF BeatInv, Spaced
  <2>6. QED
    BY <2>1, <2>3, <2>5 DEF IsBeat
<1>10. ASSUME ~marked, HeartbeatGaps(rows) = {}
       PROVE  InTime'
  <2>1. \A i \in 1..Len(rows) : rows[i].kind # "gap"
    BY <1>10
  <2>2. ASSUME NEW i \in 1..Len(rows), NEW j \in 1..Len(rows), i < j,
               rows[i].kind = "beat", rows[j].kind = "beat", rows[i].session = rows[j].session,
               \A k \in i..j : rows[k].kind = "beat" => k \in {i, j}
        PROVE  rows[j].time - rows[i].time <= MaxAllowed
    <3>1. ~(rows[j].time - rows[i].time > MaxAllowed)
      BY <1>10, <2>2, GapFound
    <3>2. rows[i].time \in Nat /\ rows[j].time \in Nat
      BY TypesOf
    <3>3. QED
      BY <3>1, <3>2, JitterIsNat
  <2>3. QED
    BY <1>1, <2>1, <2>2 DEF InTime, MaxAllowed
<1>11. VerdictInv'
  <2>1. pc' = "anchor" /\ GenesisChecks => InTime'
    BY <1>3, <1>10
  <2>2. CleanIsEarned'
    BY <1>3, <1>6 DEF CleanIsEarned
  <2>3. outcome' = "HeartbeatGap" =>
          \E g \in HeartbeatGaps(seen)' : seen'[g[1]].session \in mishaps'
    BY <1>1, <1>3, <1>6, <1>8, <1>9
  <2>4. outcome' \notin {"AnchorMismatch", "Drift"}
    BY <1>3, <1>6
  <2>5. AlarmsHaveACause'
    BY <1>4, <2>3, <2>4 DEF AlarmsHaveACause
  <2>6. QED
    BY <2>1, <2>2, <2>5 DEF VerdictInv
<1>12. QED
  BY <1>4, <1>5, <1>7, <1>11 DEF VerifyInv

LEMMA ReadAnchorKeeps ==
  ASSUME WitnessInv, ReadAnchor
  PROVE  WitnessInv'
<1> USE DEF WitnessInv
<1>1. /\ pc = "anchor" /\ pc' = "done" /\ UNCHANGED <<stage, expected, plan, seen>>
      /\ UNCHANGED Unread
      /\ rows' = rows /\ index' = index /\ anchor' = anchor /\ lost' = lost
      /\ outcome' = IF \A k \in DOMAIN anchor : Matches(anchor[k]) THEN "Clean" ELSE "AnchorMismatch"
  BY DEF ReadAnchor, Unread, dbVars, Conclude
<1>2. ChainInv' /\ BeatInv' /\ ChainIsIntact'
  BY <1>1, ReadingKeeps
<1>3. Types'
  BY <1>1, ReadingTypes DEF Types, Places
<1>4. PlaceInv' /\ ReadInv' /\ RepairInv'
  BY <1>1 DEF VerifyInv, PlaceInv, ReadInv, RepairInv
<1>5. \A k \in 1..Len(anchor) : Matches(anchor[k]) => anchor[k].hash \notin lost
  <2>1. ASSUME NEW k \in 1..Len(anchor), Matches(anchor[k]) PROVE anchor[k].hash \notin lost
    <3>1. anchor[k].id \in 1..Len(seen) /\ seen[anchor[k].id].hash = anchor[k].hash
      BY <2>1, TypesOf DEF Matches
    <3>2. anchor[k].id \in 1..Len(rows) /\ seen[anchor[k].id] = rows[anchor[k].id]
      BY <3>1, TypesOf DEF VerifyInv, ReadInv
    <3>3. QED
      BY <3>1, <3>2 DEF ChainInv
  <2>2. QED
    BY <2>1
<1>6. \A k \in 1..Len(anchor) :
        ~Matches(anchor[k]) => anchor[k].hash \in lost \/ anchor[k].id > Len(seen)
  <2>1. ASSUME NEW k \in 1..Len(anchor), ~Matches(anchor[k]), anchor[k].hash \notin lost
        PROVE  anchor[k].id > Len(seen)
    <3>1. anchor[k].id \in Nat /\ 0 < anchor[k].id /\ rows[anchor[k].id].hash = anchor[k].hash
      BY <2>1, TypesOf DEF ChainInv
    <3>2. CASE anchor[k].id \in 1..Len(seen)
      <4>1. seen[anchor[k].id] = rows[anchor[k].id]
        BY <3>2 DEF VerifyInv, ReadInv
      <4>2. QED
        BY <2>1, <3>1, <3>2, <4>1, TypesOf DEF Matches
    <3>3. QED
      BY <3>1, <3>2, TypesOf
  <2>2. QED
    BY <2>1
<1>7. CleanIsEarned'
  <2>1. SUFFICES ASSUME outcome' = "Clean", GenesisChecks
                 PROVE  /\ \A k \in DOMAIN anchor : anchor[k].hash \notin lost
                        /\ InTime
                        /\ Matched
    BY <1>1, TypesOf DEF CleanIsEarned, InTime, Matched, Settled, MaxAllowed
  <2>2. \A k \in DOMAIN anchor : anchor[k].hash \notin lost
    BY <1>1, <1>5, <2>1, TypesOf
  <2>3. InTime /\ Matched
    BY <1>1, <2>1 DEF VerifyInv, VerdictInv, RepairInv
  <2>4. QED
    BY <2>2, <2>3
<1>8. AlarmsHaveACause'
  <2>1. outcome' = "AnchorMismatch" =>
          \E k \in DOMAIN anchor : anchor[k].hash \in lost \/ anchor[k].id > Len(seen)
    BY <1>1, <1>6, TypesOf
  <2>2. outcome' \notin {"HeartbeatGap", "Drift"}
    BY <1>1
  <2>3. QED
    BY <1>1, <1>2, <2>1, <2>2 DEF AlarmsHaveACause
<1>9. QED
  BY <1>1, <1>2, <1>3, <1>4, <1>7, <1>8 DEF VerifyInv, VerdictInv

-----------------------------------------------------------------------------
(* The steps together, and what they promise. *)

LEMMA InitHolds == Init => WitnessInv
<1> SUFFICES ASSUME Init PROVE WitnessInv
  OBVIOUS
<1>1. Len(rows) = 0 /\ Len(index) = 0 /\ Len(anchor) = 0 /\ Len(expected) = 0 /\ Len(seen) = 0
  BY DEF Init
<1>2. Types
  <2>1. /\ rows \in Seq(RowsOf) /\ index \in Seq(Nat) /\ anchor \in Seq(Entries)
        /\ expected \in Seq(Flags) /\ plan \in Seq(Int) /\ seen \in Seq(RowsOf)
    <3>1. \A S : <<>> \in Seq(S)
      OBVIOUS
    <3>2. rows = <<>> /\ index = <<>> /\ anchor = <<>> /\ expected = <<>> /\ plan = <<>> /\ seen = <<>>
      BY DEF Init
    <3>3. QED
      BY <3>1, <3>2
  <2>2. QED
    BY <2>1 DEF Init, Types, Places
<1>3. ChainInv
  BY <1>1 DEF Init, ChainInv
<1>4. BeatInv
  BY <1>1 DEF Init, BeatInv, SessionsInv, TaskInv, Spaced
<1>5. VerifyInv
  BY <1>1 DEF Init, VerifyInv, PlaceInv, ReadInv, RepairInv, VerdictInv, CleanIsEarned,
              AlarmsHaveACause
<1>6. QED
  BY <1>2, <1>3, <1>4, <1>5 DEF WitnessInv

LEMMA StutterKeeps == WitnessInv /\ UNCHANGED vars => WitnessInv'
<1> SUFFICES ASSUME WitnessInv, UNCHANGED vars PROVE WitnessInv'
  OBVIOUS
<1> USE DEF WitnessInv
<1>1. UNCHANGED <<pc, stage, expected, plan, seen, outcome>> /\ UNCHANGED Unread
      /\ UNCHANGED <<rows, index, session, anchor, lost, mishaps>>
  BY DEF vars, verifyVars, Unread, dbVars, proxyVars
<1>2. ChainInv' /\ BeatInv' /\ ChainIsIntact'
  BY <1>1, ReadingKeeps
<1>3. Types'
  BY <1>1, ReadingTypes DEF Types
<1>4. PlaceInv' /\ ReadInv' /\ RepairInv'
  BY <1>1 DEF VerifyInv, PlaceInv, ReadInv, RepairInv, Matched, Diff, Wanted
<1>5. InTime' <=> InTime
  BY <1>1 DEF InTime, MaxAllowed
<1>6. CleanIsEarned'
  BY <1>1 DEF VerifyInv, VerdictInv, CleanIsEarned, Settled, MaxAllowed
<1>7. HeartbeatGaps(seen)' = HeartbeatGaps(seen)
  BY <1>1 DEF HeartbeatGaps, BeatsBySession, MaxAllowed
<1>8. AlarmsHaveACause'
  BY <1>1, <1>2, <1>7 DEF VerifyInv, VerdictInv, AlarmsHaveACause, Settled
<1>9. QED
  BY <1>1, <1>2, <1>3, <1>4, <1>5, <1>6, <1>8 DEF VerifyInv, VerdictInv

LEMMA NextKeeps == WitnessInv /\ [Next]_vars => WitnessInv'
<1> SUFFICES ASSUME WitnessInv, [Next]_vars PROVE WitnessInv'
  OBVIOUS
<1>1. CASE Proxy
  BY <1>1, RowsKeep, QuietKeeps DEF Proxy
<1>2. CASE World
  BY <1>2, QuietKeeps, PowerLossKeeps DEF World
<1>3. CASE Run
  BY <1>3, VerifyKeeps, ReadExpectedKeeps, CompareKeeps, PlanKeeps, ApplyKeeps,
     ReadRowsKeeps, ReadAnchorKeeps DEF Run
<1>4. CASE UNCHANGED vars
  BY <1>4, StutterKeeps
<1>5. QED
  BY <1>1, <1>2, <1>3, <1>4 DEF Next

\* The log is one chain, under hashes that never come again, whatever power
\* losses take back; what verify has read of it is still there while it goes on
\* reading; and beats of a session that met with no mishap are in time, or have
\* a marker of lost calls between them (insert_row_with_key,
\* heartbeat::run, persist_audit_gap, verify::run).
THEOREM TheLogIsAWitness == Spec => []WitnessInv
<1>1. QED
  BY InitHolds, NextKeeps, PTL DEF Spec

\* When verify finds nothing, there is nothing to find: no row the anchor names
\* is lost, though its id was given again, no heartbeat among the rows it read
\* is overdue, no marker of lost calls is among them, and the index has the
\* flags of all rows that were compared (verify::run and finish_clean, whose
\* statements the proxy's writes and repairs may come between).
THEOREM CleanVerdictsAreEarned == Spec => []CleanIsEarned
<1>1. WitnessInv => CleanIsEarned
  BY DEF WitnessInv, VerifyInv, VerdictInv
<1>2. QED
  BY <1>1, TheLogIsAWitness, PTL

\* No alarm without a cause: not from the proxy's own writes, restarts and
\* failures between verify's statements (find_heartbeat_gaps,
\* verify_anchor_against_chain, check_redaction_consistency,
\* verify_chain_with_key).
THEOREM AlarmsAreNotFalse == Spec => []AlarmsHaveACause
<1>1. WitnessInv => AlarmsHaveACause
  BY DEF WitnessInv, VerifyInv, VerdictInv
<1>2. QED
  BY <1>1, TheLogIsAWitness, PTL

\* Behind a repair the index of every row that was there when its plan was begun
\* is exactly what the row's flags name, though the proxy has written rows since;
\* of those the plan may take the index rows away
\* (plan_redaction_repair, apply_redaction_repair).
THEOREM PlannedRowsAreRepaired == Spec => []PlannedRowsAgree
<1>1. WitnessInv => PlannedRowsAgree
  <2>1. SUFFICES ASSUME WitnessInv PROVE PlannedRowsAgree
    OBVIOUS
  <2>2. Settled = 1..Len(expected)
    BY TypesOf DEF WitnessInv, Settled
  <2>3. QED
    BY <2>1, <2>2 DEF WitnessInv, VerifyInv, RepairInv, PlannedRowsAgree
<1>2. QED
  BY <1>1, TheLogIsAWitness, PTL
=============================================================================
