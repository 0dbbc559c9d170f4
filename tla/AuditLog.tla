------------------------------ MODULE AuditLog ------------------------------
(***************************************************************************)
(* What the audit database promises, whoever writes it: one chain shared   *)
(* by every process, that only grows, in which each row commits to the row *)
(* before it; the calls of one process in the order they were logged, each *)
(* recorded once or lost once; and gap markers that together never declare *)
(* more losses than there were.                                            *)
(*                                                                         *)
(* A hash is identified with the position of the row it belongs to (0 is   *)
(* the genesis sentinel), which is what collision resistance gives: two    *)
(* rows have one hash only if they are the same row.                       *)
(***************************************************************************)
EXTENDS Naturals, Sequences, FiniteSets

CONSTANTS
  Procs,                \* the processes that share the database
  MaxCalls              \* the number of calls one process logs at most

VARIABLES
  chain,                \* the committed rows of tool_calls, in id order
  lost,                 \* per process, the calls that will never be recorded
  declared              \* per process, the losses its gap markers declare

logVars == <<chain, lost, declared>>

Calls == 1..MaxCalls

Rows == [proc : Procs, kind : {"call", "gap"}, n : Nat, prev : Nat]

\* A row as it is built over a given chain head.
NewRow(p, kind, n, head) ==
  [proc |-> p, kind |-> kind, n |-> n, prev |-> head]

\* The calls of p the chain c holds.
RecordedIn(c, p) ==
  {n \in Calls : \E i \in DOMAIN c :
                    c[i].proc = p /\ c[i].kind = "call" /\ c[i].n = n}

LogInit ==
  /\ chain = <<>>
  /\ lost = [p \in Procs |-> {}]
  /\ declared = [p \in Procs |-> 0]

\* A call is recorded, linked to the head of the chain, after every
\* recorded call of its process.
Record(p) ==
  /\ \E n \in Calls \ lost[p] :
       /\ \A m \in RecordedIn(chain, p) : m < n
       /\ chain' = Append(chain, NewRow(p, "call", n, Len(chain)))
  /\ UNCHANGED <<lost, declared>>

\* A call that is not recorded is given up, for good.
Lose(p) ==
  /\ \E n \in Calls \ (lost[p] \cup RecordedIn(chain, p)) :
       lost' = [lost EXCEPT ![p] = @ \cup {n}]
  /\ UNCHANGED <<chain, declared>>

\* A marker declares k losses that have happened and that no earlier marker
\* of the process counts.
Declare(p) ==
  /\ \E k \in 1..Cardinality(lost[p]) :
       /\ declared[p] + k <= Cardinality(lost[p])
       /\ chain' = Append(chain, NewRow(p, "gap", k, Len(chain)))
       /\ declared' = [declared EXCEPT ![p] = @ + k]
  /\ UNCHANGED lost

LogNext == \E p \in Procs : Record(p) \/ Lose(p) \/ Declare(p)

LogSpec == LogInit /\ [][LogNext]_logVars
=============================================================================
