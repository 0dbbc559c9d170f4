------------------------------ MODULE CallLedger -------------------------------
(***************************************************************************)
(* What a session promises about the tool calls that pass it, whatever the *)
(* transport: every call it starts to track gets exactly one row, with the *)
(* outcome of its answer or as a time-out, and nothing is tracked after    *)
(* the session has written off what was left.                              *)
(***************************************************************************)
EXTENDS Sequences

CONSTANT Calls

VARIABLES open,     \* the calls that are tracked and have no row yet
          record,   \* for every call the outcomes of its rows, in order
          closed    \* what was left has been written off

vars == <<open, record, closed>>

Outcomes == {"answer", "timeout"}

Init == /\ open = {}
        /\ record = [c \in Calls |-> <<>>]
        /\ closed = FALSE

\* A call is tracked once; it may displace one that waits under its id.
Register(c, stale) ==
  /\ ~closed
  /\ c \notin open /\ record[c] = <<>>
  /\ stale \subseteq open
  /\ open' = (open \ stale) \cup {c}
  /\ record' = [d \in Calls |-> IF d \in stale THEN Append(record[d], "timeout")
                                ELSE record[d]]
  /\ UNCHANGED closed

\* Several may be settled together: the answers of one body, the calls that a
\* connection leaves behind.
Settle(settled, outcome) ==
  /\ settled # {} /\ settled \subseteq open
  /\ open' = open \ settled
  /\ record' = [d \in Calls |-> IF d \in settled THEN Append(record[d], outcome)
                                ELSE record[d]]
  /\ UNCHANGED closed

Close == /\ ~closed /\ open = {}
         /\ closed' = TRUE
         /\ UNCHANGED <<open, record>>

Next == \/ \E c \in Calls, stale \in SUBSET open : Register(c, stale)
        \/ \E settled \in SUBSET open, outcome \in Outcomes : Settle(settled, outcome)
        \/ Close

Spec == Init /\ [][Next]_vars
=============================================================================
