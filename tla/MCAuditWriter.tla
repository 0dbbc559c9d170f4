--------------------------- MODULE MCAuditWriter ----------------------------
(* AuditWriter on a small instance: p1 alone with a burst of MaxCalls calls, *)
(* and p1 with a few calls beside a competitor p2.                           *)
EXTENDS AuditWriter

CONSTANTS p1, p2

\* Nothing of p2 has failed so far, and it was not killed.
Undisturbed ==
  lost[p2] = {} /\ ack[p2] = "none" /\ exit[p2] # "error" /\ life[p2] # "cut"

\* Bound: beside p2, which logs one call, p1 logs two, or three as long as p2 is
\* undisturbed.
FewBeside ==
  \/ life'[p2] = "off"
  \/ /\ sent'[p2] <= 1
     /\ sent'[p1] <= IF Undisturbed' THEN 3 ELSE 2
=============================================================================
