----------------------------- MODULE SessionProofs -----------------------------
(***************************************************************************)
(* Theorems about a session. StdioSession, for any number of calls, ids    *)
(* that are reused in any way, and any number of heartbeats: the session   *)
(* keeps its books, and implements the ledger. Anomaly, for any calls: the *)
(* rules that see them flag a burst once.                                  *)
(***************************************************************************)
EXTENDS StdioSession, Anomaly, SequenceTheorems, FiniteSetTheorems, WellFoundedInduction, TLAPS

\* Where run is before it stops the input, before it takes the pumps' senders,
\* before it drains, and behind the session's end.
Early == {"run", "stopInput"}
InputOpen == Early \cup {"waitInput"}
OutputOpen == InputOpen \cup {"waitOutput", "stopResponses"}
Undrained == OutputOpen \cup {"drain"}
Closed == {"logEnd", "waitWriter", "openGate", "done"}

\* The pumps' places, as in TypeOK.
InPlaces == [pc : {"recv", "register", "write", "ended"}, todo : Seq(Calls),
             line : Seq(Calls), aborted : BOOLEAN]
OutPlaces == [pc : {"read", "send", "log", "ended"}, msgs : Seq(Messages), aborted : BOOLEAN]

\* The calls that the session knows.
Tracked == pending \cup abandoned \cup Logged

\* What run has closed by where it is.
PhaseInv ==
  /\ accepting <=> main \in Early
  /\ inboundDb <=> main \in InputOpen
  /\ responding <=> main \in OutputOpen
  /\ outboundDb <=> main \in OutputOpen
  /\ beating <=> main \notin Closed
  /\ ended <=> main \in Closed \ {"logEnd"}
  /\ gate <=> main = "done"
  /\ main \in {"openGate", "done"} => writer # "open"
  /\ console = "killed" => gate
  /\ in.pc = "register" => accepting

\* A call is in one of the session's books, and has at most one row.
BooksInv ==
  /\ \A c \in Calls : rows[c] = <<>> \/ Len(rows[c]) = 1
  /\ \A c \in pending \cup abandoned : rows[c] = <<>>
  /\ pending \cap abandoned = {}
  /\ main \notin Undrained => pending = {}
  /\ main # "logAbandoned" => abandoned = {}

\* What is still to be registered of a line is new, and once the line can be
\* written all of it is known.
LineInv ==
  /\ in.pc = "register" =>
       /\ \A i \in DOMAIN in.todo : in.todo[i] \notin Tracked
       /\ \A i, j \in DOMAIN in.todo : in.todo[i] = in.todo[j] => i = j
       /\ Range(in.line) \subseteq Tracked \cup Range(in.todo)
  /\ in.pc = "write" => Range(in.line) \subseteq Tracked
  /\ ReceivedIsTracked

\* An answer that the client has been given, of a call that still waits, is in
\* the outbound pump's hands.
AnswerInv ==
  /\ \A i \in DOMAIN out.msgs :
       out.msgs[i].of # NoCall => out.msgs[i].id = IdOf[out.msgs[i].of]
  /\ Answers(out.msgs) \subseteq answered
  /\ outTimedOut => main \notin InputOpen \cup {"waitOutput"}
  /\ out.pc = "ended" \/ outTimedOut \/ main \in InputOpen \cup {"waitOutput"}
  /\ \A c \in forwarded \cap (pending \cup abandoned) :
       outTimedOut \/ (out.pc = "log" /\ c \in Answers(out.msgs))
  /\ main \in Undrained => \A c \in Calls : Row("timeout", "drain") \notin Range(rows[c])

SessionInv == TypeOK /\ PhaseInv /\ BooksInv /\ LineInv /\ AnswerInv /\ TimeoutMeansUnanswered

-----------------------------------------------------------------------------
(* Lemmas about rows. *)

LEMMA FirstRow ==
  ASSUME rows \in [Calls -> Seq(Rows)], NEW c \in Calls, rows[c] = <<>>,
         NEW o, NEW b, Row(o, b) \in Rows, AddRow(c, o, b)
  PROVE  /\ rows' \in [Calls -> Seq(Rows)]
         /\ rows' = [rows EXCEPT ![c] = <<Row(o, b)>>]
         /\ Logged' = Logged \cup {c}
<1>1. Append(rows[c], Row(o, b)) = <<Row(o, b)>>
  OBVIOUS
<1>2. rows' = [rows EXCEPT ![c] = <<Row(o, b)>>]
  BY <1>1 DEF AddRow
<1>3. rows' \in [Calls -> Seq(Rows)]
  BY <1>2
<1>4. <<Row(o, b)>> # <<>>
  OBVIOUS
<1>5. QED
  BY <1>2, <1>3, <1>4 DEF Logged

LEMMA LineShape ==
  ASSUME NEW line \in Lines
  PROVE  line \in Seq(Calls) /\ \A i, j \in DOMAIN line : line[i] = line[j] => i = j
<1>1. CASE \E c \in Calls : line = <<c>>
  <2>1. PICK c \in Calls : line = <<c>>
    BY <1>1
  <2>2. DOMAIN <<c>> = {1}
    OBVIOUS
  <2>3. QED
    BY <2>1, <2>2
<1>2. CASE \E c, d \in Calls : c # d /\ line = <<c, d>>
  <2>1. PICK c \in Calls, d \in Calls : c # d /\ line = <<c, d>>
    BY <1>2
  <2>2. DOMAIN <<c, d>> = {1, 2} /\ <<c, d>>[1] = c /\ <<c, d>>[2] = d /\ <<c, d>> \in Seq(Calls)
    OBVIOUS
  <2>3. QED
    BY <2>1, <2>2
<1>3. QED
  BY <1>1, <1>2 DEF Lines

LEMMA TailShape ==
  ASSUME NEW S, NEW q \in Seq(S), q # <<>>
  PROVE  /\ Head(q) \in S /\ 1 \in DOMAIN q /\ Head(q) = q[1]
         /\ Tail(q) \in Seq(S)
         /\ \A i \in DOMAIN Tail(q) : i + 1 \in DOMAIN q /\ i + 1 # 1 /\ Tail(q)[i] = q[i + 1]
         /\ Range(q) \subseteq {Head(q)} \cup Range(Tail(q))
         /\ \A i \in DOMAIN q : q[i] = Head(q) \/ q[i] \in Range(Tail(q))
<1>1. /\ Len(q) \in Nat /\ Len(q) > 0 /\ DOMAIN q = 1..Len(q)
      /\ Head(q) = q[1] /\ Tail(q) \in Seq(S)
      /\ Len(Tail(q)) = Len(q) - 1 /\ DOMAIN Tail(q) = 1..(Len(q) - 1)
      /\ \A i \in 1..(Len(q) - 1) : Tail(q)[i] = q[i + 1]
  OBVIOUS
<1>2. ASSUME NEW i \in DOMAIN q PROVE q[i] = Head(q) \/ q[i] \in Range(Tail(q))
  <2>1. CASE i = 1
    BY <1>1, <2>1
  <2>2. CASE i # 1
    <3>1. i - 1 \in DOMAIN Tail(q) /\ Tail(q)[i - 1] = q[i]
      BY <1>1, <2>2
    <3>2. QED
      BY <3>1 DEF Range
  <2>3. QED
    BY <2>1, <2>2
<1>3. QED
  BY <1>1, <1>2 DEF Range

-----------------------------------------------------------------------------
(* Client to target *)

LEMMA InputEndsKeeps == SessionInv /\ InputEnds => SessionInv'
<1> SUFFICES ASSUME SessionInv, InputEnds PROVE SessionInv'
  OBVIOUS
<1>1. TypeOK'
  <2>1. in' \in InPlaces
    BY <<>> \in Seq(Calls) DEF SessionInv, InputEnds, EndInbound, TypeOK, InPlaces
  <2>2. QED
    BY <2>1 DEF SessionInv, InputEnds, TypeOK, InPlaces, session, shutdown, world, log
<1>2. PhaseInv' /\ BooksInv'
  BY DEF SessionInv, InputEnds, PhaseInv, BooksInv, EndInbound, TypeOK, session, shutdown, world, log
<1>3. LineInv'
  BY DEF SessionInv, InputEnds, LineInv, EndInbound, TypeOK, session, shutdown, world, log,
     ReceivedIsTracked, Logged
<1>4. AnswerInv' /\ TimeoutMeansUnanswered'
  BY DEF SessionInv, InputEnds, AnswerInv, TimeoutMeansUnanswered, Answers, session, shutdown, world, log
<1>5. QED
  BY <1>1, <1>2, <1>3, <1>4 DEF SessionInv

LEMMA ReceiveKeeps == SessionInv /\ Receive => SessionInv'
<1> SUFFICES ASSUME SessionInv, Receive PROVE SessionInv'
  OBVIOUS
<1> USE DEF SessionInv
<1>1. PICK line \in Lines :
        /\ Range(line) \cap Sent = {}
        /\ IF BeginInput
             THEN in' = [in EXCEPT !.pc = "register", !.todo = TrackedOf(line), !.line = line]
             ELSE EndInbound
  BY DEF Receive
<1>2. /\ in.pc = "recv"
      /\ UNCHANGED <<session, out, inboundDb, outboundDb, beating, shutdown, world, log>>
  BY DEF Receive
<1>3. line \in Seq(Calls) /\ \A i, j \in DOMAIN line : line[i] = line[j] => i = j
  BY LineShape
<1>5. TypeOK'
  <2>1. in' \in InPlaces
    <3>1. CASE BeginInput
      BY <1>1, <1>3, <3>1 DEF TypeOK, InPlaces, TrackedOf
    <3>2. CASE ~BeginInput
      BY <1>1, <3>2, <<>> \in Seq(Calls) DEF TypeOK, InPlaces, EndInbound
    <3>3. QED
      BY <3>1, <3>2
  <2>2. QED
    BY <1>2, <2>1 DEF TypeOK, InPlaces, session, shutdown, world, log
<1>6. PhaseInv' /\ BooksInv'
  BY <1>1, <1>2 DEF PhaseInv, BooksInv, EndInbound, BeginInput, TypeOK, session, shutdown, world, log, Logged
<1>7. LineInv'
  <2>1. Tracked' = Tracked /\ received' = received
    BY <1>2 DEF Tracked, Logged, session, shutdown, world, log
  <2>2. \A i \in DOMAIN line : line[i] \notin Tracked
    BY <1>1 DEF Sent, Tracked, Range
  <2>3. CASE BeginInput
    <3>1. in'.todo = line /\ in'.line = line /\ in'.pc = "register"
      BY <1>1, <2>3 DEF TrackedOf, TypeOK
    <3>2. QED
      BY <1>3, <2>1, <2>2, <3>1 DEF LineInv, ReceivedIsTracked, Tracked
  <2>4. CASE ~BeginInput
    <3>1. in'.pc = "ended"
      BY <1>1, <2>4 DEF EndInbound, TypeOK
    <3>2. QED
      BY <2>1, <3>1 DEF LineInv, ReceivedIsTracked, Tracked
  <2>5. QED
    BY <2>3, <2>4
<1>8. AnswerInv' /\ TimeoutMeansUnanswered'
  BY <1>2 DEF AnswerInv, TimeoutMeansUnanswered, Answers, session, shutdown, world, log
<1>9. QED
  BY <1>5, <1>6, <1>7, <1>8

\* The call that a registration displaces is logged, so that no call is forgotten.
Registers(c, stale) ==
  /\ c = Head(in.todo) /\ c \notin Tracked
  /\ abandoned = {} /\ main \in Early
  /\ \A d \in pending : IdOf[d] = IdOf[c] <=> d \in stale
  /\ pending' = (pending \ stale) \cup {c}
  /\ Tracked' = Tracked \cup {c}
  /\ \/ stale = {} /\ rows' = rows
     \/ \E d \in pending :
          /\ stale = {d} /\ rows[d] = <<>>
          /\ rows' = [rows EXCEPT ![d] = <<Row("timeout", "reuse")>>]
  /\ rows' \in [Calls -> Seq(Rows)]

LEMMA Registered ==
  ASSUME SessionInv, RegisterNext
  PROVE  \E c \in Calls, stale \in SUBSET pending : Registers(c, stale)
<1> USE DEF SessionInv, Registers
<1> DEFINE c == Head(in.todo)
           stale == Displaced(c)
<1>1. /\ in.pc = "register" /\ in.todo \in Seq(Calls) /\ in.todo # <<>>
      /\ pending' = (pending \ stale) \cup {c} /\ abandoned' = abandoned
  BY DEF RegisterNext, TypeOK, shutdown
<1>2. c \in Calls /\ c \notin Tracked
  BY <1>1, TailShape DEF LineInv
<1>3. main \in Early /\ inboundDb /\ abandoned = {}
  BY <1>1 DEF PhaseInv, BooksInv, Early, InputOpen
<1>4. stale \in SUBSET pending /\ \A d \in pending : IdOf[d] = IdOf[c] <=> d \in stale
  BY DEF Displaced
<1>5. CASE stale = {}
  <2>1. rows' = rows
    BY <1>5 DEF RegisterNext
  <2>2. Tracked' = Tracked \cup {c}
    BY <1>1, <1>5, <2>1 DEF Tracked, Logged
  <2>3. QED
    BY <1>1, <1>2, <1>3, <1>4, <1>5, <2>1, <2>2 DEF TypeOK
<1>6. CASE stale # {}
  <2>1. PICK d \in stale : AddRow(d, "timeout", "reuse")
    BY <1>3, <1>6 DEF RegisterNext
  <2>2. d \in pending /\ stale = {d}
    BY <1>4, <2>1 DEF TypeOK
  <2>3. d \in Calls /\ rows[d] = <<>> /\ rows \in [Calls -> Seq(Rows)]
    BY <2>2 DEF TypeOK, BooksInv
  <2>4. Row("timeout", "reuse") \in Rows
    BY DEF Row, Rows
  <2>5. /\ rows' \in [Calls -> Seq(Rows)]
        /\ rows' = [rows EXCEPT ![d] = <<Row("timeout", "reuse")>>]
        /\ Logged' = Logged \cup {d}
    BY <2>1, <2>3, <2>4, FirstRow
  <2>6. Tracked' = Tracked \cup {c}
    BY <1>1, <2>2, <2>5 DEF Tracked
  <2>7. QED
    BY <1>1, <1>2, <1>3, <1>4, <2>2, <2>3, <2>5, <2>6
<1>7. QED
  BY <1>5, <1>6

LEMMA RegisterNextKeeps == SessionInv /\ RegisterNext => SessionInv'
<1> SUFFICES ASSUME SessionInv, RegisterNext PROVE SessionInv'
  OBVIOUS
<1> USE DEF SessionInv
<1>1. PICK c \in Calls, stale \in SUBSET pending : Registers(c, stale)
  BY Registered
<1> USE DEF Registers
<1>2. /\ in.pc = "register" /\ in.todo \in Seq(Calls) /\ in.todo # <<>>
      /\ in' = [in EXCEPT !.todo = Tail(@)]
      /\ UNCHANGED <<accepting, responding, out, inboundDb, outboundDb, beating,
                     shutdown, world, beats, ended>>
  BY DEF RegisterNext, TypeOK
<1>3. in' = [in EXCEPT !.todo = in'.todo] /\ in'.todo = Tail(in.todo) /\ Tail(in.todo) \in Seq(Calls)
  BY <1>2, TailShape DEF TypeOK
<1>4. TypeOK'
  <2>1. \A x, y \in pending' : IdOf[x] = IdOf[y] => x = y
    BY <1>1 DEF TypeOK
  <2>2. pending' \subseteq Calls
    BY <1>1 DEF TypeOK
  <2>3. in' \in InPlaces
    BY <1>2, <1>3 DEF TypeOK, InPlaces
  <2>4. QED
    BY <1>1, <1>2, <2>1, <2>2, <2>3 DEF TypeOK, InPlaces, shutdown, world
<1>5. PhaseInv'
  BY <1>2, <1>3 DEF PhaseInv, TypeOK, shutdown, world
<1>6. BooksInv'
  <2>1. rows[c] = <<>> /\ rows'[c] = <<>>
    BY <1>1 DEF Tracked, Logged
  <2>2. \A x \in Calls : rows'[x] = <<>> \/ Len(rows'[x]) = 1
    BY <1>1, Len(<<Row("timeout", "reuse")>>) = 1 DEF BooksInv, TypeOK
  <2>3. \A x \in pending' : rows'[x] = <<>>
    BY <1>1, <2>1 DEF BooksInv, TypeOK
  <2>4. QED
    BY <1>1, <1>2, <2>2, <2>3 DEF BooksInv, shutdown, Early, Undrained, OutputOpen, InputOpen
<1>7. LineInv'
  <2>1. in'.pc = "register" /\ in'.line = in.line
    BY <1>2, <1>3 DEF TypeOK
  <2>2. \A i \in DOMAIN in'.todo : in'.todo[i] \notin Tracked'
    BY <1>1, <1>2, <1>3, TailShape DEF LineInv
  <2>3. \A i, j \in DOMAIN in'.todo : in'.todo[i] = in'.todo[j] => i = j
    <3>1. SUFFICES ASSUME NEW i \in DOMAIN Tail(in.todo), NEW j \in DOMAIN Tail(in.todo),
                          Tail(in.todo)[i] = Tail(in.todo)[j]
                   PROVE  i = j
      BY <1>3
    <3>2. i + 1 = j + 1
      BY <1>2, <3>1, TailShape DEF LineInv
    <3>3. DOMAIN Tail(in.todo) \subseteq Int
      BY <1>3
    <3>4. QED
      BY <3>2, <3>3
  <2>4. Range(in'.line) \subseteq Tracked' \cup Range(in'.todo)
    BY <1>1, <1>2, <1>3, <2>1, TailShape DEF LineInv
  <2>5. ReceivedIsTracked'
    BY <1>1, <1>2 DEF LineInv, ReceivedIsTracked, Tracked, world
  <2>6. QED
    BY <2>1, <2>2, <2>3, <2>4, <2>5 DEF LineInv
<1>8. forwarded' = forwarded /\ c \notin forwarded
  BY <1>1, <1>2 DEF LineInv, ReceivedIsTracked, Tracked, TypeOK, world
<1>9. \A x \in Calls : Row("timeout", "drain") \in Range(rows'[x])
                        => Row("timeout", "drain") \in Range(rows[x])
  <2>1. Row("timeout", "drain") \notin Range(<<Row("timeout", "reuse")>>)
    BY DEF Range, Row
  <2>2. QED
    BY <1>1, <2>1 DEF TypeOK
<1>10. AnswerInv' /\ TimeoutMeansUnanswered'
  BY <1>1, <1>2, <1>8, <1>9 DEF AnswerInv, TimeoutMeansUnanswered, Answers, TypeOK, shutdown, world
<1>11. QED
  BY <1>4, <1>5, <1>6, <1>7, <1>10

LEMMA EndSectionKeeps == SessionInv /\ EndSection => SessionInv'
<1> SUFFICES ASSUME SessionInv, EndSection PROVE SessionInv'
  OBVIOUS
<1> USE DEF SessionInv, EndSection
<1>1. TypeOK' /\ PhaseInv' /\ BooksInv'
  <2>1. in' \in InPlaces /\ in'.pc = "write"
    BY DEF TypeOK, InPlaces
  <2>2. QED
    BY <2>1 DEF TypeOK, InPlaces, PhaseInv, BooksInv, session, shutdown, world, log
<1>2. LineInv'
  <2>1. Range(in.todo) = {}
    BY DEF Range
  <2>2. Tracked' = Tracked /\ in'.pc = "write" /\ in'.line = in.line
    BY DEF Tracked, Logged, TypeOK, session, shutdown, log
  <2>3. ReceivedIsTracked'
    BY DEF LineInv, ReceivedIsTracked, Logged, session, shutdown, world, log
  <2>4. QED
    BY <2>1, <2>2, <2>3 DEF LineInv
<1>3. AnswerInv' /\ TimeoutMeansUnanswered'
  BY DEF AnswerInv, TimeoutMeansUnanswered, Answers, session, shutdown, world, log
<1>4. QED
  BY <1>1, <1>2, <1>3

\* Write and WriteFails: the target may have got the line, which is known.
LEMMA WriteKeeps == SessionInv /\ (Write \/ WriteFails) => SessionInv'
<1> SUFFICES ASSUME SessionInv, Write \/ WriteFails PROVE SessionInv'
  OBVIOUS
<1> USE DEF SessionInv
<1>1. PICK got \in {{}, Range(in.line)} :
        /\ in.pc = "write" /\ received' = received \cup got
        /\ in' = [in EXCEPT !.pc = "recv", !.line = <<>>] \/ EndInbound
        /\ UNCHANGED <<session, out, inboundDb, outboundDb, beating, shutdown, answered,
                       forwarded, log>>
  BY DEF Write, WriteFails
<1>2. in' \in InPlaces /\ in'.pc \in {"recv", "ended"}
  BY <1>1, <<>> \in Seq(Calls) DEF TypeOK, InPlaces, EndInbound
<1>3. Range(in.line) \subseteq Calls
  BY DEF TypeOK, Range
<1>4. TypeOK' /\ PhaseInv' /\ BooksInv'
  BY <1>1, <1>2, <1>3 DEF TypeOK, InPlaces, PhaseInv, BooksInv, session, shutdown, log
<1>5. LineInv'
  BY <1>1, <1>2 DEF LineInv, ReceivedIsTracked, Tracked, Logged, session, shutdown, log
<1>6. AnswerInv' /\ TimeoutMeansUnanswered'
  BY <1>1 DEF AnswerInv, TimeoutMeansUnanswered, Answers, session, shutdown, log
<1>7. QED
  BY <1>4, <1>5, <1>6

-----------------------------------------------------------------------------
(* Target to client *)

\* What none of the actions of the outbound pump, except for LogNext, disturbs.
LEMMA OutboundFrame ==
  ASSUME SessionInv, out' \in OutPlaces,
         UNCHANGED <<session, in, inboundDb, outboundDb, beating, shutdown, received, log>>,
         forwarded' \subseteq answered', answered' \subseteq received
  PROVE  TypeOK' /\ PhaseInv' /\ BooksInv' /\ LineInv'
<1>1. TypeOK' /\ PhaseInv' /\ BooksInv'
  BY DEF SessionInv, TypeOK, OutPlaces, PhaseInv, BooksInv, session, shutdown, log
<1>2. LineInv'
  BY DEF SessionInv, LineInv, ReceivedIsTracked, Tracked, Logged, session, shutdown, log
<1>3. QED
  BY <1>1, <1>2

LEMMA OutputShape ==
  ASSUME TypeOK, NEW msgs \in OutputLines
  PROVE  /\ msgs \in Seq(Messages)
         /\ \A i \in DOMAIN msgs : msgs[i].of # NoCall => msgs[i].id = IdOf[msgs[i].of]
         /\ Answers(msgs) \subseteq received
<1> DEFINE answers == {Response(c) : c \in received \ answered}
<1>1. \A m \in answers : /\ m \in Messages /\ m.id = IdOf[m.of]
                          /\ m.of \in received
  BY IdOfAssumption DEF TypeOK, Response, Messages, Ids, Range
<1>2. \A m \in Requests : m \in Messages /\ m.of = NoCall
  BY ServerIdsAssumption DEF Requests, Messages
<1>3. CASE \E m \in answers \cup Requests : msgs = <<m>>
  <2>1. PICK m \in answers \cup Requests : msgs = <<m>>
    BY <1>3
  <2>2. DOMAIN <<m>> = {1} /\ <<m>>[1] = m
    OBVIOUS
  <2>3. m \in Messages /\ (m.of # NoCall => m.id = IdOf[m.of] /\ m.of \in received)
    BY <1>1, <1>2
  <2>4. QED
    BY <2>1, <2>2, <2>3 DEF Answers, Range
<1>4. CASE \E m, n \in answers : msgs = <<m, n>>
  <2>1. PICK m \in answers, n \in answers : msgs = <<m, n>>
    BY <1>4
  <2>2. DOMAIN <<m, n>> = {1, 2} /\ <<m, n>>[1] = m /\ <<m, n>>[2] = n
    OBVIOUS
  <2>3. <<m, n>> \in Seq(Messages)
    BY <1>1
  <2>4. QED
    BY <1>1, <2>1, <2>2, <2>3 DEF Answers, Range
<1>5. QED
  BY <1>3, <1>4 DEF OutputLines

LEMMA ReadOutputKeeps == SessionInv /\ ReadOutput => SessionInv'
<1> SUFFICES ASSUME SessionInv, ReadOutput PROVE SessionInv'
  OBVIOUS
<1> USE DEF SessionInv
<1>1. PICK msgs \in OutputLines :
        /\ out' = [out EXCEPT !.pc = "send", !.msgs = msgs]
        /\ answered' = answered \cup Answers(msgs)
  BY DEF ReadOutput
<1>2. /\ out.pc = "read"
      /\ UNCHANGED <<session, in, inboundDb, outboundDb, beating, shutdown, received,
                     forwarded, log>>
  BY DEF ReadOutput
<1>3. out' \in OutPlaces /\ out'.pc = "send" /\ out'.msgs = msgs
  BY <1>1, OutputShape DEF TypeOK, OutPlaces
<1>4. TypeOK' /\ PhaseInv' /\ BooksInv' /\ LineInv'
  BY <1>1, <1>2, <1>3, OutputShape, OutboundFrame DEF TypeOK
<1>5. AnswerInv'
  BY <1>1, <1>2, <1>3, OutputShape DEF AnswerInv, Answers, session, shutdown, log
<1>6. TimeoutMeansUnanswered'
  BY <1>2 DEF TimeoutMeansUnanswered, shutdown, log
<1>7. QED
  BY <1>4, <1>5, <1>6

LEMMA OutputEndsKeeps == SessionInv /\ (OutputEnds \/ EndLine) => SessionInv'
<1> SUFFICES ASSUME SessionInv, OutputEnds \/ EndLine PROVE SessionInv'
  OBVIOUS
<1> USE DEF SessionInv
<1>1. UNCHANGED <<session, in, inboundDb, outboundDb, beating, shutdown, world, log>>
  BY DEF OutputEnds, EndLine
<1>2. /\ out.pc # "log" \/ out.msgs = <<>>
      /\ \/ out' = [out EXCEPT !.pc = "read"] /\ out.pc = "log"
         \/ EndOutbound
  BY DEF OutputEnds, EndLine
<1>3. /\ out' \in OutPlaces /\ out'.pc \in {"read", "ended"}
      /\ out'.msgs = out.msgs \/ out'.msgs = <<>>
      /\ out.pc = "ended" => out'.pc = "ended"
  BY <1>2, <<>> \in Seq(Messages) DEF TypeOK, OutPlaces, EndOutbound
<1>4. TypeOK' /\ PhaseInv' /\ BooksInv' /\ LineInv'
  BY <1>1, <1>3, OutboundFrame DEF TypeOK, world
<1>5. Answers(<<>>) = {}
  BY DEF Answers, Range
<1>6. AnswerInv' /\ TimeoutMeansUnanswered'
  BY <1>1, <1>2, <1>3, <1>5 DEF AnswerInv, TimeoutMeansUnanswered, session, shutdown, world, log
<1>7. QED
  BY <1>4, <1>6

LEMMA ForwardKeeps == SessionInv /\ Forward => SessionInv'
<1> SUFFICES ASSUME SessionInv, Forward PROVE SessionInv'
  OBVIOUS
<1> USE DEF SessionInv
<1>1. /\ out.pc = "send" /\ out' = [out EXCEPT !.pc = "log"]
      /\ forwarded' = forwarded \cup Answers(out.msgs)
      /\ UNCHANGED <<session, in, inboundDb, outboundDb, beating, shutdown, received,
                     answered, log>>
  BY DEF Forward
<1>2. out' \in OutPlaces /\ out'.pc = "log" /\ out'.msgs = out.msgs
  BY <1>1 DEF TypeOK, OutPlaces
<1>3. TypeOK' /\ PhaseInv' /\ BooksInv' /\ LineInv'
  BY <1>1, <1>2, OutboundFrame DEF TypeOK, AnswerInv
<1>4. main \in Undrained \/ outTimedOut
  BY <1>1 DEF AnswerInv, Undrained, OutputOpen
<1>5. TimeoutMeansUnanswered'
  BY <1>1, <1>4 DEF AnswerInv, TimeoutMeansUnanswered, TypeOK, shutdown, log
<1>6. AnswerInv'
  BY <1>1, <1>2 DEF AnswerInv, Answers, session, shutdown, log
<1>7. QED
  BY <1>3, <1>5, <1>6

\* The call that an answer closes is logged while the session is locked, so that
\* it is in one of the books all the time.
Resolves(found) ==
  /\ in.pc # "register" /\ abandoned' = abandoned
  /\ pending' = pending \ found
  /\ responding => \A c \in pending : IdOf[c] = Head(out.msgs).id => c \in found
  /\ Tracked' = Tracked
  /\ rows' \in [Calls -> Seq(Rows)]
  /\ \/ found = {} /\ rows' = rows
     \/ \E c \in pending, by \in {"response", "request"} :
          /\ found = {c} /\ rows[c] = <<>> /\ responding
          /\ rows' = [rows EXCEPT ![c] = <<Row("answer", by)>>]

LEMMA Resolved ==
  ASSUME SessionInv, LogNext
  PROVE  \E found \in SUBSET pending : Resolves(found)
<1> USE DEF SessionInv, Resolves
<1> DEFINE m == Head(out.msgs)
           found == {c \in pending : IdOf[c] = m.id}
<1>1. /\ out.pc = "log" /\ out.msgs # <<>> /\ in.pc # "register" /\ abandoned' = abandoned
      /\ IF responding /\ found # {}
           THEN /\ pending' = pending \ found
                /\ IF outboundDb
                     THEN \E c \in found : AddRow(c, "answer", m.kind)
                     ELSE UNCHANGED rows
           ELSE UNCHANGED <<pending, rows>>
  BY DEF LogNext, BeginResponse, LockFree, shutdown
<1>2. m \in Messages
  BY <1>1, TailShape DEF TypeOK
<1>3. CASE responding /\ found # {}
  <2>1. outboundDb
    BY <1>3 DEF PhaseInv
  <2>2. PICK c \in found : AddRow(c, "answer", m.kind)
    BY <1>1, <1>3, <2>1
  <2>3. found = {c} /\ c \in Calls /\ rows[c] = <<>> /\ rows \in [Calls -> Seq(Rows)]
    BY <2>2 DEF TypeOK, BooksInv
  <2>4. m.kind \in {"response", "request"} /\ Row("answer", m.kind) \in Rows
    BY <1>2 DEF Messages, Row, Rows
  <2>5. /\ rows' \in [Calls -> Seq(Rows)]
        /\ rows' = [rows EXCEPT ![c] = <<Row("answer", m.kind)>>]
        /\ Logged' = Logged \cup {c}
    BY <2>2, <2>3, <2>4, FirstRow
  <2>6. Tracked' = Tracked
    BY <1>1, <1>3, <2>3, <2>5 DEF Tracked
  <2>7. QED
    BY <1>1, <1>3, <2>3, <2>4, <2>5, <2>6
<1>4. CASE ~(responding /\ found # {})
  <2>1. UNCHANGED <<pending, rows>>
    BY <1>1, <1>4
  <2>2. Tracked' = Tracked /\ pending' = pending \ {}
    BY <1>1, <2>1 DEF Tracked, Logged
  <2>3. responding => \A c \in pending : IdOf[c] = m.id => c \in {}
    BY <1>4
  <2>4. QED
    BY <1>1, <2>1, <2>2, <2>3 DEF TypeOK
<1>5. QED
  BY <1>3, <1>4

LEMMA LogNextKeeps == SessionInv /\ LogNext => SessionInv'
<1> SUFFICES ASSUME SessionInv, LogNext PROVE SessionInv'
  OBVIOUS
<1> USE DEF SessionInv
<1>1. PICK found \in SUBSET pending : Resolves(found)
  BY Resolved
<1> USE DEF Resolves
<1>2. /\ out.pc = "log" /\ out.msgs # <<>> /\ out' = [out EXCEPT !.msgs = Tail(@)]
      /\ UNCHANGED <<accepting, responding, in, inboundDb, outboundDb, beating,
                     shutdown, world, beats, ended>>
  BY DEF LogNext
<1>3. out' \in OutPlaces /\ out'.pc = "log" /\ out'.msgs = Tail(out.msgs)
  BY <1>2, TailShape DEF TypeOK, OutPlaces
<1>4. TypeOK' /\ PhaseInv'
  BY <1>1, <1>2, <1>3 DEF TypeOK, OutPlaces, PhaseInv, shutdown, world
<1>5. BooksInv'
  <2>1. Len(<<Row("answer", "response")>>) = 1 /\ Len(<<Row("answer", "request")>>) = 1
    OBVIOUS
  <2>2. \A x \in Calls : rows'[x] = <<>> \/ Len(rows'[x]) = 1
    BY <1>1, <2>1 DEF BooksInv, TypeOK
  <2>3. \A x \in pending' \cup abandoned' : rows'[x] = <<>>
    BY <1>1 DEF BooksInv, TypeOK
  <2>4. QED
    BY <1>1, <1>2, <2>2, <2>3 DEF BooksInv, shutdown
<1>6. LineInv'
  BY <1>1, <1>2 DEF LineInv, ReceivedIsTracked, Tracked, world
<1>7. \A x \in Calls : Row("timeout", "drain") \in Range(rows'[x])
                        => Row("timeout", "drain") \in Range(rows[x])
  <2>1. /\ Row("timeout", "drain") \notin Range(<<Row("answer", "response")>>)
        /\ Row("timeout", "drain") \notin Range(<<Row("answer", "request")>>)
    BY DEF Range, Row
  <2>2. QED
    BY <1>1, <2>1 DEF TypeOK
<1>8. TimeoutMeansUnanswered'
  BY <1>2, <1>7 DEF TimeoutMeansUnanswered, TypeOK, shutdown, world
<1>9. Head(out.msgs) = out.msgs[1] /\ 1 \in DOMAIN out.msgs
      /\ \A i \in DOMAIN Tail(out.msgs) : i + 1 \in DOMAIN out.msgs /\ Tail(out.msgs)[i] = out.msgs[i + 1]
      /\ Range(out.msgs) \subseteq {Head(out.msgs)} \cup Range(Tail(out.msgs))
  BY <1>2, TailShape DEF TypeOK
<1>10. Answers(out'.msgs) \subseteq Answers(out.msgs)
  BY <1>3, <1>9 DEF Answers, Range
<1>11. \A c \in forwarded' \cap (pending' \cup abandoned') : outTimedOut' \/ c \in Answers(out'.msgs)
  <2>1. SUFFICES ASSUME NEW c \in forwarded \cap (pending' \cup abandoned), ~outTimedOut
                 PROVE  c \in Answers(Tail(out.msgs))
    BY <1>1, <1>2, <1>3 DEF shutdown, world
  <2>2. main \in InputOpen \cup {"waitOutput"} /\ responding /\ abandoned = {}
    BY <1>2, <2>1 DEF AnswerInv, PhaseInv, BooksInv, OutputOpen, InputOpen, Early
  <2>3. c \in Answers(out.msgs) /\ c \in pending /\ c # NoCall
    BY <1>1, <2>1, <2>2, CallsAssumption DEF AnswerInv, TypeOK
  <2>4. c # Head(out.msgs).of
    BY <1>1, <1>9, <2>1, <2>2, <2>3 DEF AnswerInv
  <2>5. PICK i \in DOMAIN out.msgs : out.msgs[i].of = c
    BY <2>3 DEF Answers, Range
  <2>6. PICK j \in DOMAIN Tail(out.msgs) : Tail(out.msgs)[j] = out.msgs[i]
    <3>1. out.msgs[i] # Head(out.msgs)
      BY <2>4, <2>5
    <3>2. out.msgs[i] \in Range(Tail(out.msgs))
      BY <1>2, <3>1, TailShape DEF TypeOK
    <3>3. QED
      BY <3>2 DEF Range
  <2>7. QED
    BY <2>3, <2>5, <2>6 DEF Answers, Range
<1>12. AnswerInv'
  BY <1>1, <1>2, <1>3, <1>7, <1>9, <1>10, <1>11 DEF AnswerInv, TypeOK, shutdown, world
<1>13. QED
  BY <1>4, <1>5, <1>6, <1>8, <1>12

-----------------------------------------------------------------------------
(* run and what is around it *)

\* The calls' books, as long as run's own steps leave the calls alone.
LEMMA BooksFrame ==
  ASSUME SessionInv,
         UNCHANGED <<pending, abandoned, in.pc, in.todo, in.line, received, answered, forwarded, rows,
                     out.pc, out.msgs>>,
         main' \notin Undrained => pending = {},
         main' # "logAbandoned" => abandoned = {},
         main \notin Undrained => main' \notin Undrained
  PROVE  BooksInv' /\ LineInv'
<1>1. BooksInv'
  BY DEF SessionInv, BooksInv
<1>2. LineInv'
  BY DEF SessionInv, LineInv, ReceivedIsTracked, Tracked, Logged
<1>3. QED
  BY <1>1, <1>2

LEMMA AroundKeeps == SessionInv /\ Around => SessionInv'
<1> SUFFICES ASSUME SessionInv, Around PROVE SessionInv'
  OBVIOUS
<1> USE DEF SessionInv
<1>1. UNCHANGED <<session, pumps, beating, main, abandoned, outTimedOut, gate, world, rows, ended>>
  BY DEF Around, Beat, CloseConsole, HandlerReturns, WriterEnds, shutdown, log
<1>2. TypeOK'
  BY <1>1, MaxBeatsAssumption
     DEF Around, Beat, CloseConsole, HandlerReturns, WriterEnds, TypeOK, session, pumps, shutdown, world, log
<1>3. PhaseInv'
  BY <1>1 DEF Around, Beat, CloseConsole, HandlerReturns, WriterEnds, PhaseInv, session, pumps, shutdown
<1>4. BooksInv' /\ LineInv'
  BY <1>1, BooksFrame DEF BooksInv, session, pumps, world
<1>5. AnswerInv' /\ TimeoutMeansUnanswered'
  BY <1>1 DEF AnswerInv, TimeoutMeansUnanswered, Answers, session, pumps, world
<1>6. QED
  BY <1>2, <1>3, <1>4, <1>5

\* Up to the drain: the gates close, one after the other.
LEMMA ClosingKeeps ==
  SessionInv /\ (Stop \/ StopAccepting \/ WaitInput \/ WaitOutput \/ StopResponses) => SessionInv'
<1> SUFFICES ASSUME SessionInv, Stop \/ StopAccepting \/ WaitInput \/ WaitOutput \/ StopResponses
             PROVE  SessionInv'
  OBVIOUS
<1> USE DEF SessionInv
<1> USE DEF Early, InputOpen, OutputOpen, Undrained, Closed
<1>1. /\ UNCHANGED <<pending, abandoned, beating, writer, gate, console, world, log>>
      /\ in' = in \/ in' = [in EXCEPT !.aborted = in.pc # "ended"]
      /\ out' = out \/ out' = [out EXCEPT !.aborted = outTimedOut]
  BY DEF Stop, StopAccepting, WaitInput, WaitOutput, StopResponses, session, pumps
<1>2. /\ in' \in InPlaces /\ in'.pc = in.pc /\ in'.todo = in.todo /\ in'.line = in.line
      /\ out' \in OutPlaces /\ out'.pc = out.pc /\ out'.msgs = out.msgs
  BY <1>1 DEF TypeOK, InPlaces, OutPlaces
<1>3. TypeOK'
  <2>1. /\ {accepting', responding', inboundDb', outboundDb', outTimedOut'} \subseteq BOOLEAN
        /\ main' \in {"stopInput", "waitInput", "waitOutput", "stopResponses", "drain"}
    BY DEF Stop, StopAccepting, WaitInput, WaitOutput, StopResponses, TypeOK, session, pumps
  <2>2. QED
    BY <1>1, <1>2, <2>1 DEF TypeOK, InPlaces, OutPlaces, world, log
<1>4. PhaseInv'
  BY <1>1, <1>2 DEF Stop, StopAccepting, WaitInput, WaitOutput, StopResponses, PhaseInv, LockFree,
     session, pumps, world, log
<1>5. main \in InputOpen \cup {"waitOutput", "stopResponses"} /\ main' \in Undrained
  BY DEF Stop, StopAccepting, WaitInput, WaitOutput, StopResponses
<1>6. abandoned = {}
  BY <1>5 DEF BooksInv
<1>7. BooksInv' /\ LineInv'
  BY <1>1, <1>2, <1>5, <1>6, BooksFrame DEF world, log
<1>8. \/ main' \in InputOpen \cup {"waitOutput"} /\ outTimedOut' = outTimedOut /\ ~outTimedOut
      \/ main' \notin InputOpen \cup {"waitOutput"} /\ (outTimedOut' \/ out.pc = "ended")
  BY DEF Stop, StopAccepting, WaitInput, WaitOutput, StopResponses, AnswerInv
<1>9. ~outTimedOut' => ~outTimedOut
  BY DEF Stop, StopAccepting, WaitInput, WaitOutput, StopResponses, AnswerInv
<1>10. AnswerInv'
  BY <1>1, <1>2, <1>5, <1>8, <1>9 DEF AnswerInv, Answers, world, log
<1>11. TimeoutMeansUnanswered'
  BY <1>1, <1>9 DEF TimeoutMeansUnanswered, world, log, TypeOK
<1>12. QED
  BY <1>3, <1>4, <1>7, <1>10, <1>11

LEMMA DrainKeeps == SessionInv /\ Drain => SessionInv'
<1> SUFFICES ASSUME SessionInv, Drain PROVE SessionInv'
  OBVIOUS
<1> USE DEF SessionInv
<1>1. /\ main = "drain" /\ main' = "logAbandoned" /\ abandoned' = pending /\ pending' = {}
      /\ in.pc # "register"
      /\ UNCHANGED <<accepting, responding, pumps, beating, outTimedOut, writer, gate, console, world, log>>
  BY DEF Drain, LockFree
<1>2. abandoned = {}
  BY <1>1 DEF BooksInv
<1>3. TypeOK' /\ PhaseInv'
  BY <1>1 DEF TypeOK, PhaseInv, Early, InputOpen, OutputOpen, Closed, pumps, world, log
<1>4. BooksInv' /\ LineInv'
  BY <1>1, <1>2 DEF BooksInv, LineInv, ReceivedIsTracked, Tracked, Logged, Undrained, OutputOpen, InputOpen,
     Early, pumps, world, log
<1>5. AnswerInv' /\ TimeoutMeansUnanswered'
  BY <1>1, <1>2 DEF AnswerInv, TimeoutMeansUnanswered, Answers, Undrained, OutputOpen, InputOpen, Early,
     pumps, world, log
<1>6. QED
  BY <1>3, <1>4, <1>5

\* The drain moves a call from the abandoned ones to the logged ones.
WritesOff(c) ==
  /\ c \in Calls /\ rows[c] = <<>> /\ main = "logAbandoned" /\ pending = {}
  /\ abandoned' = abandoned \ {c}
  /\ rows' \in [Calls -> Seq(Rows)]
  /\ rows' = [rows EXCEPT ![c] = <<Row("timeout", "drain")>>]
  /\ Tracked' = Tracked
  /\ UNCHANGED <<session, pumps, beating, main, outTimedOut, writer, gate, console,
                 world, beats, ended>>

LEMMA WrittenOff ==
  ASSUME SessionInv, LogAbandoned
  PROVE  \E c \in abandoned : WritesOff(c)
<1> USE DEF SessionInv, WritesOff
<1>1. PICK c \in abandoned : AddRow(c, "timeout", "drain") /\ abandoned' = abandoned \ {c}
  BY DEF LogAbandoned
<1>2. /\ main = "logAbandoned"
      /\ UNCHANGED <<session, pumps, beating, main, outTimedOut, writer, gate, console,
                     world, beats, ended>>
  BY DEF LogAbandoned
<1>3. c \in Calls /\ rows[c] = <<>> /\ rows \in [Calls -> Seq(Rows)] /\ pending = {}
  BY <1>1, <1>2 DEF TypeOK, BooksInv, Undrained, OutputOpen, InputOpen, Early
<1>4. Row("timeout", "drain") \in Rows
  BY DEF Row, Rows
<1>5. /\ rows' \in [Calls -> Seq(Rows)]
      /\ rows' = [rows EXCEPT ![c] = <<Row("timeout", "drain")>>]
      /\ Logged' = Logged \cup {c}
  BY <1>1, <1>3, <1>4, FirstRow
<1>6. Tracked' = Tracked
  BY <1>1, <1>2, <1>5 DEF Tracked, session
<1>7. QED
  BY <1>1, <1>2, <1>3, <1>5, <1>6

LEMMA LogAbandonedKeeps == SessionInv /\ LogAbandoned => SessionInv'
<1> SUFFICES ASSUME SessionInv, LogAbandoned PROVE SessionInv'
  OBVIOUS
<1> USE DEF SessionInv
<1>1. PICK c \in abandoned : WritesOff(c)
  BY WrittenOff
<1> USE DEF WritesOff
<1>2. TypeOK' /\ PhaseInv'
  BY <1>1 DEF TypeOK, PhaseInv, session, pumps, world
<1>3. BooksInv'
  <2>1. Len(<<Row("timeout", "drain")>>) = 1
    OBVIOUS
  <2>2. QED
    BY <1>1, <2>1 DEF BooksInv, TypeOK, session
<1>4. LineInv'
  BY <1>1 DEF LineInv, ReceivedIsTracked, Tracked, PhaseInv, Early, session, pumps, world
<1>5. c \in forwarded => outTimedOut
  BY <1>1 DEF AnswerInv, Undrained, OutputOpen, InputOpen, Early
<1>6. TimeoutMeansUnanswered'
  BY <1>1, <1>5 DEF TimeoutMeansUnanswered, TypeOK, world
<1>7. AnswerInv'
  BY <1>1 DEF AnswerInv, Answers, Undrained, OutputOpen, InputOpen, Early, session, pumps, world
<1>8. QED
  BY <1>2, <1>3, <1>4, <1>6, <1>7

\* Behind the drain there is nothing left to write off.
LEMMA EndingKeeps ==
  SessionInv /\ (StopBeating \/ LogEnd \/ WaitForDrain \/ NoteDrainComplete) => SessionInv'
<1> SUFFICES ASSUME SessionInv, StopBeating \/ LogEnd \/ WaitForDrain \/ NoteDrainComplete
             PROVE  SessionInv'
  OBVIOUS
<1> USE DEF SessionInv
<1>1. /\ UNCHANGED <<session, pumps, abandoned, outTimedOut, console, world, rows, beats>>
      /\ abandoned = {} /\ main \in {"logAbandoned", "logEnd", "waitWriter", "openGate"}
      /\ main' \in Closed
  BY DEF StopBeating, LogEnd, WaitForDrain, NoteDrainComplete, BooksInv, Closed, log
<1>2. TypeOK'
  <2>1. writer' \in {"open", "ended", "givenUp"} /\ {beating', gate', ended'} \subseteq BOOLEAN
    BY DEF StopBeating, LogEnd, WaitForDrain, NoteDrainComplete, TypeOK, shutdown, log
  <2>2. QED
    BY <1>1, <2>1 DEF TypeOK, Closed, session, pumps, world
<1>3. PhaseInv'
  BY <1>1 DEF StopBeating, LogEnd, WaitForDrain, NoteDrainComplete, PhaseInv, Early, InputOpen, OutputOpen,
     Closed, session, pumps, log
<1>4. BooksInv' /\ LineInv'
  BY <1>1, BooksFrame DEF Closed, Undrained, OutputOpen, InputOpen, Early, BooksInv, session, pumps, world
<1>5. AnswerInv' /\ TimeoutMeansUnanswered'
  BY <1>1 DEF AnswerInv, TimeoutMeansUnanswered, Answers, Closed, Undrained, OutputOpen, InputOpen, Early,
     session, pumps, world
<1>6. QED
  BY <1>2, <1>3, <1>4, <1>5

LEMMA StutterKeeps == SessionInv /\ UNCHANGED vars => SessionInv'
  BY DEF SessionInv, TypeOK, PhaseInv, BooksInv, LineInv, AnswerInv, TimeoutMeansUnanswered, Answers,
     ReceivedIsTracked, Tracked, Logged, vars, session, pumps, shutdown, world, log

LEMMA InitHolds == Init => SessionInv
<1> SUFFICES ASSUME Init PROVE SessionInv
  OBVIOUS
<1>1. TypeOK
  <2>1. in \in InPlaces /\ out \in OutPlaces
    BY <<>> \in Seq(Calls), <<>> \in Seq(Messages) DEF Init, InPlaces, OutPlaces
  <2>2. rows \in [Calls -> Seq(Rows)] /\ beats \in 0..MaxBeats
    BY MaxBeatsAssumption, <<>> \in Seq(Rows) DEF Init
  <2>3. QED
    BY <2>1, <2>2 DEF Init, TypeOK, InPlaces, OutPlaces
<1>2. PhaseInv /\ BooksInv
  BY DEF Init, PhaseInv, BooksInv, Early, InputOpen, OutputOpen, Undrained, Closed
<1>3. LineInv
  BY DEF Init, LineInv, ReceivedIsTracked
<1>4. Range(<<>>) = {}
  BY DEF Range
<1>5. AnswerInv /\ TimeoutMeansUnanswered
  BY <1>4 DEF Init, AnswerInv, TimeoutMeansUnanswered, Answers, InputOpen, Early
<1>6. QED
  BY <1>1, <1>2, <1>3, <1>5 DEF SessionInv

LEMMA NextKeeps == SessionInv /\ [Next]_vars => SessionInv'
  BY ReceiveKeeps, InputEndsKeeps, RegisterNextKeeps, EndSectionKeeps, WriteKeeps, ReadOutputKeeps,
     OutputEndsKeeps, ForwardKeeps, LogNextKeeps, AroundKeeps, ClosingKeeps, DrainKeeps,
     LogAbandonedKeeps, EndingKeeps, StutterKeeps
     DEF Next, Inbound, Outbound, Main

-----------------------------------------------------------------------------
(* Theorems *)

\* The session's books are right in every state: each call that is tracked is
\* in one of them, with at most one row, behind gates that close in run's order.
THEOREM BooksAreKept == Spec => []SessionInv
  BY InitHolds, NextKeeps, PTL DEF Spec

\* Types of the session's state, and that no two calls wait under one id.
THEOREM TypeCorrect == Spec => []TypeOK
<1>1. SessionInv => TypeOK
  BY DEF SessionInv
<1>2. QED
  BY <1>1, BooksAreKept, PTL

\* A call that the target may have seen waits in the session, or has its row:
\* registration comes before the line is written (pump_client_to_child).
THEOREM NothingPassesUntracked == Spec => []ReceivedIsTracked
<1>1. SessionInv => ReceivedIsTracked
  BY DEF SessionInv, LineInv
<1>2. QED
  BY <1>1, BooksAreKept, PTL

\* Whose answer the client was given is not written off, unless the outbound
\* pump had to be given up (run, the order of the drain).
THEOREM AnsweredIsNotWrittenOff == Spec => []TimeoutMeansUnanswered
<1>1. SessionInv => TimeoutMeansUnanswered
  BY DEF SessionInv
<1>2. QED
  BY <1>1, BooksAreKept, PTL

\* No task holds a sender while run waits for the writer, and the close handler
\* returns only after that (run, blocking_close_handler).
THEOREM EndIsOrderly == Spec => []DrainIsOrderly
<1>1. SessionInv => DrainIsOrderly
  BY DEF SessionInv, DrainIsOrderly, PhaseInv, Senders, InputOpen, OutputOpen, Early, Closed
<1>2. QED
  BY <1>1, BooksAreKept, PTL

\* The session's end is its last row (run, the heartbeat is stopped first).
THEOREM EndIsLast == Spec => SessionEndIsLast
<1>1. SessionInv /\ [Next]_vars => [ended => UNCHANGED log]_vars
  <2> SUFFICES ASSUME SessionInv, Next, ended PROVE UNCHANGED log
    BY DEF vars
  <2> USE DEF SessionInv, PhaseInv, Closed, OutputOpen, InputOpen, Early
  <2>1. main \in {"waitWriter", "openGate", "done"} /\ ~accepting /\ ~responding /\ ~beating
    OBVIOUS
  <2>2. CASE Inbound
    BY <2>1, <2>2 DEF Inbound, Receive, InputEnds, RegisterNext, EndSection, Write, WriteFails, log
  <2>3. CASE Outbound
    BY <2>1, <2>3 DEF Outbound, ReadOutput, OutputEnds, Forward, LogNext, BeginResponse, EndLine, log
  <2>4. CASE Main
    BY <2>1, <2>4 DEF Main, Stop, StopAccepting, WaitInput, WaitOutput, StopResponses, Drain, LogAbandoned,
       StopBeating, LogEnd, WaitForDrain, NoteDrainComplete, log
  <2>5. CASE Around
    BY <2>1, <2>5 DEF Around, Beat, CloseConsole, HandlerReturns, WriterEnds, log
  <2>6. QED
    BY <2>2, <2>3, <2>4, <2>5 DEF Next
<1>2. QED
  BY <1>1, BooksAreKept, PTL DEF Spec, SessionEndIsLast

-----------------------------------------------------------------------------
(* The ledger *)

Record == [c \in Calls |-> [i \in DOMAIN rows[c] |-> rows[c][i].outcome]]

LEMMA NoRecord ==
  ASSUME NEW c \in Calls, rows[c] = <<>>
  PROVE  Record[c] = <<>>
<1>1. Record[c] = [i \in DOMAIN <<>> |-> rows[c][i].outcome]
  BY DEF Record
<1>2. QED
  BY <1>1

LEMMA OneRecord ==
  ASSUME TypeOK, NEW c \in Calls, rows[c] = <<>>,
         NEW o, NEW b, rows' = [rows EXCEPT ![c] = <<Row(o, b)>>]
  PROVE  Record' = [d \in Calls |-> IF d \in {c} THEN Append(Record[d], o) ELSE Record[d]]
<1>1. rows'[c] = <<Row(o, b)>> /\ \A d \in Calls \ {c} : rows'[d] = rows[d]
  BY DEF TypeOK
<1>2. Record[c] = <<>> /\ Append(<<>>, o) = <<o>>
  BY NoRecord
<1>3. Record'[c] = <<o>>
  <2>1. Record'[c] = [i \in DOMAIN <<Row(o, b)>> |-> <<Row(o, b)>>[i].outcome]
    BY <1>1 DEF Record
  <2>2. DOMAIN <<Row(o, b)>> = 1..1 /\ <<Row(o, b)>>[1].outcome = o
    BY DEF Row
  <2>3. [i \in 1..1 |-> <<Row(o, b)>>[i].outcome] = <<o>>
    BY <2>2
  <2>4. QED
    BY <2>1, <2>2, <2>3
<1>4. \A d \in Calls \ {c} : Record'[d] = Record[d]
  BY <1>1 DEF Record
<1>5. Record' = [d \in Calls |-> Record'[d]]
  BY DEF Record
<1>6. \A d \in Calls : Record'[d] = IF d \in {c} THEN Append(Record[d], o) ELSE Record[d]
  BY <1>2, <1>3, <1>4
<1>7. QED
  BY <1>5, <1>6

LEMMA NoChange ==
  ASSUME NEW S, S = {}
  PROVE  [d \in Calls |-> IF d \in S THEN Append(Record[d], "timeout") ELSE Record[d]] = Record
  BY DEF Record

LEMMA StepIsLedgerStep == SessionInv /\ [Next]_vars => [Ledger!Next]_Ledger!vars
<1> SUFFICES ASSUME SessionInv, [Next]_vars
             PROVE  Ledger!Next \/ UNCHANGED Ledger!vars
  OBVIOUS
<1> USE DEF SessionInv
<1>0. ASSUME UNCHANGED <<pending, abandoned, rows>>,
             main' \in Closed <=> main \in Closed
      PROVE  UNCHANGED Ledger!vars
  BY <1>0 DEF Ledger!vars, Closed
<1>1. CASE RegisterNext
  <2>1. PICK c \in Calls, stale \in SUBSET pending : Registers(c, stale)
    BY <1>1, Registered
  <2> USE DEF Registers
  <2>2. UNCHANGED <<abandoned, main>>
    BY <1>1 DEF RegisterNext, shutdown
  <2>3. Record[c] = <<>>
    BY <2>1, NoRecord DEF Tracked, Logged
  <2>4. Record' = [d \in Calls |-> IF d \in stale THEN Append(Record[d], "timeout") ELSE Record[d]]
    <3>1. CASE stale = {} /\ rows' = rows
      BY <3>1, NoChange DEF Record
    <3>2. CASE \E d \in pending : /\ stale = {d} /\ rows[d] = <<>>
                                  /\ rows' = [rows EXCEPT ![d] = <<Row("timeout", "reuse")>>]
      <4>1. PICK d \in pending : /\ stale = {d} /\ rows[d] = <<>>
                                /\ rows' = [rows EXCEPT ![d] = <<Row("timeout", "reuse")>>]
        BY <3>2
      <4>2. d \in Calls
        BY DEF TypeOK
      <4>3. QED
        BY <4>1, <4>2, OneRecord
    <3>3. QED
      BY <2>1, <3>1, <3>2
  <2>5. Ledger!Register(c, stale)
    BY <2>1, <2>2, <2>3, <2>4 DEF Ledger!Register, Record, Early, Tracked
  <2>6. QED
    BY <2>1, <2>5 DEF Ledger!Next
<1>2. CASE LogNext
  <2>1. PICK found \in SUBSET pending : Resolves(found)
    BY <1>2, Resolved
  <2> USE DEF Resolves
  <2>2. main' = main
    BY <1>2 DEF LogNext, shutdown
  <2>3. CASE found = {} /\ rows' = rows
    BY <1>0, <2>1, <2>2, <2>3
  <2>4. CASE \E c \in pending, by \in {"response", "request"} :
                   /\ found = {c} /\ rows[c] = <<>> /\ responding
                   /\ rows' = [rows EXCEPT ![c] = <<Row("answer", by)>>]
    <3>1. PICK c \in pending, by \in {"response", "request"} :
                   /\ found = {c} /\ rows[c] = <<>>
                   /\ rows' = [rows EXCEPT ![c] = <<Row("answer", by)>>]
      BY <2>4
    <3>2. Record' = [d \in Calls |-> IF d \in {c} THEN Append(Record[d], "answer") ELSE Record[d]]
      <4>1. c \in Calls
        BY DEF TypeOK
      <4>2. QED
        BY <3>1, <4>1, OneRecord
    <3>3. (pending \cup abandoned)' = (pending \cup abandoned) \ {c}
      BY <2>1, <3>1 DEF BooksInv
    <3>4. Ledger!Settle({c}, "answer")
      BY <2>2, <3>1, <3>2, <3>3 DEF Ledger!Settle, Record
    <3>5. {c} \in SUBSET (pending \cup abandoned) /\ "answer" \in Ledger!Outcomes
      BY DEF Ledger!Outcomes
    <3>6. QED
      BY <3>4, <3>5 DEF Ledger!Next
  <2>5. QED
    BY <2>1, <2>3, <2>4
<1>3. CASE LogAbandoned
  <2>1. PICK c \in abandoned : WritesOff(c)
    BY <1>3, WrittenOff
  <2> USE DEF WritesOff
  <2>2. Record' = [d \in Calls |-> IF d \in {c} THEN Append(Record[d], "timeout") ELSE Record[d]]
    BY <2>1, OneRecord
  <2>3. (pending \cup abandoned)' = (pending \cup abandoned) \ {c}
    BY <2>1 DEF session
  <2>4. Ledger!Settle({c}, "timeout")
    BY <2>1, <2>2, <2>3 DEF Ledger!Settle, Record
  <2>5. {c} \in SUBSET (pending \cup abandoned) /\ "timeout" \in Ledger!Outcomes
    BY DEF Ledger!Outcomes
  <2>6. QED
    BY <2>4, <2>5 DEF Ledger!Next
<1>4. CASE StopBeating
  <2>1. main = "logAbandoned" /\ main' = "logEnd" /\ abandoned = {} /\ UNCHANGED <<pending, abandoned, rows>>
    BY <1>4 DEF StopBeating, session, log
  <2>2. pending = {}
    BY <2>1 DEF BooksInv, Undrained, OutputOpen, InputOpen, Early
  <2>3. Ledger!Close
    BY <2>1, <2>2 DEF Ledger!Close
  <2>4. QED
    BY <2>3 DEF Ledger!Next
<1>5. CASE Drain
  <2>1. main = "drain" /\ main' = "logAbandoned" /\ abandoned' = pending /\ pending' = {} /\ rows' = rows
    BY <1>5 DEF Drain, log
  <2>2. abandoned = {}
    BY <2>1 DEF BooksInv
  <2>3. QED
    BY <2>1, <2>2 DEF Ledger!vars
<1>6. CASE Stop \/ StopAccepting \/ WaitInput \/ WaitOutput \/ StopResponses
  BY <1>0, <1>6 DEF Stop, StopAccepting, WaitInput, WaitOutput, StopResponses, session, log, Closed
<1>7. CASE LogEnd \/ WaitForDrain \/ NoteDrainComplete
  BY <1>0, <1>7 DEF LogEnd, WaitForDrain, NoteDrainComplete, session, log, Closed
<1>8. CASE Around
  BY <1>0, <1>8 DEF Around, Beat, CloseConsole, HandlerReturns, WriterEnds, session, shutdown, log
<1>9. CASE Receive \/ InputEnds \/ EndSection \/ Write \/ WriteFails
  BY <1>0, <1>9 DEF Receive, InputEnds, EndSection, Write, WriteFails, session, shutdown, log
<1>10. CASE ReadOutput \/ OutputEnds \/ Forward \/ EndLine
  BY <1>0, <1>10 DEF ReadOutput, OutputEnds, Forward, EndLine, session, shutdown, log
<1>11. CASE UNCHANGED vars
  BY <1>0, <1>11 DEF vars, session, shutdown, log
<1>12. QED
  BY <1>1, <1>2, <1>3, <1>4, <1>5, <1>6, <1>7, <1>8, <1>9, <1>10, <1>11
     DEF Next, Inbound, Outbound, Main

\* Every behaviour of a session is one of the ledger: each call that it starts to
\* track gets exactly one row, and none is tracked behind the drain.
THEOREM SessionImplementsLedger == Spec => IsCallLedger
<1>1. Init => Ledger!Init
  <2> SUFFICES ASSUME Init PROVE Ledger!Init
    OBVIOUS
  <2>1. Record = [c \in Calls |-> <<>>]
    BY NoRecord DEF Init, Record
  <2>2. QED
    BY <2>1 DEF Init, Ledger!Init, Record
<1>2. QED
  BY <1>1, StepIsLedgerStep, BooksAreKept, PTL DEF Spec, IsCallLedger, Ledger!Spec
-----------------------------------------------------------------------------
(* The anomaly rules of a session. *)

\* What the rules are told of and what they keep.
Rules == {"size_spike", "novel_destination", "rapid_repeats", "rapid_fanout"}
Arguments == {c.args : c \in Observations}
Networks == {c.destination.value.text : c \in Observations}
Event == [time : Nat, args : Arguments]
Maybe == {None} \cup {Some(n) : n \in Nat}
Memories ==
  [baseline : [Tools -> Seq(Nat)], bands : [Tools -> SUBSET (Nat \X Nat)],
   events : [Tools -> Seq(Event)], seen : SUBSET Networks,
   lastRepeat : [Tools -> Maybe], lastFanout : [Tools -> Maybe]]

\* Types of what a session remembers.
MemoryOK ==
  /\ now \in Nat
  /\ history \in Seq([call : Observations, time : Nat, reasons : SUBSET Rules])
  /\ stats \in Memories

\* The tool, the time and the arguments of an observation.
Tool(j) == history[j].call.tool
Time(j) == history[j].time
Args(j) == history[j].call.args

\* The clock of a session never runs backwards.
ClockInv ==
  \A j \in DOMAIN history :
    Time(j) <= now /\ \A i \in DOMAIN history : i <= j => Time(i) <= Time(j)

\* The observations of its tool behind one.
Later(j) == {k \in DOMAIN history : Tool(k) = Tool(j) /\ k > j}

\* What the rules may have forgotten: it is older than the window, or as many as
\* are kept came behind it.
Forgotten(j) ==
  \/ \E i \in DOMAIN history : Tool(i) = Tool(j) /\ Time(i) - Time(j) > RepeatWindow
  \/ Cardinality(Later(j)) >= EventCapacity

\* The events of a tool are its last observations, those at the places f, and
\* the others may be forgotten.
Follows(t, f) ==
  LET events == stats.events[t]
      n      == Len(events)
  IN  /\ n <= EventCapacity
      /\ \A k \in 1..n : /\ Tool(f[k]) = t
                         /\ events[k].time = Time(f[k]) /\ events[k].args = Args(f[k])
                         /\ events[n].time - events[k].time <= RepeatWindow
      /\ \A k, l \in 1..n : k < l => f[k] < f[l]
      /\ \A j \in DOMAIN history : Tool(j) = t =>
           /\ \/ \E k \in 1..n : f[k] = j
              \/ Forgotten(j)
           /\ \A k \in 1..n : j >= f[k] => \E l \in 1..n : f[l] = j

\* The events that are kept of each tool.
EventsInv ==
  \A t \in Tools : \E f \in [1..Len(stats.events[t]) -> DOMAIN history] : Follows(t, f)

\* The last time that a rule fired for a tool.
LastOf(rule) == IF rule = "rapid_repeats" THEN stats.lastRepeat ELSE stats.lastFanout

\* The cool-down of a rule and a tool runs from the last time it fired.
CoolInv ==
  \A rule \in {"rapid_repeats", "rapid_fanout"}, t \in Tools :
    LET last == LastOf(rule)[t]
    IN  /\ last.some => \E j \in DOMAIN history :
                          Tool(j) = t /\ rule \in history[j].reasons /\ Time(j) = last.value
        /\ \A j \in DOMAIN history :
             Tool(j) = t /\ rule \in history[j].reasons => last.some /\ Time(j) <= last.value

\* A size that was flagged left its regime.
BandInv ==
  \A j \in DOMAIN history :
    "size_spike" \in history[j].reasons =>
      /\ history[j].call.bytes.some
      /\ Band(history[j].call.bytes.value) \in stats.bands[Tool(j)]

\* Whether a rule is due by the events that are kept.
Due(rule, i) ==
  IF rule = "rapid_repeats" THEN IsRepeat(stats.events[Tool(i)], Args(i))
  ELSE IsFanout(stats.events[Tool(i)])

\* BurstIsFlaggedOnce, by the events that are kept.
FlagInv ==
  LET i == Len(history)
  IN  history # <<>> =>
        /\ \A rule \in {"rapid_repeats", "rapid_fanout"} :
             /\ Due(rule, i) =>
                  \E j \in 1..i : FlaggedBy(j, i, rule) /\ Time(i) - Time(j) < RepeatWindow
             /\ FlaggedBy(i, i, rule) =>
                  /\ Due(rule, i)
                  /\ \A j \in 1..(i - 1) :
                       FlaggedBy(j, i, rule) => Time(i) - Time(j) >= RepeatWindow
        /\ FlaggedBy(i, i, "size_spike") =>
             \A j \in 1..(i - 1) :
               FlaggedBy(j, i, "size_spike") =>
                 LET band == Band(history[j].call.bytes.value)
                 IN  history[i].call.bytes.value \notin band[1]..band[2]

\* What a session's rules rest on, after each call that they have seen.
RulesInv == MemoryOK /\ ClockInv /\ EventsInv /\ CoolInv /\ BandInv /\ FlagInv
-----------------------------------------------------------------------------
\* A new session: nothing was observed.
LEMMA InitRules == SessionInit => RulesInv
<1>. SUFFICES ASSUME SessionInit PROVE RulesInv
  OBVIOUS
<1>1. MemoryOK
  BY DEF SessionInit, MemoryOK, NewStats, Memories, Maybe
<1>2. history = <<>>
  BY DEF SessionInit
<1>3. ClockInv /\ BandInv /\ FlagInv
  BY <1>2 DEF ClockInv, BandInv, FlagInv
<1>4. EventsInv
  <2>1. SUFFICES ASSUME NEW t \in Tools
                 PROVE  \E f \in [1..Len(stats.events[t]) -> DOMAIN history] : Follows(t, f)
    BY DEF EventsInv
  <2>2. stats.events[t] = <<>>
    BY DEF SessionInit, NewStats
  <2>3. DOMAIN history = {} /\ 1..Len(stats.events[t]) = {} /\ Len(stats.events[t]) = 0
    BY <1>2, <2>2
  <2> DEFINE f == [k \in {} |-> 0]
  <2>4. f \in [1..Len(stats.events[t]) -> DOMAIN history]
    BY <2>3
  <2>5. Follows(t, f)
    BY <2>3, AnomalyAssumption DEF Follows
  <2>6. QED
    BY <2>4, <2>5
<1>5. CoolInv
  BY <1>2 DEF CoolInv, SessionInit, NewStats, LastOf, None
<1>6. QED
  BY <1>1, <1>3, <1>4, <1>5 DEF RulesInv

\* A set of numbers has a least one.
LEMMA LeastElement ==
  ASSUME NEW T, T \subseteq Nat, T # {}
  PROVE  \E x \in T : \A y \in T : x <= y
<1>1. \E x \in T : \A y \in T : ~(<<y, x>> \in OpToRel(<, Nat))
  BY NatLessThanWellFounded, WFMin, Zenon
<1>2. PICK x \in T : \A y \in T : ~(<<y, x>> \in OpToRel(<, Nat))
  BY <1>1
<1>3. ASSUME NEW y \in T PROVE x <= y
  <2>1. ~(y < x)
    BY <1>2 DEF OpToRel
  <2>2. QED
    BY <2>1
<1>4. QED
  BY <1>3

\* The first loop stops at the first event that is not older than the window.
LEMMA StaleIs ==
  ASSUME NEW events \in Seq(Event), now \in Nat
  PROVE  /\ Stale(events) \in 0..Len(events)
         /\ \A i \in 1..Stale(events) : now - events[i].time > RepeatWindow
         /\ Stale(events) < Len(events) =>
              now - events[Stale(events) + 1].time <= RepeatWindow
<1> DEFINE Ends == {n \in 0..Len(events) :
                      n < Len(events) => now - events[n + 1].time <= RepeatWindow}
<1>1. Len(events) \in Ends /\ Ends \subseteq Nat
  OBVIOUS
<1>2. PICK n \in Ends : \A m \in Ends : n <= m
  BY <1>1, LeastElement
<1>3. ASSUME NEW i \in 1..n PROVE now - events[i].time > RepeatWindow
  <2>1. n \in Nat /\ n <= Len(events) /\ Len(events) \in Nat
    BY <1>2
  <2>2. i - 1 \in 0..Len(events) /\ ~(n <= i - 1) /\ i - 1 < Len(events) /\ (i - 1) + 1 = i
        /\ i \in 1..Len(events)
    BY <2>1
  <2>3. i - 1 \notin Ends
    <3> HIDE DEF Ends
    <3>1. QED
      BY <1>2, <2>2
  <2>4. ~(now - events[i].time <= RepeatWindow)
    BY <2>2, <2>3
  <2>5. events[i].time \in Nat /\ RepeatWindow \in Nat
    <3>1. events[i] \in Event
      BY <2>2
    <3>2. QED
      BY <3>1, AnomalyAssumption DEF Event
  <2>6. QED
    BY <2>4, <2>5
<1>4. QED
  BY <1>2, <1>3 DEF Stale

\* What is left of a tool's events is their end, and the new one: the s that go
\* are older than the window, or the rest is as many as are kept.
Keeps(old, new, e, s) ==
  /\ Len(new) = Len(old) + 1 - s /\ Len(new) <= EventCapacity
  /\ \A k \in 1..Len(new) : new[k] = IF k + s <= Len(old) THEN old[k + s] ELSE e
  /\ \/ \A i \in 1..s : i <= Len(old) /\ now - old[i].time > RepeatWindow
     \/ Len(new) = EventCapacity
  /\ \A i \in (s + 1)..Len(old) : now - old[i].time <= RepeatWindow

LEMMA EventsAre ==
  ASSUME MemoryOK, NEW c \in Observations,
         Len(stats.events[c.tool]) <= EventCapacity,
         \A i, j \in DOMAIN stats.events[c.tool] :
           i <= j => stats.events[c.tool][i].time <= stats.events[c.tool][j].time
  PROVE  /\ Events(c) \in Seq(Event)
         /\ \E s \in 0..(Len(stats.events[c.tool]) + 1) :
              Keeps(stats.events[c.tool], Events(c), [time |-> now, args |-> c.args], s)
<1> DEFINE old == stats.events[c.tool]
           e   == [time |-> now, args |-> c.args]
           n   == Stale(old)
           kept == SubSeq(old, n + 1, Len(old))
           all == Append(kept, e)
<1>1. c.tool \in Tools /\ EventCapacity \in Nat /\ RepeatWindow \in Nat
  BY ObservationsAssumption, AnomalyAssumption
<1>2. /\ old \in Seq(Event) /\ e \in Event /\ now \in Nat /\ Len(old) \in Nat
      /\ Len(old) <= EventCapacity
      /\ \A i, j \in DOMAIN old : i <= j => old[i].time <= old[j].time
      /\ \A i \in 1..Len(old) : old[i].time \in Nat
  <2>1. old \in Seq(Event) /\ e \in Event /\ now \in Nat
    BY <1>1 DEF MemoryOK, Memories, Event, Arguments
  <2>2. \A i \in 1..Len(old) : old[i] \in Event
    BY <2>1
  <2>3. \A i \in 1..Len(old) : old[i].time \in Nat
    <3> HIDE DEF old
    <3>1. QED
      BY <2>2 DEF Event
  <2>4. QED
    BY <2>1, <2>3
<1>3. /\ n \in 0..Len(old)
      /\ \A i \in 1..n : now - old[i].time > RepeatWindow
      /\ n < Len(old) => now - old[n + 1].time <= RepeatWindow
  BY <1>2, StaleIs
<1>. HIDE DEF old, n, e
<1>4. /\ kept \in Seq(Event) /\ Len(kept) = Len(old) - n
      /\ \A i \in 1..Len(kept) : kept[i] = old[i + n]
  <2>1. \A i \in (n + 1)..Len(old) : old[i] \in Event
    BY <1>2, <1>3
  <2>2. /\ kept \in Seq(Event)
        /\ Len(kept) = IF n + 1 <= Len(old) THEN Len(old) - (n + 1) + 1 ELSE 0
        /\ \A i \in 1 .. Len(old) - (n + 1) + 1 : kept[i] = old[n + 1 + i - 1]
    <3>1. n + 1 \in Int /\ Len(old) \in Int
      BY <1>2, <1>3
    <3>2. QED
      BY <2>1, <3>1, SubSeqProperties
  <2>3. QED
    BY <1>2, <1>3, <2>2
<1>. HIDE DEF kept
<1>5. /\ all \in Seq(Event) /\ Len(all) = Len(old) - n + 1 /\ all # <<>>
      /\ \A i \in 1..Len(all) : all[i] = IF i + n <= Len(old) THEN old[i + n] ELSE e
  <2>1. /\ all \in Seq(Event) /\ all # <<>> /\ Len(all) = Len(kept) + 1
        /\ \A i \in 1..Len(kept) : all[i] = kept[i]
        /\ all[Len(kept) + 1] = e
    BY <1>2, <1>4, AppendProperties
  <2>2. QED
    BY <1>2, <1>3, <1>4, <2>1
<1>. HIDE DEF all
<1>6. \A i \in (n + 1)..Len(old) : now - old[i].time <= RepeatWindow
  BY <1>1, <1>2, <1>3
<1>7. CASE Len(all) <= EventCapacity
  <2>1. Events(c) = all
    <3>1. ~(Len(all) > EventCapacity)
      BY <1>1, <1>2, <1>3, <1>5, <1>7
    <3>2. QED
      BY <3>1 DEF Events, all, kept, old, n, e
  <2>2. Keeps(old, all, e, n)
    BY <1>2, <1>3, <1>5, <1>6, <1>7 DEF Keeps
  <2>3. n \in 0..(Len(old) + 1)
    BY <1>2, <1>3
  <2>4. QED
    BY <1>5, <2>1, <2>2, <2>3 DEF old, e
<1>8. CASE Len(all) > EventCapacity
  <2>1. Events(c) = Tail(all)
    BY <1>8 DEF Events, all, kept, old, n, e
  <2>2. /\ Tail(all) \in Seq(Event) /\ Len(Tail(all)) = Len(all) - 1
        /\ \A i \in 1..Len(Tail(all)) : Tail(all)[i] = all[i + 1]
    BY <1>5, HeadTailProperties
  <2>3. Len(all) = EventCapacity + 1 /\ n = 0 /\ Len(old) = EventCapacity
    BY <1>1, <1>2, <1>3, <1>5, <1>8
  <2>4. Keeps(old, Tail(all), e, 1)
    BY <1>1, <1>2, <1>5, <1>6, <2>2, <2>3 DEF Keeps
  <2>5. 1 \in 0..(Len(old) + 1)
    BY <1>2
  <2>6. QED
    BY <2>1, <2>2, <2>4, <2>5 DEF old, e
<1>9. QED
  BY <1>1, <1>2, <1>5, <1>7, <1>8
-----------------------------------------------------------------------------
\* What an observation changes.
LEMMA Observes ==
  ASSUME MemoryOK, NEW c \in Observations, Observe(c), Events(c) \in Seq(Event)
  PROVE  /\ MemoryOK'
         /\ now' = now /\ Len(history') = Len(history) + 1
         /\ \A j \in DOMAIN history : history'[j] = history[j]
         /\ history'[Len(history) + 1]
              = [call |-> c, time |-> now, reasons |-> Reasons(c, Events(c))]
         /\ stats'.events = [stats.events EXCEPT ![c.tool] = Events(c)]
         /\ stats'.bands = [stats.bands EXCEPT ![c.tool] =
                              IF SizeFires(c) THEN @ \cup {Band(c.bytes.value)} ELSE @]
         /\ stats'.lastRepeat = [stats.lastRepeat EXCEPT ![c.tool] =
                                   Fired(@, IsRepeat(Events(c), c.args))]
         /\ stats'.lastFanout = [stats.lastFanout EXCEPT ![c.tool] =
                                   Fired(@, IsFanout(Events(c)))]
<1> DEFINE e == [call |-> c, time |-> now, reasons |-> Reasons(c, Events(c))]
           Entries == [call : Observations, time : Nat, reasons : SUBSET Rules]
<1>1. stats' = Remembers(c, Events(c)) /\ history' = Append(history, e) /\ now' = now
  BY DEF Observe
<1>2. stats \in Memories /\ now \in Nat /\ history \in Seq(Entries) /\ c.tool \in Tools
  BY ObservationsAssumption DEF MemoryOK
<1>3. e \in Entries
  BY <1>2 DEF Reasons, Rules
<1>4. /\ history' \in Seq(Entries) /\ Len(history') = Len(history) + 1
      /\ \A j \in DOMAIN history : history'[j] = history[j]
      /\ history'[Len(history) + 1] = e
  <2> HIDE DEF e, Entries
  <2>1. QED
    BY <1>1, <1>2, <1>3, AppendProperties
<1>5. /\ stats'.events = [stats.events EXCEPT ![c.tool] = Events(c)]
      /\ stats'.bands = [stats.bands EXCEPT ![c.tool] =
                           IF SizeFires(c) THEN @ \cup {Band(c.bytes.value)} ELSE @]
      /\ stats'.lastRepeat = [stats.lastRepeat EXCEPT ![c.tool] =
                                Fired(@, IsRepeat(Events(c), c.args))]
      /\ stats'.lastFanout = [stats.lastFanout EXCEPT ![c.tool] =
                                Fired(@, IsFanout(Events(c)))]
      /\ stats'.baseline = [stats.baseline EXCEPT ![c.tool] = IF IsOrdinary(c) THEN Baseline(c) ELSE @]
      /\ stats'.seen = IF IsNetwork(c.destination)
                       THEN stats.seen \cup {c.destination.value.text} ELSE stats.seen
      /\ stats' = [baseline |-> stats'.baseline, bands |-> stats'.bands, events |-> stats'.events,
                   seen |-> stats'.seen, lastRepeat |-> stats'.lastRepeat,
                   lastFanout |-> stats'.lastFanout]
  BY <1>1, <1>2 DEF Remembers, Memories
<1>6. stats' \in Memories
  <2>1. stats'.events \in [Tools -> Seq(Event)]
    BY <1>2, <1>5 DEF Memories
  <2>2. stats'.bands \in [Tools -> SUBSET (Nat \X Nat)]
    <3>1. SizeFires(c) => Band(c.bytes.value) \in Nat \X Nat
      BY ObservationsAssumption DEF SizeFires, Band
    <3>2. QED
      BY <1>2, <1>5, <3>1 DEF Memories
  <2>3. stats'.lastRepeat \in [Tools -> Maybe] /\ stats'.lastFanout \in [Tools -> Maybe]
    <3>1. \A last \in Maybe, due \in BOOLEAN : Fired(last, due) \in Maybe
      BY <1>2 DEF Fired, Maybe
    <3>2. IsRepeat(Events(c), c.args) \in BOOLEAN /\ IsFanout(Events(c)) \in BOOLEAN
      BY DEF IsRepeat, IsFanout
    <3>3. QED
      BY <1>2, <1>5, <3>1, <3>2 DEF Memories
  <2>4. stats'.baseline \in [Tools -> Seq(Nat)]
    <3>1. ASSUME IsOrdinary(c) PROVE Baseline(c) \in Seq(Nat)
      <4> DEFINE old == stats.baseline[c.tool]
                 new == c.bytes.value
                 sizes == Append(old, new)
      <4>1. new \in Nat /\ old \in Seq(Nat)
        BY <1>2, <3>1, ObservationsAssumption DEF IsOrdinary, Memories
      <4>2. sizes \in Seq(Nat) /\ sizes # <<>>
        <5> HIDE DEF old, new
        <5>1. QED
          BY <4>1, AppendProperties
      <4>3. Tail(sizes) \in Seq(Nat)
        BY <4>2, HeadTailProperties
      <4>4. QED
        BY <4>2, <4>3 DEF Baseline
    <3>2. QED
      BY <1>2, <1>5, <3>1 DEF Memories
  <2>5. stats'.seen \in SUBSET Networks
    BY <1>2, <1>5 DEF Memories, Networks
  <2>6. QED
    BY <1>5, <2>1, <2>2, <2>3, <2>4, <2>5 DEF Memories
<1>7. MemoryOK'
  BY <1>1, <1>2, <1>4, <1>6 DEF MemoryOK
<1>8. QED
  BY <1>1, <1>4, <1>5, <1>7

\* A set holds as many as there are different ones among f.
LEMMA Many ==
  ASSUME NEW S, IsFiniteSet(S), NEW n \in Nat, NEW f \in [1..n -> S],
         \A k, l \in 1..n : f[k] = f[l] => k = l
  PROVE  Cardinality(S) >= n
<1>1. f \in Injection(1..n, S)
  BY DEF Injection, IsInjective
<1>2. Cardinality(1..n) <= Cardinality(S)
  BY <1>1, FS_Injection
<1>3. Cardinality(1..n) = n
  BY FS_Interval
<1>4. QED
  BY <1>2, <1>3

LEMMA HistoryTypes ==
  ASSUME MemoryOK
  PROVE  /\ Len(history) \in Nat /\ DOMAIN history = 1..Len(history)
         /\ \A j \in DOMAIN history :
              history[j].call \in Observations /\ Time(j) \in Nat /\ Tool(j) \in Tools
<1> DEFINE Entries == [call : Observations, time : Nat, reasons : SUBSET Rules]
<1>1. history \in Seq(Entries)
  BY DEF MemoryOK
<1>2. \A j \in DOMAIN history : history[j] \in Entries
  <2> HIDE DEF Entries
  <2>1. QED
    BY <1>1
<1>3. QED
  BY <1>1, <1>2, ObservationsAssumption DEF Tool, Time

\* The observations behind the one at a place f[k] of its tool's events are at
\* the places behind k.
LEMMA LaterAre ==
  ASSUME MemoryOK, NEW t \in Tools,
         NEW f \in [1..Len(stats.events[t]) -> DOMAIN history], Follows(t, f),
         NEW k \in 1..Len(stats.events[t])
  PROVE  Cardinality(Later(f[k])) = Len(stats.events[t]) - k
<1> DEFINE n == Len(stats.events[t])
           g == [l \in (k + 1)..n |-> f[l]]
<1>1. n \in Nat /\ Len(history) \in Nat /\ DOMAIN history = 1..Len(history)
  BY DEF MemoryOK, Memories
<1>. HIDE DEF n
<1>2. /\ f \in [1..n -> DOMAIN history] /\ k \in 1..n
      /\ \A l \in 1..n : Tool(f[l]) = t
      /\ \A l, m \in 1..n : l < m => f[l] < f[m]
      /\ \A j \in DOMAIN history : Tool(j) = t /\ j >= f[k] => \E l \in 1..n : f[l] = j
  BY DEF Follows, n
<1>3. g \in [(k + 1)..n -> Later(f[k])]
  <2>1. ASSUME NEW l \in (k + 1)..n PROVE f[l] \in Later(f[k])
    <3>1. l \in 1..n /\ k < l
      BY <1>1, <1>2, <2>1
    <3>2. f[k] < f[l] /\ f[k] \in 1..Len(history) /\ f[l] \in 1..Len(history)
      BY <1>1, <1>2, <3>1
    <3>3. QED
      BY <1>1, <1>2, <3>1, <3>2 DEF Later
  <2>2. QED
    BY <2>1
<1>4. \A l, m \in (k + 1)..n : g[l] = g[m] => l = m
  <2>1. SUFFICES ASSUME NEW l \in (k + 1)..n, NEW m \in (k + 1)..n, l < m PROVE f[l] # f[m]
    BY <1>1, <1>2
  <2>2. l \in 1..n /\ m \in 1..n
    BY <1>1, <1>2
  <2>3. f[l] < f[m] /\ f[l] \in 1..Len(history) /\ f[m] \in 1..Len(history)
    BY <1>1, <1>2, <2>1, <2>2
  <2>4. QED
    BY <1>1, <2>3
<1>5. \A j \in Later(f[k]) : \E l \in (k + 1)..n : g[l] = j
  <2>1. SUFFICES ASSUME NEW j \in Later(f[k]) PROVE \E l \in (k + 1)..n : f[l] = j
    OBVIOUS
  <2>2. j \in 1..Len(history) /\ f[k] \in 1..Len(history) /\ j > f[k] /\ Tool(j) = t
    BY <1>1, <1>2 DEF Later
  <2>3. PICK l \in 1..n : f[l] = j
    BY <1>1, <1>2, <2>2
  <2>4. ~(l < k) /\ l # k
    BY <1>1, <1>2, <2>2, <2>3
  <2>5. QED
    BY <1>1, <1>2, <2>3, <2>4
<1>6. ExistsBijection((k + 1)..n, Later(f[k]))
  <2> HIDE DEF g
  <2>1. g \in Injection((k + 1)..n, Later(f[k]))
    BY <1>3, <1>4 DEF Injection, IsInjective
  <2>2. g \in Surjection((k + 1)..n, Later(f[k]))
    BY <1>3, <1>5 DEF Surjection
  <2>3. QED
    BY <2>1, <2>2 DEF ExistsBijection, Bijection
<1>7. IsFiniteSet((k + 1)..n) /\ Cardinality((k + 1)..n) = n - k
  <2>1. k + 1 \in Int /\ n \in Int
    BY <1>1, <1>2
  <2>2. /\ IsFiniteSet((k + 1)..n)
        /\ Cardinality((k + 1)..n) = IF k + 1 > n THEN 0 ELSE n - (k + 1) + 1
    BY <2>1, FS_Interval
  <2>3. QED
    BY <1>1, <1>2, <2>2
<1>8. QED
  BY <1>6, <1>7, FS_Bijection DEF n

\* The clock and the events in order.
LEMMA EventsInOrder ==
  ASSUME MemoryOK, ClockInv, NEW t \in Tools,
         NEW f \in [1..Len(stats.events[t]) -> DOMAIN history], Follows(t, f)
  PROVE  \A i, j \in DOMAIN stats.events[t] :
           i <= j => stats.events[t][i].time <= stats.events[t][j].time
<1> DEFINE n == Len(stats.events[t])
<1>1. n \in Nat /\ DOMAIN stats.events[t] = 1..n /\ DOMAIN history = 1..Len(history)
      /\ Len(history) \in Nat /\ \A j \in DOMAIN history : Time(j) \in Nat
  <2>1. stats.events[t] \in Seq(Event)
    BY DEF MemoryOK, Memories
  <2>2. QED
    BY <2>1, HistoryTypes DEF MemoryOK
<1>. HIDE DEF n
<1>2. /\ f \in [1..n -> DOMAIN history]
      /\ \A k \in 1..n : stats.events[t][k].time = Time(f[k])
      /\ \A k, l \in 1..n : k < l => f[k] < f[l]
  BY DEF Follows, n
<1>3. SUFFICES ASSUME NEW i \in 1..n, NEW j \in 1..n, i < j
               PROVE  Time(f[i]) <= Time(f[j])
  BY <1>1, <1>2
<1>4. f[i] \in DOMAIN history /\ f[j] \in DOMAIN history /\ f[i] < f[j]
  BY <1>2, <1>3
<1>5. f[i] <= f[j]
  BY <1>1, <1>4
<1>6. QED
  BY <1>4, <1>5 DEF ClockInv
-----------------------------------------------------------------------------
\* What was forgotten stays so.
LEMMA ForgottenStays ==
  ASSUME MemoryOK, MemoryOK', Len(history') = Len(history) + 1,
         \A j \in DOMAIN history : history'[j] = history[j],
         NEW j \in DOMAIN history, Forgotten(j)
  PROVE  Forgotten(j)'
<1>1. /\ Len(history) \in Nat /\ DOMAIN history = 1..Len(history)
      /\ DOMAIN history' = 1..(Len(history) + 1)
  BY HistoryTypes DEF MemoryOK
<1>2. \A i \in DOMAIN history : Tool(i)' = Tool(i) /\ Time(i)' = Time(i)
  BY DEF Tool, Time
<1>3. DOMAIN history \subseteq DOMAIN history'
  BY <1>1
<1>4. CASE \E i \in DOMAIN history : Tool(i) = Tool(j) /\ Time(i) - Time(j) > RepeatWindow
  BY <1>2, <1>3, <1>4 DEF Forgotten
<1>5. CASE Cardinality(Later(j)) >= EventCapacity
  <2>1. Later(j) \subseteq Later(j)'
    BY <1>2, <1>3 DEF Later
  <2>2. IsFiniteSet(Later(j)')
    <3>1. IsFiniteSet(1..(Len(history) + 1)) /\ Later(j)' \subseteq 1..(Len(history) + 1)
      BY <1>1, FS_Interval DEF Later
    <3>2. QED
      BY <3>1, FS_Subset
  <2>3. /\ IsFiniteSet(Later(j)) /\ Cardinality(Later(j)) <= Cardinality(Later(j)')
    BY <2>1, <2>2, FS_Subset
  <2>4. /\ Cardinality(Later(j)) \in Nat /\ Cardinality(Later(j)') \in Nat
    BY <2>2, <2>3, FS_CardinalityType
  <2>5. EventCapacity \in Nat
    BY AnomalyAssumption
  <2>6. Cardinality(Later(j)') >= EventCapacity
    BY <1>5, <2>3, <2>4, <2>5
  <2>7. QED
    BY <2>6 DEF Forgotten
<1>6. QED
  BY <1>4, <1>5 DEF Forgotten

LEMMA ObserveEvents ==
  ASSUME MemoryOK, ClockInv, EventsInv, NEW c \in Observations, Observe(c)
  PROVE  MemoryOK' /\ ClockInv' /\ EventsInv'
<1> DEFINE t == c.tool
           old == stats.events[t]
           new == Events(c)
           e == [time |-> now, args |-> c.args]
<1>0. PICK h, n, m : h = Len(history) /\ n = Len(old) /\ m = Len(new)
  OBVIOUS
<1>1. t \in Tools
  BY ObservationsAssumption
<1>2. PICK f \in [1..n -> DOMAIN history] : Follows(t, f)
  BY <1>0, <1>1 DEF EventsInv
<1>3. n <= EventCapacity
  BY <1>0, <1>2 DEF Follows
<1>4. \A i, j \in DOMAIN old : i <= j => old[i].time <= old[j].time
  BY <1>0, <1>1, <1>2, EventsInOrder
<1>5. new \in Seq(Event) /\ \E s \in 0..(n + 1) : Keeps(old, new, e, s)
  BY <1>0, <1>3, <1>4, EventsAre
<1>6. PICK s \in 0..(n + 1) : Keeps(old, new, e, s)
  BY <1>5
<1>7. /\ MemoryOK' /\ now' = now /\ Len(history') = h + 1
      /\ \A j \in DOMAIN history : history'[j] = history[j]
      /\ history'[h + 1] = [call |-> c, time |-> now, reasons |-> Reasons(c, new)]
      /\ stats'.events = [stats.events EXCEPT ![t] = new]
  BY <1>0, <1>5, Observes
<1>8. /\ h \in Nat /\ DOMAIN history = 1..h /\ DOMAIN history' = 1..(h + 1)
      /\ now \in Nat /\ n \in Nat /\ m \in Nat /\ s \in 0..(n + 1)
      /\ RepeatWindow \in Nat /\ EventCapacity \in Nat
      /\ \A j \in 1..h : Time(j) \in Nat
      /\ \A k \in 1..n : old[k].time \in Nat
  <2>1. old \in Seq(Event)
    BY <1>1 DEF MemoryOK, Memories
  <2>2. \A k \in 1..n : old[k].time \in Nat
    <3> HIDE DEF old
    <3>1. \A k \in 1..n : old[k] \in Event
      BY <1>0, <2>1
    <3>2. QED
      BY <3>1 DEF Event
  <2>3. h \in Nat /\ DOMAIN history = 1..h /\ \A j \in 1..h : Time(j) \in Nat
    BY <1>0, HistoryTypes
  <2>4. DOMAIN history' = 1..(h + 1)
    BY <1>7 DEF MemoryOK
  <2>5. m \in Nat /\ n \in Nat
    <3> HIDE DEF old, new
    <3>1. QED
      BY <1>0, <1>5, <2>1
  <2>6. now \in Nat /\ RepeatWindow \in Nat /\ EventCapacity \in Nat
    BY AnomalyAssumption DEF MemoryOK
  <2>7. QED
    BY <1>6, <2>2, <2>3, <2>4, <2>5, <2>6
<1>9. /\ \A j \in 1..h : Tool(j)' = Tool(j) /\ Time(j)' = Time(j) /\ Args(j)' = Args(j)
      /\ Tool(h + 1)' = t /\ Time(h + 1)' = now /\ Args(h + 1)' = c.args
  <2>1. \A j \in 1..h : history'[j] = history[j]
    BY <1>7, <1>8
  <2>2. /\ history'[h + 1].call = c /\ history'[h + 1].time = now
    BY <1>7
  <2>3. QED
    BY <2>1, <2>2 DEF Tool, Time, Args
<1>10. ClockInv'
  <2>1. \A i, j \in 1..h : i <= j => Time(i) <= Time(j)
    BY <1>8 DEF ClockInv
  <2>2. \A j \in 1..h : Time(j) <= now
    BY <1>8 DEF ClockInv
  <2>3. ASSUME NEW j \in 1..(h + 1)
        PROVE  Time(j)' <= now /\ \A i \in 1..(h + 1) : i <= j => Time(i)' <= Time(j)'
    <3>1. CASE j = h + 1
      <4>1. \A i \in 1..(h + 1) : i \in 1..h \/ i = h + 1
        BY <1>8
      <4>2. QED
        BY <1>8, <1>9, <2>2, <3>1, <4>1
    <3>2. CASE j # h + 1
      <4>1. j \in 1..h /\ \A i \in 1..(h + 1) : i <= j => i \in 1..h
        BY <1>8, <3>2
      <4>2. QED
        BY <1>9, <2>1, <2>2, <4>1
    <3>3. QED
      BY <3>1, <3>2
  <2>4. QED
    BY <1>7, <1>8, <2>3 DEF ClockInv
<1>. HIDE DEF old, new, e
<1>11. ASSUME NEW u \in Tools, u # t
       PROVE  \E g \in [1..Len(stats'.events[u]) -> DOMAIN history'] : Follows(u, g)'
  <2>1. stats'.events[u] = stats.events[u]
    BY <1>1, <1>7, <1>11 DEF MemoryOK, Memories
  <2>2. PICK g \in [1..Len(stats.events[u]) -> DOMAIN history] : Follows(u, g)
    BY <1>11 DEF EventsInv
  <2>3. g \in [1..Len(stats'.events[u]) -> DOMAIN history']
    BY <1>8, <2>1, <2>2
  <2>4. \A k \in 1..Len(stats.events[u]) : g[k] \in 1..h
    BY <1>8, <2>2
  <2>5. \A j \in DOMAIN history' : Tool(j)' = u => j \in DOMAIN history /\ Tool(j) = u
    BY <1>8, <1>9, <1>11
  <2>6. \A j \in DOMAIN history : Forgotten(j) => Forgotten(j)'
    BY <1>0, <1>7, <1>8, ForgottenStays
  <2>7. Follows(u, g)'
    BY <1>8, <1>9, <2>1, <2>2, <2>4, <2>5, <2>6 DEF Follows
  <2>8. QED
    BY <2>3, <2>7
<1>12. \E g \in [1..Len(stats'.events[t]) -> DOMAIN history'] : Follows(t, g)'
  <2>1. stats'.events[t] = new
    BY <1>1, <1>7 DEF MemoryOK, Memories
  <2> DEFINE g == [k \in 1..m |-> IF k + s <= n THEN f[k + s] ELSE h + 1]
  <2>2. /\ m \in Nat /\ m = n + 1 - s /\ m <= EventCapacity
        /\ \A k \in 1..m : new[k] = IF k + s <= n THEN old[k + s] ELSE e
        /\ (\A i \in 1..s : i <= n /\ now - old[i].time > RepeatWindow) \/ m = EventCapacity
        /\ \A i \in (s + 1)..n : now - old[i].time <= RepeatWindow
    BY <1>0, <1>6, <1>8 DEF Keeps
  <2>3. /\ \A k \in 1..n : /\ f[k] \in 1..h /\ Tool(f[k]) = t
                           /\ old[k].time = Time(f[k]) /\ old[k].args = Args(f[k])
        /\ \A k, l \in 1..n : k < l => f[k] < f[l]
        /\ \A j \in 1..h : Tool(j) = t =>
             /\ (\E k \in 1..n : f[k] = j) \/ Forgotten(j)
             /\ \A k \in 1..n : j >= f[k] => \E l \in 1..n : f[l] = j
    BY <1>0, <1>2, <1>8 DEF Follows, old
  <2>4. \A k \in 1..m : /\ k + s <= n => g[k] = f[k + s] /\ k + s \in 1..n
                        /\ ~(k + s <= n) => g[k] = h + 1 /\ k = m
    BY <1>8, <2>2
  <2>5. g \in [1..m -> 1..(h + 1)]
    BY <1>8, <2>3, <2>4
  <2>. HIDE DEF g
  <2>6. \A k \in 1..m : /\ Tool(g[k])' = t
                        /\ new[k].time = Time(g[k])' /\ new[k].args = Args(g[k])'
                        /\ new[m].time - new[k].time <= RepeatWindow
    <3>1. SUFFICES ASSUME NEW k \in 1..m
                   PROVE  /\ Tool(g[k])' = t
                          /\ new[k].time = Time(g[k])' /\ new[k].args = Args(g[k])'
                          /\ new[m].time - new[k].time <= RepeatWindow
      OBVIOUS
    <3>2. new[m].time = now
      <4>1. m \in 1..m /\ ~(m + s <= n)
        BY <1>8, <2>2, <3>1
      <4>2. new[m] = e
        BY <2>2, <4>1
      <4>3. QED
        BY <4>2 DEF e
    <3>3. CASE k + s <= n
      <4>1. g[k] = f[k + s] /\ k + s \in (s + 1)..n /\ k + s \in 1..n /\ new[k] = old[k + s]
        BY <1>8, <2>2, <2>4, <3>3
      <4>2. g[k] \in 1..h /\ Tool(g[k])' = Tool(g[k]) /\ Time(g[k])' = Time(g[k]) /\ Args(g[k])' = Args(g[k])
        BY <1>9, <2>3, <4>1
      <4>3. QED
        BY <2>2, <2>3, <3>2, <4>1, <4>2
    <3>4. CASE ~(k + s <= n)
      <4>1. g[k] = h + 1 /\ new[k] = e
        BY <2>2, <2>4, <3>4
      <4>2. new[m].time - new[k].time = 0
        BY <1>8, <3>2, <4>1 DEF e
      <4>3. QED
        BY <1>8, <1>9, <4>1, <4>2 DEF e
    <3>5. QED
      BY <3>3, <3>4
  <2>7. \A k, l \in 1..m : k < l => g[k] < g[l]
    <3>1. SUFFICES ASSUME NEW k \in 1..m, NEW l \in 1..m, k < l PROVE g[k] < g[l]
      OBVIOUS
    <3>2. k + s <= n /\ g[k] = f[k + s] /\ k + s \in 1..n /\ f[k + s] \in 1..h
      BY <1>8, <2>2, <2>3, <2>4, <3>1
    <3>3. CASE l + s <= n
      BY <1>8, <2>3, <2>4, <3>1, <3>2, <3>3
    <3>4. CASE ~(l + s <= n)
      BY <1>8, <2>4, <3>2, <3>4
    <3>5. QED
      BY <3>3, <3>4
  <2>8. ASSUME NEW j \in 1..(h + 1), Tool(j)' = t, NEW k \in 1..m, j >= g[k]
        PROVE  \E l \in 1..m : g[l] = j
    <3>1. CASE j = h + 1
      <4>1. m \in 1..m /\ ~(m + s <= n)
        BY <1>8, <2>2
      <4>2. QED
        BY <2>4, <3>1, <4>1
    <3>2. CASE j # h + 1
      <4>1. j \in 1..h /\ Tool(j) = t
        BY <1>8, <1>9, <2>8, <3>2
      <4>2. k + s <= n /\ g[k] = f[k + s] /\ k + s \in 1..n /\ f[k + s] \in 1..h
        BY <1>8, <2>3, <2>4, <2>8, <4>1
      <4>3. PICK i \in 1..n : f[i] = j
        BY <2>3, <2>8, <4>1, <4>2
      <4>4. ~(i < k + s)
        <5>1. SUFFICES ASSUME i < k + s PROVE FALSE
          OBVIOUS
        <5>2. f[i] < f[k + s]
          BY <2>3, <4>2, <5>1
        <5>3. QED
          BY <1>8, <2>8, <4>1, <4>2, <4>3, <5>2
      <4>5. i - s \in 1..m /\ (i - s) + s = i /\ i <= n
        BY <1>8, <2>2, <4>2, <4>4
      <4>6. g[i - s] = j
        BY <2>4, <4>3, <4>5
      <4>7. QED
        BY <4>5, <4>6
    <3>3. QED
      BY <3>1, <3>2
  <2>9. ASSUME NEW j \in 1..(h + 1), Tool(j)' = t
        PROVE  (\E k \in 1..m : g[k] = j) \/ Forgotten(j)'
    <3>1. CASE j = h + 1 /\ m # 0
      <4>1. m \in 1..m /\ ~(m + s <= n)
        BY <1>8, <2>2, <3>1
      <4>2. QED
        BY <2>4, <3>1, <4>1
    <3>2. CASE \E i \in (s + 1)..n : f[i] = j
      <4>1. PICK i \in (s + 1)..n : f[i] = j
        BY <3>2
      <4>2. i - s \in 1..m /\ (i - s) + s = i /\ i <= n
        BY <1>8, <2>2
      <4>3. g[i - s] = j
        BY <2>4, <4>1, <4>2
      <4>4. QED
        BY <4>2, <4>3
    <3>3. CASE j \in 1..h /\ Forgotten(j)
      BY <1>0, <1>7, <1>8, <3>3, ForgottenStays
    <3>4. CASE \E i \in 1..n : i <= s /\ f[i] = j /\ now - old[i].time > RepeatWindow
      <4>1. PICK i \in 1..n : i <= s /\ f[i] = j /\ now - old[i].time > RepeatWindow
        BY <3>4
      <4>2. j \in 1..h /\ Time(j) = old[i].time /\ Tool(j) = t
        BY <2>3, <4>1
      <4>3. Time(h + 1)' - Time(j)' > RepeatWindow /\ Tool(h + 1)' = Tool(j)' /\ h + 1 \in DOMAIN history'
        BY <1>8, <1>9, <4>1, <4>2
      <4>4. QED
        BY <4>3 DEF Forgotten
    <3>5. CASE /\ m = EventCapacity
               /\ (\E i \in 1..n : i <= s /\ f[i] = j) \/ (j = h + 1 /\ m = 0)
      <4>1. g \in [1..m -> Later(j)']
        <5>1. ASSUME NEW k \in 1..m PROVE g[k] \in 1..(h + 1) /\ g[k] > j
          <6>1. PICK i \in 1..n : i <= s /\ f[i] = j
            BY <1>8, <3>5, <5>1
          <6>2. CASE k + s <= n
            <7>1. g[k] = f[k + s] /\ k + s \in 1..n /\ i < k + s
              BY <1>8, <2>4, <6>1, <6>2
            <7>2. f[i] < f[k + s] /\ f[i] \in 1..h /\ f[k + s] \in 1..h
              BY <2>3, <7>1
            <7>3. QED
              BY <1>8, <6>1, <7>1, <7>2
          <6>3. CASE ~(k + s <= n)
            BY <1>8, <2>3, <2>4, <6>1, <6>3
          <6>4. QED
            BY <6>2, <6>3
        <5>2. \A k \in 1..m : g[k] \in Later(j)'
          BY <1>8, <2>6, <2>9, <5>1 DEF Later
        <5>3. QED
          BY <2>5, <5>2
      <4>2. \A k, l \in 1..m : g[k] = g[l] => k = l
        <5>1. \A k \in 1..m : k \in Nat /\ g[k] \in Nat
          BY <1>8, <2>5
        <5>2. QED
          BY <2>7, <5>1
      <4>3. IsFiniteSet(Later(j)')
        <5>1. Later(j)' \subseteq 1..(h + 1)
          BY <1>8 DEF Later
        <5>2. IsFiniteSet(1..(h + 1))
          <6>1. 1 \in Int /\ h + 1 \in Int
            BY <1>8
          <6>2. QED
            BY <6>1, FS_Interval
        <5>3. QED
          BY <5>1, <5>2, FS_Subset
      <4>4. Cardinality(Later(j)') >= m
        BY <1>8, <4>1, <4>2, <4>3, Many
      <4>5. QED
        BY <3>5, <4>4 DEF Forgotten
    <3>6. CASE j \in 1..h /\ ~Forgotten(j)
      <4>1. PICK i \in 1..n : f[i] = j
        BY <1>9, <2>3, <2>9, <3>6
      <4>2. CASE i > s
        BY <1>8, <3>2, <4>1, <4>2
      <4>3. CASE i <= s
        <5>1. i \in 1..s
          BY <1>8, <4>3
        <5>2. QED
          BY <2>2, <3>4, <3>5, <4>1, <4>3, <5>1
      <4>4. QED
        BY <1>8, <4>2, <4>3
    <3>7. CASE j = h + 1 /\ m = 0
      <4>1. m = EventCapacity
        <5>1. s \in 1..s /\ ~(s <= n)
          BY <1>8, <2>2, <3>7
        <5>2. QED
          BY <2>2, <5>1
      <4>2. QED
        BY <3>5, <3>7, <4>1
    <3>8. QED
      BY <1>8, <3>1, <3>3, <3>6, <3>7
  <2>10. Follows(t, g)'
    <3>1. stats'.events[t] = new /\ Len(stats'.events[t]) = m /\ DOMAIN history' = 1..(h + 1)
      BY <1>0, <1>8, <2>1 DEF new
    <3>2. QED
      BY <2>2, <2>6, <2>7, <2>8, <2>9, <3>1 DEF Follows
  <2>11. Len(stats'.events[t]) = m /\ DOMAIN history' = 1..(h + 1)
    BY <1>0, <1>8, <2>1 DEF new
  <2>12. QED
    BY <2>5, <2>10, <2>11
<1>13. EventsInv'
  <2>1. \A u \in Tools : \E g \in [1..Len(stats'.events[u]) -> DOMAIN history'] : Follows(u, g)'
    BY <1>11, <1>12
  <2>2. QED
    BY <2>1 DEF EventsInv
<1>14. QED
  BY <1>7, <1>10, <1>13

\* A flag is raised when its rule is due and not cooling down.
LEMMA ObserveFlags ==
  ASSUME RulesInv, NEW c \in Observations, Observe(c)
  PROVE  CoolInv' /\ BandInv' /\ FlagInv'
<1> DEFINE t == c.tool
           ev == Events(c)
           Bursts == {"rapid_repeats", "rapid_fanout"}
           IsDueFor(rule) == IF rule = "rapid_repeats" THEN IsRepeat(ev, c.args) ELSE IsFanout(ev)
<1>0. PICK h : h = Len(history)
  OBVIOUS
<1>1. t \in Tools /\ RepeatWindow \in Nat /\ RepeatWindow > 0
  BY ObservationsAssumption, AnomalyAssumption
<1>2. MemoryOK' /\ ev \in Seq(Event)
  <2>1. PICK f \in [1..Len(stats.events[t]) -> DOMAIN history] : Follows(t, f)
    BY <1>1 DEF EventsInv, RulesInv
  <2>2. Len(stats.events[t]) <= EventCapacity
    BY <2>1 DEF Follows
  <2>3. ev \in Seq(Event)
    BY <1>1, <2>1, <2>2, EventsInOrder, EventsAre DEF RulesInv
  <2>4. QED
    BY <2>3, ObserveEvents DEF RulesInv
<1>3. /\ now' = now /\ Len(history') = h + 1
      /\ \A j \in DOMAIN history : history'[j] = history[j]
      /\ history'[h + 1] = [call |-> c, time |-> now, reasons |-> Reasons(c, ev)]
      /\ stats'.events = [stats.events EXCEPT ![t] = ev]
      /\ stats'.bands = [stats.bands EXCEPT ![t] =
                              IF SizeFires(c) THEN @ \cup {Band(c.bytes.value)} ELSE @]
      /\ stats'.lastRepeat = [stats.lastRepeat EXCEPT ![t] =
                                   Fired(@, IsRepeat(ev, c.args))]
      /\ stats'.lastFanout = [stats.lastFanout EXCEPT ![t] =
                                   Fired(@, IsFanout(ev))]
  BY <1>0, <1>2, Observes DEF RulesInv
<1>4. /\ h \in Nat /\ DOMAIN history = 1..h /\ DOMAIN history' = 1..(h + 1)
      /\ now \in Nat /\ \A j \in 1..h : Time(j) \in Nat /\ Time(j) <= now
  <2>1. h \in Nat /\ DOMAIN history = 1..h /\ \A j \in 1..h : Time(j) \in Nat
    BY <1>0, HistoryTypes DEF RulesInv
  <2>2. DOMAIN history' = 1..(h + 1)
    BY <1>2, <1>3 DEF MemoryOK
  <2>3. now \in Nat /\ \A j \in 1..h : Time(j) <= now
    BY <2>1 DEF MemoryOK, RulesInv, ClockInv
  <2>4. QED
    BY <2>1, <2>2, <2>3
<1>5. /\ \A j \in 1..h : /\ Tool(j)' = Tool(j) /\ Time(j)' = Time(j)
                         /\ history'[j].reasons = history[j].reasons
                         /\ history'[j].call = history[j].call
      /\ Tool(h + 1)' = t /\ Time(h + 1)' = now /\ Args(h + 1)' = c.args
      /\ history'[h + 1].reasons = Reasons(c, ev) /\ history'[h + 1].call = c
  <2>1. \A j \in 1..h : history'[j] = history[j]
    BY <1>3, <1>4
  <2>2. /\ history'[h + 1].call = c /\ history'[h + 1].time = now
        /\ history'[h + 1].reasons = Reasons(c, ev)
    BY <1>3
  <2>3. QED
    BY <2>1, <2>2 DEF Tool, Time, Args
<1>6. \A rule \in Bursts : LastOf(rule) \in [Tools -> Maybe]
  BY DEF RulesInv, MemoryOK, Memories, LastOf
<1>7. \A rule \in Bursts :
        /\ rule \in Reasons(c, ev) <=> IsDueFor(rule) /\ ~Cooling(LastOf(rule)[t])
        /\ LastOf(rule)' = [LastOf(rule) EXCEPT ![t] = Fired(@, IsDueFor(rule))]
  BY <1>3 DEF Reasons, LastOf
<1>8. "size_spike" \in Reasons(c, ev) <=> SizeFires(c)
  BY DEF Reasons
<1>9. \A rule \in Bursts : Due(rule, h + 1)' <=> IsDueFor(rule)
  <2>1. stats'.events[t] = ev
    BY <1>1, <1>3 DEF RulesInv, MemoryOK, Memories
  <2>2. QED
    BY <1>5, <2>1 DEF Due
<1>. HIDE DEF t, ev, IsDueFor
<1>10. CoolInv'
  <2>1. SUFFICES ASSUME NEW rule \in Bursts, NEW u \in Tools
                 PROVE  LET last == LastOf(rule)'[u]
                        IN  /\ last.some => \E j \in DOMAIN history' :
                                 Tool(j)' = u /\ rule \in history'[j].reasons /\ Time(j)' = last.value
                            /\ \A j \in DOMAIN history' :
                                 Tool(j)' = u /\ rule \in history'[j].reasons
                                   => last.some /\ Time(j)' <= last.value
    BY DEF CoolInv
  <2> DEFINE old == LastOf(rule)[u]
             last == LastOf(rule)'[u]
  <2>2. /\ old.some => \E j \in 1..h :
             Tool(j) = u /\ rule \in history[j].reasons /\ Time(j) = old.value
        /\ \A j \in 1..h :
             Tool(j) = u /\ rule \in history[j].reasons => old.some /\ Time(j) <= old.value
    BY <1>4 DEF RulesInv, CoolInv
  <2>3. last = IF u = t THEN Fired(old, IsDueFor(rule)) ELSE old
    BY <1>1, <1>6, <1>7
  <2>. HIDE DEF old, last
  <2>4. CASE u = t /\ rule \in Reasons(c, ev)
    <3>1. last = Some(now) /\ last.some /\ last.value = now
      BY <1>1, <1>7, <2>3, <2>4 DEF Fired, Some, old
    <3>2. h + 1 \in DOMAIN history' /\ \A j \in DOMAIN history' : Time(j)' <= now
      BY <1>4, <1>5
    <3>3. QED
      BY <1>5, <2>4, <3>1, <3>2 DEF last
  <2>5. CASE ~(u = t /\ rule \in Reasons(c, ev))
    <3>1. last = old
      BY <1>7, <2>3, <2>5 DEF Fired, old
    <3>2. ASSUME NEW j \in 1..(h + 1), Tool(j)' = u, rule \in history'[j].reasons
          PROVE  j \in 1..h /\ Tool(j) = u /\ rule \in history[j].reasons /\ Time(j)' = Time(j)
      BY <1>4, <1>5, <2>5, <3>2
    <3>3. \A j \in 1..h : j \in 1..(h + 1)
      BY <1>4
    <3>4. QED
      BY <1>4, <1>5, <2>2, <3>1, <3>2, <3>3 DEF last
  <2>6. QED
    BY <2>4, <2>5
<1>11. BandInv'
  <2>1. \A u \in Tools : stats.bands[u] \subseteq stats'.bands[u]
    BY <1>1, <1>3 DEF RulesInv, MemoryOK, Memories
  <2>2. ASSUME NEW j \in 1..(h + 1), "size_spike" \in history'[j].reasons
        PROVE  /\ history'[j].call.bytes.some
               /\ Band(history'[j].call.bytes.value) \in stats'.bands[Tool(j)']
    <3>1. CASE j = h + 1
      <4>1. SizeFires(c) /\ c.bytes.some
        BY <1>5, <1>8, <2>2, <3>1 DEF SizeFires
      <4>2. Band(c.bytes.value) \in stats'.bands[t]
        BY <1>1, <1>3, <4>1 DEF RulesInv, MemoryOK, Memories
      <4>3. QED
        BY <1>5, <3>1, <4>1, <4>2
    <3>2. CASE j # h + 1
      <4>1. j \in 1..h /\ Tool(j) \in Tools
        BY <1>4, <3>2, HistoryTypes DEF RulesInv
      <4>2. /\ history[j].call.bytes.some
            /\ Band(history[j].call.bytes.value) \in stats.bands[Tool(j)]
        BY <1>4, <1>5, <2>2, <4>1 DEF RulesInv, BandInv
      <4>3. QED
        BY <1>5, <2>1, <4>1, <4>2
    <3>3. QED
      BY <3>1, <3>2
  <2>3. QED
    BY <1>4, <2>2 DEF BandInv
<1>12. FlagInv'
  <2>1. ASSUME NEW rule \in Bursts
        PROVE  /\ Due(rule, h + 1)' =>
                    \E j \in 1..(h + 1) :
                      FlaggedBy(j, h + 1, rule)' /\ Time(h + 1)' - Time(j)' < RepeatWindow
               /\ FlaggedBy(h + 1, h + 1, rule)' =>
                    /\ Due(rule, h + 1)'
                    /\ \A j \in 1..h :
                         FlaggedBy(j, h + 1, rule)' => Time(h + 1)' - Time(j)' >= RepeatWindow
    <3> DEFINE last == LastOf(rule)[t]
    <3>1. /\ last.some => \E j \in 1..h :
               Tool(j) = t /\ rule \in history[j].reasons /\ Time(j) = last.value
          /\ \A j \in 1..h :
               Tool(j) = t /\ rule \in history[j].reasons => last.some /\ Time(j) <= last.value
      BY <1>1, <1>4 DEF RulesInv, CoolInv
    <3>2. /\ \A j \in 1..h : FlaggedBy(j, h + 1, rule)' <=>
                               Tool(j) = t /\ rule \in history[j].reasons
          /\ FlaggedBy(h + 1, h + 1, rule)' <=> rule \in Reasons(c, ev)
      BY <1>5 DEF FlaggedBy, Tool
    <3>3. last.some => last.value \in Nat
      BY <1>1, <1>6 DEF Maybe, Some, None
    <3>. HIDE DEF last
    <3>4. ASSUME Due(rule, h + 1)'
          PROVE  \E j \in 1..(h + 1) :
                   FlaggedBy(j, h + 1, rule)' /\ Time(h + 1)' - Time(j)' < RepeatWindow
      <4>1. CASE Cooling(last)
        <5>1. PICK j \in 1..h :
                Tool(j) = t /\ rule \in history[j].reasons /\ Time(j) = last.value
          BY <3>1, <4>1 DEF Cooling
        <5>2. j \in 1..(h + 1) /\ FlaggedBy(j, h + 1, rule)' /\ Time(h + 1)' - Time(j)' < RepeatWindow
          BY <1>4, <1>5, <3>2, <4>1, <5>1 DEF Cooling
        <5>3. QED
          BY <5>2
      <4>2. CASE ~Cooling(last)
        <5>1. h + 1 \in 1..(h + 1) /\ Time(h + 1)' - Time(h + 1)' < RepeatWindow
          BY <1>1, <1>4, <1>5
        <5>2. FlaggedBy(h + 1, h + 1, rule)'
          BY <1>7, <1>9, <3>2, <3>4, <4>2 DEF last
        <5>3. QED
          BY <5>1, <5>2
      <4>3. QED
        BY <4>1, <4>2
    <3>5. ASSUME FlaggedBy(h + 1, h + 1, rule)'
          PROVE  /\ Due(rule, h + 1)'
                 /\ \A j \in 1..h :
                      FlaggedBy(j, h + 1, rule)' => Time(h + 1)' - Time(j)' >= RepeatWindow
      <4>1. IsDueFor(rule) /\ ~Cooling(last)
        BY <1>7, <3>2, <3>5 DEF last
      <4>2. ASSUME NEW j \in 1..h, FlaggedBy(j, h + 1, rule)'
            PROVE  Time(h + 1)' - Time(j)' >= RepeatWindow
        <5>1. last.some /\ Time(j) <= last.value
          BY <3>1, <3>2, <4>2
        <5>2. ~(now - last.value < RepeatWindow)
          BY <4>1, <5>1 DEF Cooling
        <5>3. QED
          BY <1>1, <1>4, <1>5, <3>3, <5>1, <5>2
      <4>3. QED
        BY <1>9, <4>1, <4>2
    <3>6. QED
      BY <3>4, <3>5
  <2>2. ASSUME FlaggedBy(h + 1, h + 1, "size_spike")',
               NEW j \in 1..h, FlaggedBy(j, h + 1, "size_spike")'
        PROVE  LET band == Band(history'[j].call.bytes.value)
               IN  history'[h + 1].call.bytes.value \notin band[1]..band[2]
    <3> DEFINE b == Band(history[j].call.bytes.value)
               bytes == c.bytes.value
    <3>1. SizeFires(c)
      BY <1>5, <1>8, <2>2 DEF FlaggedBy
    <3>2. Tool(j) = t /\ "size_spike" \in history[j].reasons
      BY <1>5, <2>2 DEF FlaggedBy, Tool
    <3>3. b \in stats.bands[t]
      BY <1>4, <3>2 DEF RulesInv, BandInv
    <3>4. b[1] \in Nat /\ b[2] \in Nat
      BY <1>1, <3>3 DEF RulesInv, MemoryOK, Memories
    <3>5. ~(b[1] <= bytes /\ bytes <= b[2])
      <4> HIDE DEF b
      <4>1. QED
        BY <3>1, <3>3 DEF SizeFires, KnownBand, t
    <3>6. bytes \notin b[1]..b[2]
      <4> HIDE DEF b, bytes
      <4>1. QED
        BY <3>4, <3>5
    <3>7. QED
      BY <1>5, <3>6
  <2>3. Len(history') = h + 1 /\ (h + 1) - 1 = h
    BY <1>3, <1>4
  <2>4. QED
    BY <2>1, <2>2, <2>3 DEF FlagInv
<1>13. QED
  BY <1>10, <1>11, <1>12

\* An observation, or a second that passes, keeps what the rules rest on.
LEMMA NextRules == ASSUME RulesInv, [SessionNext]_sessionVars PROVE RulesInv'
<1>1. ASSUME NEW c \in Observations, Observe(c) PROVE RulesInv'
  <2>1. MemoryOK' /\ ClockInv' /\ EventsInv'
    BY <1>1, ObserveEvents DEF RulesInv
  <2>2. CoolInv' /\ BandInv' /\ FlagInv'
    BY <1>1, ObserveFlags
  <2>3. QED
    BY <2>1, <2>2 DEF RulesInv
<1>2. ASSUME now' \in Nat, now' >= now, UNCHANGED <<stats, history>> PROVE RulesInv'
  <2>1. \A j \in DOMAIN history : Time(j) \in Nat
    BY HistoryTypes DEF RulesInv
  <2>2. MemoryOK' /\ ClockInv'
    BY <1>2, <2>1 DEF RulesInv, MemoryOK, ClockInv, Time
  <2>3. EventsInv'
    <3>1. \A j : Tool(j)' = Tool(j) /\ Time(j)' = Time(j) /\ Args(j)' = Args(j)
      BY <1>2 DEF Tool, Time, Args
    <3>2. \A j : Later(j)' = Later(j)
      BY <1>2, <3>1 DEF Later
    <3>3. \A j : Forgotten(j)' <=> Forgotten(j)
      BY <1>2, <3>1, <3>2 DEF Forgotten
    <3>4. stats' = stats /\ history' = history
      BY <1>2
    <3>5. \A t, f : Follows(t, f) => Follows(t, f)'
      BY <3>1, <3>3, <3>4 DEF Follows
    <3>6. QED
      BY <3>4, <3>5 DEF RulesInv, EventsInv
  <2>4. CoolInv' /\ BandInv' /\ FlagInv'
    BY <1>2 DEF RulesInv, CoolInv, BandInv, FlagInv, LastOf, Due, FlaggedBy, Tool, Time, Args
  <2>5. QED
    BY <2>2, <2>3, <2>4 DEF RulesInv
<1>3. CASE Second
  BY <1>2, <1>3 DEF Second, RulesInv, MemoryOK
<1>4. CASE UNCHANGED sessionVars
  BY <1>2, <1>4 DEF sessionVars, RulesInv, MemoryOK
<1>5. QED
  BY <1>1, <1>3, <1>4 DEF SessionNext

\* A bijection that selects keeps the number.
LEMMA AsMany ==
  ASSUME NEW n \in Nat, NEW R, NEW f \in [1..n -> R], NEW Chosen \in SUBSET (1..n), NEW T \in SUBSET R,
         \A k, l \in 1..n : f[k] = f[l] => k = l,
         \A j \in R : \E k \in 1..n : f[k] = j,
         \A k \in 1..n : k \in Chosen <=> f[k] \in T
  PROVE  Cardinality(Chosen) = Cardinality(T)
<1> DEFINE g == [k \in Chosen |-> f[k]]
<1>1. g \in Injection(Chosen, T)
  BY DEF Injection, IsInjective
<1>2. g \in Surjection(Chosen, T)
  BY DEF Surjection
<1>3. ExistsBijection(Chosen, T)
  <2> HIDE DEF g
  <2>1. QED
    BY <1>1, <1>2 DEF ExistsBijection, Bijection
<1>4. IsFiniteSet(Chosen)
  <2>1. IsFiniteSet(1..n)
    BY FS_Interval
  <2>2. QED
    BY <2>1, FS_Subset
<1>5. QED
  BY <1>3, <1>4, FS_Bijection

\* What is due by the last observations is due by the events that are kept.
LEMMA DueIs ==
  ASSUME MemoryOK, ClockInv, EventsInv, history # <<>>
  PROVE  \A rule \in {"rapid_repeats", "rapid_fanout"} :
           IsDue(Len(history), rule) <=> Due(rule, Len(history))
<1> DEFINE i == Len(history)
           t == Tool(i)
           events == stats.events[t]
           n == Len(events)
           R == Remembered(i)
<1>1. i \in DOMAIN history /\ DOMAIN history = 1..i /\ i \in Nat /\ t \in Tools
      /\ \A j \in 1..i : Time(j) \in Nat
  <2>1. i \in Nat /\ i # 0 /\ DOMAIN history = 1..i
    BY HistoryTypes DEF MemoryOK
  <2>2. QED
    BY <2>1, HistoryTypes
<1>2. PICK f \in [1..n -> DOMAIN history] : Follows(t, f)
  BY <1>1 DEF EventsInv
<1>3. n \in Nat /\ DOMAIN events = 1..n /\ RepeatWindow \in Nat /\ EventCapacity \in Nat
  <2>1. events \in Seq(Event)
    BY <1>1 DEF MemoryOK, Memories
  <2>2. QED
    BY <2>1, AnomalyAssumption
<1>4. /\ n <= EventCapacity
      /\ \A k \in 1..n : /\ f[k] \in 1..i /\ Tool(f[k]) = t
                         /\ events[k].time = Time(f[k]) /\ events[k].args = Args(f[k])
                         /\ events[n].time - events[k].time <= RepeatWindow
      /\ \A k, l \in 1..n : k < l => f[k] < f[l]
      /\ \A j \in 1..i : Tool(j) = t =>
           /\ \/ \E k \in 1..n : f[k] = j
              \/ Forgotten(j)
           /\ \A k \in 1..n : j >= f[k] => \E l \in 1..n : f[l] = j
  BY <1>1, <1>2 DEF Follows
<1>5. \A k \in 1..n : Cardinality(Later(f[k])) = n - k
  BY <1>1, <1>2, LaterAre
<1>6. \A j \in 1..i : Tool(j) = t =>
        {k \in {m \in 1..i : history[m].call.tool = history[i].call.tool} : k > j} = Later(j)
  BY <1>1 DEF Later, Tool
<1>7. R = {j \in 1..i : /\ Tool(j) = t /\ Time(i) - Time(j) <= RepeatWindow
                        /\ Cardinality(Later(j)) < EventCapacity}
  BY <1>6 DEF Remembered, Tool, Time
<1>. HIDE DEF i, t, events, n, R
<1>8. n # 0 => f[n] = i
  <2>1. SUFFICES ASSUME n # 0 PROVE f[n] = i
    OBVIOUS
  <2>2. n \in 1..n /\ f[n] \in 1..i /\ i \in 1..i /\ i >= f[n] /\ Tool(i) = t
    BY <1>1, <1>3, <1>4, <2>1 DEF t
  <2>3. PICK l \in 1..n : f[l] = i
    BY <1>4, <2>2
  <2>4. l = n
    <3>1. SUFFICES ASSUME l < n PROVE FALSE
      BY <1>3
    <3>2. f[l] < f[n]
      BY <1>4, <2>2, <3>1
    <3>3. QED
      BY <1>1, <2>2, <2>3, <3>2
  <2>5. QED
    BY <2>3, <2>4
<1>9. \A k \in 1..n : f[k] \in R
  <2>1. SUFFICES ASSUME NEW k \in 1..n PROVE f[k] \in R
    OBVIOUS
  <2>2. n # 0 /\ n \in 1..n
    BY <1>3
  <2>3. events[n].time = Time(i) /\ events[k].time = Time(f[k])
    BY <1>4, <1>8, <2>2
  <2>4. Time(i) - Time(f[k]) <= RepeatWindow
    BY <1>4, <2>3
  <2>5. n - k < EventCapacity
    BY <1>3, <1>4
  <2>6. QED
    BY <1>4, <1>5, <1>7, <2>4, <2>5
<1>10. \A j \in R : \E k \in 1..n : f[k] = j
  <2>1. SUFFICES ASSUME NEW j \in R, Forgotten(j) PROVE FALSE
    BY <1>4, <1>7
  <2>2. j \in 1..i /\ Tool(j) = t /\ Time(i) - Time(j) <= RepeatWindow
        /\ Cardinality(Later(j)) < EventCapacity
    BY <1>7
  <2>3. IsFiniteSet(Later(j)) /\ Cardinality(Later(j)) \in Nat
    <3>1. Later(j) \subseteq 1..i
      BY <1>1 DEF Later
    <3>2. IsFiniteSet(1..i)
      BY <1>1, FS_Interval
    <3>3. QED
      BY <3>1, <3>2, FS_Subset, FS_CardinalityType
  <2>4. PICK k \in DOMAIN history : Tool(k) = Tool(j) /\ Time(k) - Time(j) > RepeatWindow
    BY <1>3, <2>1, <2>2, <2>3 DEF Forgotten
  <2>5. Time(k) <= Time(i)
    BY <1>1, <2>4 DEF ClockInv
  <2>6. QED
    BY <1>1, <1>3, <2>2, <2>4, <2>5
<1>11. f \in [1..n -> R]
  BY <1>2, <1>9
<1>12. \A k, l \in 1..n : f[k] = f[l] => k = l
  <2>1. \A k \in 1..n : k \in Nat /\ f[k] \in Nat
    BY <1>1, <1>3, <1>4
  <2>2. QED
    BY <1>4, <2>1
<1>13. IsDue(i, "rapid_repeats") <=> Due("rapid_repeats", i)
  <2> DEFINE a == Args(i)
             Chosen == {k \in 1..n : events[k].args = a}
             T == {j \in R : Args(j) = a}
  <2>1. \A k \in 1..n : k \in Chosen <=> f[k] \in T
    BY <1>4, <1>9
  <2>2. Cardinality(Chosen) = Cardinality(T)
    <3>1. Chosen \in SUBSET (1..n) /\ T \in SUBSET R
      OBVIOUS
    <3>2. QED
      <4> HIDE DEF Chosen, T
      <4>1. QED
        BY <1>3, <1>10, <1>11, <1>12, <2>1, <3>1, AsMany
  <2>3. IsDue(i, "rapid_repeats") <=> Cardinality(T) >= RepeatCount
    BY DEF IsDue, R, Args
  <2>4. Due("rapid_repeats", i) <=> Cardinality(Chosen) >= RepeatCount
    BY <1>3 DEF Due, IsRepeat, events, t
  <2>5. QED
    BY <2>2, <2>3, <2>4
<1>14. IsDue(i, "rapid_fanout") <=> Due("rapid_fanout", i)
  <2>1. {events[k].args : k \in 1..n} = {Args(j) : j \in R}
    <3>1. \A k \in 1..n : events[k].args = Args(f[k]) /\ f[k] \in R
      BY <1>4, <1>9
    <3>2. QED
      BY <1>10, <3>1
  <2>2. QED
    BY <1>3, <2>1 DEF IsDue, Due, IsFanout, R, Args, events, t
<1>15. QED
  BY <1>13, <1>14 DEF i

\* What holds by the events that are kept holds by all of the history.
LEMMA RulesFlag == ASSUME RulesInv PROVE BurstIsFlaggedOnce
<1>1. history # <<>> => \A rule \in {"rapid_repeats", "rapid_fanout"} :
           IsDue(Len(history), rule) <=> Due(rule, Len(history))
  BY DueIs DEF RulesInv
<1>2. QED
  BY <1>1 DEF RulesInv, FlagInv, BurstIsFlaggedOnce, Time

\* For any calls, tools, sizes and clock: repeats and fan-outs that are due are
\* flagged once in a window, judged by the whole history although the rules keep
\* only some events, and a size is flagged once for its regime
\* (SessionStats::observe_with_fingerprint).
THEOREM BurstsAreFlaggedOnce == SessionSpec => []BurstIsFlaggedOnce
<1>1. SessionInit => RulesInv
  BY InitRules
<1>2. RulesInv /\ [SessionNext]_sessionVars => RulesInv'
  BY NextRules
<1>3. RulesInv => BurstIsFlaggedOnce
  BY RulesFlag
<1>4. QED
  BY <1>1, <1>2, <1>3, PTL DEF SessionSpec
=============================================================================
