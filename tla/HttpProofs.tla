------------------------------ MODULE HttpProofs -------------------------------
(***************************************************************************)
(* Theorems about HttpSessions, for any number of calls, connections,      *)
(* streams and endpoints, whatever ids are shared: calls are closed by     *)
(* answers of their own caller, none gets two rows, none is lost with a    *)
(* session that was never replaced, and the connections' own sessions      *)
(* implement the ledger.                                                   *)
(***************************************************************************)
EXTENDS HttpSessions, SequenceTheorems, TLAPS

Rows   == [outcome : {"answer", "timeout"}, by : Calls]
Places == {"new", "idle", "register", "sent", "body", "left", "gone", "aborted"}
Busy   == {"register", "sent", "body"}
Posts  == [conn : Conns \cup {NoSession}, key : Keys \cup {NoKey}]
ConnStates ==
  [pc : Places, todo : Seq(Calls), keys : Seq(Calls), session : Sessions \cup {NoSession},
   get : BOOLEAN, answers : BOOLEAN, mode : {"none", "whole", "events"},
   key : Keys \cup {NoKey}]

Types ==
  /\ conn \in [Conns -> ConnStates]
  /\ pending \in [Sessions -> SUBSET Calls]
  /\ open \subseteq Conns
  /\ endpoints \in [Keys -> SseSessions \cup {NoSession}]
  /\ fresh \subseteq SseSessions
  /\ via \in [Calls -> Posts]
  /\ home \in [Calls -> Sessions \cup {NoSession}]
  /\ received \subseteq Calls /\ seen \subseteq Calls
  /\ orphans \subseteq SseSessions
  /\ late \subseteq Calls
  /\ rows \in [Calls -> Seq(Rows)]
  /\ serve \in {"run", "stopping", "drained", "ended"}

\* A connection serves one request at a time. The calls of a POST were posted
\* on it, and those that are registered are with the session it looked up; a
\* stream has a session of its own once it has advertised an endpoint.
ConnOK(c) ==
  LET r == conn[c]
  IN  /\ r.pc \notin Busy => r.keys = <<>> /\ r.key = NoKey
      /\ r.pc \in Busy => r.session \in Sessions \ fresh
      /\ r.session \in Conns => r.session = c
      /\ r.pc # "register" => r.todo = <<>>
      /\ r.get => r.keys = <<>>
      /\ r.get /\ r.key = NoKey => r.session = c
      /\ r.key # NoKey => r.get /\ r.session \in SseSessions
      /\ Range(r.todo) \subseteq Range(r.keys)
      /\ \A i, j \in DOMAIN r.todo : r.todo[i] = r.todo[j] => i = j
      /\ \A d \in Range(r.keys) :
           /\ via[d].conn = c
           /\ via[d].key = NoKey => r.session = c
           /\ home[d] = IF d \in Range(r.todo) THEN NoSession ELSE r.session

ConnInv == \A c \in Conns : ConnOK(c)

\* A call that was registered waits in its session until it has its one row,
\* which names an answer of its own caller; and no two wait under one id.
BooksInv ==
  /\ \A d \in Calls :
       /\ home[d] = NoSession => rows[d] = <<>> /\ d \notin received
       /\ \A s \in Sessions : d \in pending[s] <=> home[d] = s /\ rows[d] = <<>>
       /\ Len(rows[d]) <= 1
       /\ via[d].conn = NoSession => home[d] = NoSession /\ via[d].key = NoKey
       /\ home[d] # NoSession /\ via[d].key = NoKey => home[d] = via[d].conn
       /\ \A i \in DOMAIN rows[d] : SameCaller(d, rows[d][i].by)
       /\ d \in seen => rows[d] # <<>> /\ rows[d][1].outcome = "answer"
  /\ \A s \in Sessions : \A x, y \in pending[s] : IdOf[x] = IdOf[y] => x = y

\* What names the key that a session was made for.
Advertised(s, k) ==
  \/ endpoints[k] = s
  \/ \E c \in Conns : conn[c].key = k /\ conn[c].session = s
  \/ \E c \in Conns : \E d \in Range(conn[c].keys) : via[d].key = k /\ conn[c].session = s
  \/ \E d \in Calls : via[d].key = k /\ home[d] = s

\* A session is made for one key, and nothing names a key for a session that
\* is still to be made.
KeyInv ==
  \A s \in SseSessions : \A k \in Keys :
    Advertised(s, k) =>
      /\ s \notin fresh
      /\ \A l \in Keys : Advertised(s, l) => k = l

\* A session that its key leads to, or whose connection is open, will be drained;
\* what another session holds came late, or waits in a session that was replaced.
ServeInv ==
  /\ serve \in {"run", "stopping"} =>
       \A c \in Conns : c \in open <=> conn[c].pc \notin {"new", "gone"}
  /\ \A c \in Conns : conn[c].pc \in {"new", "gone"} => pending[c] = {}
  /\ serve \in {"drained", "ended"} =>
       ConnectionsGone /\ \A c \in Conns : pending[c] = {}
  /\ \A s \in SseSessions :
       \/ \E k \in Keys : endpoints[k] = s
       \/ s \in orphans \/ pending[s] \subseteq late
  /\ serve \in {"drained", "ended"} => \A k \in Keys : endpoints[k] = NoSession

HttpInv == Types /\ ConnInv /\ BooksInv /\ KeyInv /\ ServeInv

-----------------------------------------------------------------------------
(* Calls that are closed: by an answer, at the end of a connection or a stream, *)
(* or by the drain.                                                             *)

Waiting == UNION {pending[s] : s \in Sessions}

\* Some calls that wait get their rows and go.
Closes(S, o) ==
  /\ S \subseteq Waiting /\ o \in {"answer", "timeout"}
  /\ pending' = [s \in Sessions |-> pending[s] \ S]
  /\ rows' \in [Calls -> Seq(Rows)]
  /\ \A d \in Calls \ S : rows'[d] = rows[d]
  /\ \A d \in S : \E b \in Calls : rows'[d] = <<Row(o, b)>> /\ SameCaller(d, b)

LEMMA OneHome ==
  ASSUME HttpInv, NEW s \in Sessions, NEW d \in pending[s]
  PROVE  d \in Calls /\ home[d] = s /\ rows[d] = <<>> /\ s # NoSession
  BY SessionsAssumption DEF HttpInv, Types, BooksInv

LEMMA RowsAdded ==
  ASSUME HttpInv, NEW S, S \subseteq Waiting, NEW o \in {"answer", "timeout"},
         NEW by, \A d \in S : by[d] \in Calls /\ SameCaller(d, by[d]),
         rows' = [c \in Calls |-> IF c \in S THEN Append(rows[c], Row(o, by[c])) ELSE rows[c]]
  PROVE  /\ rows' \in [Calls -> Seq(Rows)]
         /\ \A d \in Calls \ S : rows'[d] = rows[d]
         /\ \A d \in S : \E b \in Calls : rows'[d] = <<Row(o, b)>> /\ SameCaller(d, b)
<1>1. ASSUME NEW d \in S
      PROVE  d \in Calls /\ rows'[d] = <<Row(o, by[d])>> /\ <<Row(o, by[d])>> \in Seq(Rows)
  <2>1. d \in Calls /\ rows[d] = <<>>
    BY OneHome DEF Waiting
  <2>2. Row(o, by[d]) \in Rows
    BY <1>1 DEF Row, Rows
  <2>3. \A r \in Rows : Append(<<>>, r) = <<r>> /\ <<r>> \in Seq(Rows)
    OBVIOUS
  <2>4. QED
    BY <2>1, <2>2, <2>3
<1>2. \A d \in Calls \ S : rows'[d] = rows[d] /\ rows'[d] \in Seq(Rows)
  BY DEF HttpInv, Types
<1>3. \A d \in Calls : rows'[d] \in Seq(Rows)
  BY <1>1, <1>2
<1>4. QED
  BY <1>1, <1>2, <1>3

LEMMA OneSession ==
  ASSUME HttpInv, NEW s \in Sessions, NEW S, S \subseteq pending[s],
         pending' = [pending EXCEPT ![s] = @ \ S]
  PROVE  S \subseteq Waiting /\ pending' = [t \in Sessions |-> pending[t] \ S]
<1>1. \A t \in Sessions \ {s} : pending[t] \ S = pending[t]
  BY OneHome
<1>2. QED
  BY <1>1 DEF HttpInv, Types, Waiting

\* Rows that name the call itself, or no rows.
LEMMA TimedOut ==
  ASSUME HttpInv, NEW S, S \subseteq Waiting, TimeOut(S),
         pending' = [t \in Sessions |-> pending[t] \ S]
  PROVE  Closes(S, "timeout")
<1> DEFINE by == [c \in Calls |-> c]
<1>1. rows' = [c \in Calls |-> IF c \in S THEN Append(rows[c], Row("timeout", by[c])) ELSE rows[c]]
  BY DEF TimeOut, AddRows
<1>2. \A d \in S : by[d] \in Calls /\ SameCaller(d, by[d])
  BY OneHome DEF Waiting, SameCaller
<1>3. QED
  <2> HIDE DEF by
  <2>1. QED
    BY <1>1, <1>2, RowsAdded DEF Closes

LEMMA NothingCloses ==
  ASSUME HttpInv, UNCHANGED <<pending, rows>>
  PROVE  Closes({}, "timeout")
  BY DEF HttpInv, Types, Closes

\* A call of a stream's session was posted to the key of that session.
LEMMA PostedToKey ==
  ASSUME HttpInv, NEW d \in Calls, NEW s \in SseSessions, home[d] = s
  PROVE  via[d].key \in Keys /\ Advertised(s, via[d].key)
<1>1. via[d].conn \in Conns \cup {NoSession} /\ via[d].key \in Keys \cup {NoKey}
  BY DEF HttpInv, Types, Posts
<1>2. s # NoSession /\ s \notin Conns
  BY SessionsAssumption DEF Sessions
<1>3. via[d].key # NoKey
  BY <1>1, <1>2 DEF HttpInv, BooksInv
<1>4. QED
  BY <1>1, <1>3 DEF Advertised

LEMMA AnswersOwn ==
  ASSUME HttpInv, NEW c \in Conns, conn[c].pc = "body",
         NEW d \in Calls, MayCarry(c, d), NEW x \in pending[conn[c].session]
  PROVE  SameCaller(x, d)
<1> DEFINE s == conn[c].session
<1>1. ConnOK(c) /\ conn[c] \in ConnStates
  BY DEF HttpInv, ConnInv, Types
<1>2. s \in Sessions /\ x \in Calls /\ home[x] = s
  <2>1. s \in Sessions
    BY <1>1 DEF ConnOK, Busy
  <2>2. QED
    BY <2>1, OneHome
<1>3. CASE d \in Range(conn[c].keys)
  <2>1. d \notin Range(conn[c].todo)
    BY <1>1 DEF ConnOK, Range
  <2>2. home[d] = s
    BY <1>1, <1>3, <2>1 DEF ConnOK
  <2>3. QED
    BY <1>2, <2>2 DEF SameCaller
<1>4. CASE conn[c].get /\ conn[c].key = NoKey /\ via[d] = [conn |-> c, key |-> NoKey]
  <2>1. s = c /\ via[d].conn = c /\ via[d].key = NoKey
    BY <1>1, <1>4 DEF ConnOK
  <2>2. home[d] = c
    BY <2>1 DEF MayCarry, HttpInv, BooksInv
  <2>3. QED
    BY <1>2, <2>1, <2>2 DEF SameCaller
<1>5. CASE conn[c].key # NoKey /\ via[d].key = conn[c].key
  <2>1. s \in SseSessions /\ conn[c].key \in Keys /\ Advertised(s, conn[c].key)
    BY <1>1, <1>5 DEF ConnOK, ConnStates, Advertised
  <2>2. via[x].key \in Keys /\ Advertised(s, via[x].key)
    BY <1>2, <2>1, PostedToKey
  <2>3. via[x].key = conn[c].key
    BY <2>1, <2>2 DEF HttpInv, KeyInv
  <2>4. QED
    BY <1>5, <2>3 DEF SameCaller
<1>6. QED
  BY <1>3, <1>4, <1>5 DEF MayCarry

\* What an answer closes: calls of its own caller, and its own call for sure if
\* that one still waits there.
LEMMA EventCloses ==
  ASSUME HttpInv, NEW c \in Conns, Event(c)
  PROVE  \E S \in SUBSET pending[conn[c].session] :
            Closes(S, "answer") /\ seen' \subseteq seen \cup S
<1> DEFINE s == conn[c].session
<1>1. conn[c].pc = "body"
  BY DEF Event
<1>2. PICK d \in Calls :
        /\ MayCarry(c, d)
        /\ pending' = Taken(s, Resolved(s, {d}))
        /\ AddRows(Resolved(s, {d}), "answer", LAMBDA x : d)
        /\ seen' = IF home[d] = s /\ rows[d] = <<>> THEN seen \cup {d} ELSE seen
  BY DEF Event
<1>3. s \in Sessions
  BY <1>1 DEF HttpInv, ConnInv, ConnOK, Busy
<1> DEFINE S  == Resolved(s, {d})
           by == [x \in Calls |-> d]
<1>4. S \subseteq pending[s] /\ pending' = [pending EXCEPT ![s] = @ \ S]
  BY <1>2 DEF Resolved, Taken
<1>5. rows' = [x \in Calls |-> IF x \in S THEN Append(rows[x], Row("answer", by[x])) ELSE rows[x]]
  BY <1>2 DEF AddRows
<1>6. \A x \in S : by[x] \in Calls /\ SameCaller(x, by[x])
  <2>1. \A x \in S : x \in Calls
    BY <1>3, <1>4, OneHome
  <2>2. QED
    BY <1>1, <1>2, <1>4, <2>1, AnswersOwn
<1>7. seen' \subseteq seen \cup S
  <2>1. home[d] = s /\ rows[d] = <<>> => d \in pending[s]
    BY <1>3 DEF HttpInv, BooksInv
  <2>2. QED
    BY <1>2, <2>1 DEF Resolved
<1>8. Closes(S, "answer")
  <2> HIDE DEF by, S
  <2>1. QED
    BY <1>3, <1>4, <1>5, <1>6, OneSession, RowsAdded DEF Closes
<1>9. QED
  BY <1>4, <1>7, <1>8

\* The end of a body closes calls of its session: by the answers in it, by the
\* body as a whole, or as time-outs.
LEMMA FinishCloses ==
  ASSUME HttpInv, NEW c \in Conns, conn[c].pc = "body", Finish(c)
  PROVE  \E S \in SUBSET pending[conn[c].session], o \in {"answer", "timeout"} : Closes(S, o)
<1> DEFINE s == conn[c].session
<1>1. s \in Sessions
  BY DEF HttpInv, ConnInv, ConnOK, Busy
<1>2. CASE FinishEvents(c)
  <2>1. CASE UnbindsOwn(c)
    <3>1. pending' = [pending EXCEPT ![s] = {}] /\ TimeOut(pending[s])
      BY <1>2, <2>1 DEF FinishEvents
    <3>2. pending' = [pending EXCEPT ![s] = @ \ pending[s]]
      BY <3>1
    <3>3. Closes(pending[s], "timeout")
      <4>1. /\ pending[s] \subseteq Waiting
            /\ pending' = [t \in Sessions |-> pending[t] \ pending[s]]
        BY <1>1, <3>2, OneSession
      <4>2. QED
        BY <3>1, <4>1, TimedOut
    <3>4. QED
      BY <3>3
  <2>2. CASE ~UnbindsOwn(c)
    <3>1. UNCHANGED <<pending, rows>>
      BY <1>2, <2>2 DEF FinishEvents
    <3>2. Closes({}, "timeout")
      BY <3>1, NothingCloses
    <3>3. QED
      BY <3>2
  <2>3. QED
    BY <2>1, <2>2
<1>3. CASE FinishWhole(c)
  <2>1. PICK answers \in SUBSET {d \in Calls : MayCarry(c, d)} :
          LET byId   == Resolved(s, answers)
              closed == IF byId # {} THEN byId ELSE FallBack(c)
          IN  /\ pending' = Taken(s, closed)
              /\ AddRows(closed, "answer",
                         LAMBDA x : IF byId # {}
                                    THEN CHOOSE d \in answers : IdOf[d] = IdOf[x]
                                    ELSE x)
    BY <1>3 DEF FinishWhole
  <2> DEFINE byId   == Resolved(s, answers)
             closed == IF byId # {} THEN byId ELSE FallBack(c)
             by     == [x \in Calls |-> IF byId # {}
                                        THEN CHOOSE d \in answers : IdOf[d] = IdOf[x]
                                        ELSE x]
  <2>2. pending' = [pending EXCEPT ![s] = @ \ closed]
    BY <2>1 DEF Taken
  <2>3. rows' = [x \in Calls |-> IF x \in closed THEN Append(rows[x], Row("answer", by[x]))
                                 ELSE rows[x]]
    BY <2>1 DEF AddRows
  <2>4. closed \subseteq pending[s]
    BY DEF Resolved, FallBack
  <2>5. ASSUME NEW x \in closed
        PROVE  by[x] \in Calls /\ SameCaller(x, by[x])
    <3>1. x \in Calls /\ x \in pending[s]
      BY <1>1, <2>4, OneHome
    <3>2. CASE byId # {}
      <4>1. \E d \in answers : IdOf[d] = IdOf[x]
        BY <3>2 DEF Resolved
      <4>2. by[x] \in answers
        BY <3>1, <3>2, <4>1
      <4>3. by[x] \in Calls /\ MayCarry(c, by[x])
        BY <4>2
      <4>4. QED
        BY <3>1, <4>3, AnswersOwn
    <3>3. CASE byId = {}
      BY <3>1, <3>3 DEF SameCaller
    <3>4. QED
      BY <3>2, <3>3
  <2>6. Closes(closed, "answer")
    <3> HIDE DEF by, closed
    <3>1. QED
      BY <1>1, <2>2, <2>3, <2>4, <2>5, OneSession, RowsAdded DEF Closes
  <2>7. QED
    BY <2>4, <2>6
<1>4. QED
  BY <1>2, <1>3 DEF Finish

-----------------------------------------------------------------------------
(* What the steps of a connection have in common that neither look up, register *)
(* nor advertise: calls may be closed, and a key may be released.               *)

Moves(c) ==
  /\ serve \in {"run", "stopping"}
  /\ UNCHANGED <<fresh, via, home, orphans, late, serve>>
  /\ conn' \in [Conns -> ConnStates] /\ \A e \in Conns \ {c} : conn'[e] = conn[e]
  /\ ConnOK(c)'
  /\ \/ conn'[c].keys = <<>> /\ conn'[c].key = NoKey
     \/ /\ conn'[c].keys = conn[c].keys /\ conn'[c].key = conn[c].key
        /\ conn'[c].session = conn[c].session
  /\ open' \subseteq Conns /\ \A e \in Conns \ {c} : e \in open' <=> e \in open
  /\ c \in open' <=> conn'[c].pc \notin {"new", "gone"}
  /\ conn'[c].pc \in {"new", "gone"} => pending'[c] = {}
  /\ endpoints' \in [Keys -> SseSessions \cup {NoSession}]
  /\ \A k \in Keys : \/ endpoints'[k] = endpoints[k]
                     \/ endpoints'[k] = NoSession /\ pending'[endpoints[k]] = {}
  /\ received' \subseteq Calls /\ \A d \in received' : d \in received \/ home[d] # NoSession
  /\ \E S \in SUBSET Waiting, o \in {"answer", "timeout"} :
       Closes(S, o) /\ seen' \subseteq seen \cup (IF o = "answer" THEN S ELSE {})

LEMMA ClosesKeepsBooks ==
  ASSUME HttpInv, NEW S \in SUBSET Waiting, NEW o \in {"answer", "timeout"}, Closes(S, o),
         seen' \subseteq seen \cup (IF o = "answer" THEN S ELSE {}),
         UNCHANGED <<via, home>>,
         \A d \in received' : d \in received \/ home[d] # NoSession
  PROVE  BooksInv'
<1> USE DEF HttpInv
<1>1. ASSUME NEW d \in Calls, d \in S
      PROVE  /\ rows'[d] # <<>> /\ Len(rows'[d]) = 1 /\ home[d] # NoSession
             /\ DOMAIN rows'[d] = {1}
             /\ rows'[d][1].outcome = o /\ SameCaller(d, rows'[d][1].by)
             /\ rows[d] = <<>>
  <2>1. PICK b \in Calls : rows'[d] = <<Row(o, b)>> /\ SameCaller(d, b)
    BY <1>1 DEF Closes
  <2>2. /\ <<Row(o, b)>> # <<>> /\ Len(<<Row(o, b)>>) = 1 /\ DOMAIN <<Row(o, b)>> = {1}
        /\ <<Row(o, b)>>[1] = Row(o, b)
    OBVIOUS
  <2>3. home[d] # NoSession /\ rows[d] = <<>>
    BY <1>1, OneHome DEF Waiting
  <2>4. QED
    BY <2>1, <2>2, <2>3 DEF Row
<1>2. ASSUME NEW d \in Calls, d \notin S PROVE rows'[d] = rows[d]
  BY <1>2 DEF Closes
<1>3. ASSUME NEW d \in Calls
      PROVE  /\ home'[d] = NoSession => rows'[d] = <<>> /\ d \notin received'
             /\ \A s \in Sessions : d \in pending'[s] <=> home'[d] = s /\ rows'[d] = <<>>
             /\ Len(rows'[d]) <= 1
  <2>1. CASE d \in S
    <3>1. rows'[d] # <<>> /\ Len(rows'[d]) = 1 /\ home'[d] # NoSession
      BY <1>1, <2>1
    <3>2. \A s \in Sessions : d \notin pending'[s]
      BY <2>1 DEF Closes
    <3>3. QED
      BY <3>1, <3>2
  <2>2. CASE d \notin S
    BY <1>2, <2>2 DEF BooksInv, Closes
  <2>3. QED
    BY <2>1, <2>2
<1>4. ASSUME NEW d \in Calls
      PROVE  /\ (\A i \in DOMAIN rows[d] : SameCaller(d, rows[d][i].by))'
             /\ d \in seen' => rows'[d] # <<>> /\ rows'[d][1].outcome = "answer"
  <2>1. CASE d \in S
    <3>1. DOMAIN rows'[d] = {1} /\ SameCaller(d, rows'[d][1].by)
          /\ rows'[d] # <<>> /\ rows'[d][1].outcome = o /\ rows[d] = <<>>
      BY <1>1, <2>1
    <3>2. d \in seen' => o = "answer"
      BY <3>1 DEF BooksInv
    <3>3. QED
      BY <3>1, <3>2 DEF SameCaller
  <2>2. CASE d \notin S
    <3>1. rows'[d] = rows[d] /\ (d \in seen' => d \in seen)
      BY <1>2, <2>2
    <3>2. QED
      BY <3>1 DEF BooksInv, SameCaller
  <2>3. QED
    BY <2>1, <2>2
<1>5. \A s \in Sessions : pending'[s] \subseteq pending[s]
  BY DEF Closes
<1>6. \A s \in Sessions : \A x, y \in pending'[s] : IdOf[x] = IdOf[y] => x = y
  BY <1>5 DEF BooksInv
<1>7. \A d \in Calls :
        /\ via'[d].conn = NoSession => home'[d] = NoSession /\ via'[d].key = NoKey
        /\ home'[d] # NoSession /\ via'[d].key = NoKey => home'[d] = via'[d].conn
  BY DEF BooksInv
<1>8. QED
  BY <1>3, <1>4, <1>6, <1>7 DEF BooksInv

LEMMA MovesKeepsConn ==
  ASSUME HttpInv, NEW c \in Conns, Moves(c)
  PROVE  ConnInv' /\ KeyInv'
<1> USE DEF HttpInv
<1>1. ASSUME NEW e \in Conns, e # c PROVE ConnOK(e)'
  BY <1>1 DEF Moves, ConnInv, ConnOK
<1>2. ConnInv'
  BY <1>1 DEF Moves, ConnInv
<1>3. ASSUME NEW s \in SseSessions, NEW k \in Keys, Advertised(s, k)'
      PROVE  Advertised(s, k)
  <2>1. s # NoSession /\ k # NoKey /\ Range(<<>>) = {}
    BY SessionsAssumption, KeysAssumption DEF Sessions, Range
  <2>2. QED
    BY <1>3, <2>1 DEF Moves, Advertised
<1>4. KeyInv'
  BY <1>3 DEF Moves, KeyInv
<1>5. QED
  BY <1>2, <1>4

LEMMA MovesKeeps ==
  ASSUME HttpInv, NEW c \in Conns, Moves(c)
  PROVE  HttpInv'
<1>1. PICK S \in SUBSET Waiting, o \in {"answer", "timeout"} :
        Closes(S, o) /\ seen' \subseteq seen \cup (IF o = "answer" THEN S ELSE {})
  BY DEF Moves
<1>2. BooksInv'
  BY <1>1, ClosesKeepsBooks DEF Moves
<1>3. Waiting \subseteq Calls
  BY DEF HttpInv, Types, Waiting
<1>4. Types'
  <2>1. pending' \in [Sessions -> SUBSET Calls]
    BY <1>1 DEF Closes, HttpInv, Types
  <2>2. seen' \subseteq Calls
    BY <1>1, <1>3 DEF HttpInv, Types
  <2>3. QED
    BY <1>1, <2>1, <2>2 DEF Moves, Closes, HttpInv, Types
<1>5. ServeInv'
  <2>1. \A s \in Sessions : pending'[s] \subseteq pending[s]
    BY <1>1 DEF Closes
  <2>2. \A e \in Conns : e \in open' <=> conn'[e].pc \notin {"new", "gone"}
    BY DEF Moves, HttpInv, ServeInv
  <2>3. \A e \in Conns : conn'[e].pc \in {"new", "gone"} => pending'[e] = {}
    BY <2>1 DEF Moves, HttpInv, ServeInv, Sessions
  <2>4. ASSUME NEW s \in SseSessions
        PROVE  (\E k \in Keys : endpoints'[k] = s) \/ s \in orphans' \/ pending'[s] \subseteq late'
    <3>1. s \in Sessions
      BY DEF Sessions
    <3>2. QED
      BY <2>1, <3>1 DEF Moves, HttpInv, ServeInv
  <2>5. QED
    BY <2>2, <2>3, <2>4 DEF Moves, ServeInv
<1>6. QED
  BY <1>2, <1>4, <1>5, MovesKeepsConn DEF HttpInv

LEMMA ConnIs ==
  ASSUME HttpInv, NEW c \in Conns
  PROVE  /\ conn[c] \in ConnStates /\ ConnOK(c)
         /\ conn[c].pc \notin {"new", "gone", "aborted"} => serve \in {"run", "stopping"}
         /\ serve \in {"run", "stopping"} => (c \in open <=> conn[c].pc \notin {"new", "gone"})
         /\ Range(<<>>) = {}
  BY DEF HttpInv, Types, ConnInv, ServeInv, ConnectionsGone, Range

\* Steps on one connection's record alone.
Plain(c) ==
  /\ serve \in {"run", "stopping"}
  /\ UNCHANGED <<pending, endpoints, fresh, via, home, orphans, late, rows, seen, serve>>

LEMMA PlainMoves ==
  ASSUME HttpInv, NEW c \in Conns, Plain(c),
         NEW r \in ConnStates, conn' = [conn EXCEPT ![c] = r], ConnOK(c)',
         \/ r.keys = <<>> /\ r.key = NoKey
         \/ r.keys = conn[c].keys /\ r.key = conn[c].key /\ r.session = conn[c].session,
         r.pc \notin {"new", "gone"},
         open' = open \cup {c},
         received' \subseteq Calls, \A d \in received' : d \in received \/ home[d] # NoSession
  PROVE  Moves(c)
<1>1. conn'[c] = r /\ conn' \in [Conns -> ConnStates] /\ \A e \in Conns \ {c} : conn'[e] = conn[e]
  BY DEF HttpInv, Types
<1>2. \E S \in SUBSET Waiting, o \in {"answer", "timeout"} :
         Closes(S, o) /\ seen' \subseteq seen \cup (IF o = "answer" THEN S ELSE {})
  <2>1. Closes({}, "timeout")
    BY NothingCloses DEF Plain
  <2>2. QED
    BY <2>1 DEF Plain
<1>3. QED
  BY <1>1, <1>2 DEF Plain, Moves, HttpInv, Types

LEMMA IdleIs == /\ Idle \in ConnStates /\ Idle.keys = <<>> /\ Idle.todo = <<>> /\ Idle.key = NoKey
                /\ Idle.pc = "idle" /\ Idle.session = NoSession /\ ~Idle.get
  BY DEF Idle, ConnStates, Places

LEMMA IdleIsOK ==
  ASSUME HttpInv, NEW c \in Conns, conn'[c].keys = <<>>, conn'[c].todo = <<>>,
         conn'[c].key = NoKey, conn'[c].pc \notin Busy, ~conn'[c].get,
         conn'[c].session \in {NoSession, c}
  PROVE  ConnOK(c)'
  BY SessionsAssumption DEF ConnOK, Range, Sessions

LEMMA RecordsMove ==
  ASSUME HttpInv, NEW c \in Conns,
         Accept(c) \/ Get(c) \/ UpstreamFails(c)
  PROVE  Moves(c)
<1>1. CASE Accept(c)
  <2>1. conn' = [conn EXCEPT ![c] = Idle] /\ conn'[c] = Idle
    BY <1>1 DEF Accept, HttpInv, Types
  <2>2. ConnOK(c)'
    BY <2>1, IdleIs, IdleIsOK DEF Busy
  <2>3. Plain(c) /\ open' = open \cup {c} /\ received' = received
    BY <1>1 DEF Accept, Plain, history
  <2>4. QED
    BY <2>1, <2>2, <2>3, IdleIs, PlainMoves DEF HttpInv, Types
<1>2. CASE UpstreamFails(c)
  <2>1. conn' = [conn EXCEPT ![c] = Idle] /\ conn'[c] = Idle
    BY <1>2 DEF UpstreamFails, HttpInv, Types
  <2>2. ConnOK(c)'
    BY <2>1, IdleIs, IdleIsOK DEF Busy
  <2>3. Plain(c) /\ open' = open \cup {c} /\ received' = received
    BY <1>2, ConnIs DEF UpstreamFails, Plain, registry, history
  <2>4. QED
    BY <2>1, <2>2, <2>3, IdleIs, PlainMoves DEF HttpInv, Types
<1>3. CASE Get(c)
  <2> DEFINE r == [Idle EXCEPT !.pc = "sent", !.session = c, !.get = TRUE]
  <2>1. conn' = [conn EXCEPT ![c] = r] /\ conn'[c] = r
    BY <1>3 DEF Get, HttpInv, Types
  <2>2. r \in ConnStates /\ r.keys = <<>> /\ r.todo = <<>> /\ r.key = NoKey /\ r.session = c
        /\ r.pc = "sent" /\ r.get
    <3>1. c \in Sessions
      BY DEF Sessions
    <3>2. QED
      BY <3>1, IdleIs DEF ConnStates, Places
  <2> HIDE DEF r
  <2>3. ConnOK(c)'
    <3>1. c \in Sessions /\ c \notin fresh'
      BY <1>3, SessionsAssumption DEF Get, registry, HttpInv, Types, Sessions
    <3>2. QED
      BY <2>1, <2>2, <3>1 DEF ConnOK, Range, Busy
  <2>4. Plain(c) /\ open' = open \cup {c} /\ received' = received
    BY <1>3, ConnIs DEF Get, Plain, registry, history
  <2>5. QED
    BY <2>1, <2>2, <2>3, <2>4, PlainMoves DEF HttpInv, Types
<1>4. QED
  BY <1>1, <1>2, <1>3

LEMMA SendMoves ==
  ASSUME HttpInv, NEW c \in Conns, Send(c)
  PROVE  Moves(c)
<1> DEFINE r == [conn[c] EXCEPT !.pc = "sent"]
<1>1. conn[c].pc = "register" /\ conn[c].todo = <<>> /\ conn[c] \in ConnStates /\ ConnOK(c)
  BY ConnIs DEF Send
<1>2. conn' = [conn EXCEPT ![c] = r] /\ conn'[c] = r
  BY <1>1 DEF Send, HttpInv, Types
<1>3. r \in ConnStates
  BY <1>1 DEF ConnStates, Places
<1>4. /\ r.keys = conn[c].keys /\ r.todo = <<>> /\ r.key = conn[c].key /\ r.session = conn[c].session
      /\ r.pc = "sent" /\ r.get = conn[c].get
  BY <1>1 DEF ConnStates
<1> HIDE DEF r
<1>5. Plain(c)
  BY <1>1, ConnIs DEF Send, Plain, registry
<1>6. ConnOK(c)'
  BY <1>1, <1>2, <1>4, <1>5 DEF ConnOK, Range, Busy, Plain
<1>7. open' = open \cup {c}
  BY <1>1, ConnIs DEF Send, registry
<1>8. received' \subseteq Calls /\ \A d \in received' : d \in received \/ home[d] # NoSession
  <2>1. Range(conn[c].keys) \subseteq Calls
    BY <1>1 DEF ConnStates, Range
  <2>2. conn[c].session # NoSession /\ Range(conn[c].todo) = {}
    BY <1>1, SessionsAssumption DEF ConnOK, Busy, Range
  <2>3. \A d \in Range(conn[c].keys) : home[d] # NoSession
    BY <1>1, <2>2 DEF ConnOK
  <2>4. QED
    BY <2>1, <2>3 DEF Send, HttpInv, Types
<1>9. QED
  BY <1>2, <1>3, <1>4, <1>5, <1>6, <1>7, <1>8, PlainMoves

LEMMA HeadMoves ==
  ASSUME HttpInv, NEW c \in Conns, ResponseHead(c)
  PROVE  Moves(c)
<1>1. PICK mode \in {"whole", "events"}, accepted \in BOOLEAN :
        conn' = [conn EXCEPT ![c].pc = "body", ![c].mode = mode,
                             ![c].answers = AnswerExpected(c, accepted)]
  BY DEF ResponseHead
<1> DEFINE answers == AnswerExpected(c, accepted)
           r == [conn[c] EXCEPT !.pc = "body", !.mode = mode, !.answers = answers]
<1>2. conn[c].pc = "sent" /\ conn[c] \in ConnStates /\ ConnOK(c)
  BY ConnIs DEF ResponseHead
<1>3. answers \in BOOLEAN
  BY DEF AnswerExpected
<1>4. conn' = [conn EXCEPT ![c] = r] /\ conn'[c] = r
  BY <1>1 DEF HttpInv, Types
<1> HIDE DEF answers
<1>5. r \in ConnStates
  BY <1>2, <1>3 DEF ConnStates, Places
<1>6. /\ r.keys = conn[c].keys /\ r.todo = conn[c].todo /\ r.key = conn[c].key
      /\ r.session = conn[c].session /\ r.pc = "body" /\ r.get = conn[c].get
  BY <1>2 DEF ConnStates
<1> HIDE DEF r
<1>7. Plain(c)
  BY <1>2, ConnIs DEF ResponseHead, Plain, registry, history
<1>8. ConnOK(c)'
  BY <1>2, <1>4, <1>6, <1>7 DEF ConnOK, Range, Busy, Plain
<1>9. open' = open \cup {c} /\ received' = received
  BY <1>2, ConnIs DEF ResponseHead, registry, history
<1>10. QED
  BY <1>4, <1>5, <1>6, <1>7, <1>8, <1>9, PlainMoves DEF HttpInv, Types

LEMMA EventMoves ==
  ASSUME HttpInv, NEW c \in Conns, Event(c)
  PROVE  Moves(c)
<1> USE DEF HttpInv
<1>1. PICK S \in SUBSET pending[conn[c].session] :
        Closes(S, "answer") /\ seen' \subseteq seen \cup S
  BY EventCloses
<1>2. conn[c].pc = "body" /\ ConnOK(c)
  BY ConnIs DEF Event
<1>3. S \subseteq Waiting
  BY <1>1 DEF Closes
<1>4. /\ UNCHANGED <<conn, open, endpoints, fresh, via, home, received, orphans, late, serve>>
  BY DEF Event
<1>5. serve \in {"run", "stopping"} /\ c \in open
  BY <1>2, ConnIs
<1>6. ConnOK(c)'
  BY <1>2, <1>4 DEF ConnOK
<1>7. QED
  BY <1>1, <1>2, <1>3, <1>4, <1>5, <1>6 DEF Moves, Types

LEMMA CloseMoves ==
  ASSUME HttpInv, NEW c \in Conns, Close(c)
  PROVE  Moves(c)
<1> USE DEF HttpInv
<1> DEFINE r == [conn[c] EXCEPT !.pc = "gone"]
<1>1. conn[c].pc = "left" /\ conn[c] \in ConnStates /\ ConnOK(c)
  BY ConnIs DEF Close
<1>2. conn' = [conn EXCEPT ![c] = r] /\ conn'[c] = r
  BY DEF Close, Types
<1>3. r \in ConnStates
  BY <1>1 DEF ConnStates, Places
<1>4. /\ r.keys = <<>> /\ r.todo = <<>> /\ r.key = NoKey /\ r.session = conn[c].session
      /\ r.pc = "gone" /\ r.get = conn[c].get
  BY <1>1 DEF ConnStates, ConnOK, Busy
<1> HIDE DEF r
<1>5. UNCHANGED <<endpoints, fresh, via, home, received, seen, orphans, late, serve>>
      /\ open' = open \ {c} /\ pending' = [pending EXCEPT ![c] = {}] /\ TimeOut(pending[c])
  BY DEF Close, history
<1>6. ConnOK(c)'
  BY <1>1, <1>2, <1>4, <1>5 DEF ConnOK, Range, Busy
<1>7. Closes(pending[c], "timeout") /\ pending[c] \subseteq Waiting
  <2>1. c \in Sessions
    BY DEF Sessions
  <2>2. pending' = [pending EXCEPT ![c] = @ \ pending[c]]
    BY <1>5
  <2>3. pending[c] \subseteq Waiting /\ pending' = [t \in Sessions |-> pending[t] \ pending[c]]
    BY <2>1, <2>2, OneSession
  <2>4. QED
    BY <1>5, <2>3, TimedOut
<1>8. pending'[c] = {}
  BY <1>5 DEF Types, Sessions
<1>9. serve \in {"run", "stopping"}
  BY <1>1, ConnIs
<1>10. conn' \in [Conns -> ConnStates] /\ \A e \in Conns \ {c} : conn'[e] = conn[e]
  BY <1>2, <1>3 DEF Types
<1>11. \E S \in SUBSET Waiting, o \in {"answer", "timeout"} :
         Closes(S, o) /\ seen' \subseteq seen \cup (IF o = "answer" THEN S ELSE {})
  BY <1>5, <1>7
<1>12. QED
  BY <1>2, <1>4, <1>5, <1>6, <1>8, <1>9, <1>10, <1>11 DEF Moves, Types

\* A connection stops to serve its request: a body it was served finishes.
LEMMA RequestEnds ==
  ASSUME HttpInv, NEW c \in Conns, conn[c].pc \notin {"new", "left", "gone", "aborted"},
         IF conn[c].pc = "body" THEN Finish(c) ELSE UNCHANGED <<endpoints, pending, rows>>,
         NEW r \in ConnStates, r.keys = <<>>, r.todo = <<>>, r.key = NoKey,
         r.session = NoSession, ~r.get, r.pc \in {"idle", "left", "aborted"},
         conn' = [conn EXCEPT ![c] = r],
         UNCHANGED <<open, fresh, via, home, received, seen, orphans, late, serve>>
  PROVE  Moves(c)
<1> USE DEF HttpInv
<1>1. conn'[c] = r /\ conn' \in [Conns -> ConnStates] /\ \A e \in Conns \ {c} : conn'[e] = conn[e]
  BY DEF Types
<1>3. ConnOK(c)'
  BY <1>1, IdleIsOK DEF Busy
<1>4. serve \in {"run", "stopping"} /\ c \in open
  BY ConnIs
<1>5. \E S \in SUBSET Waiting, o \in {"answer", "timeout"} : Closes(S, o)
  <2>1. CASE conn[c].pc = "body"
    <3>1. PICK S \in SUBSET pending[conn[c].session], o \in {"answer", "timeout"} : Closes(S, o)
      BY <2>1, FinishCloses
    <3>2. S \in SUBSET Waiting
      BY <3>1 DEF Closes
    <3>3. QED
      BY <3>1, <3>2
  <2>2. CASE conn[c].pc # "body"
    BY <2>2, NothingCloses
  <2>3. QED
    BY <2>1, <2>2
<1>6. /\ endpoints' \in [Keys -> SseSessions \cup {NoSession}]
      /\ \A k \in Keys : \/ endpoints'[k] = endpoints[k]
                         \/ endpoints'[k] = NoSession /\ pending'[endpoints[k]] = {}
  <2>1. CASE conn[c].pc = "body" /\ FinishEvents(c) /\ UnbindsOwn(c)
    <3>1. /\ endpoints' = [endpoints EXCEPT ![conn[c].key] = NoSession]
          /\ pending' = [pending EXCEPT ![conn[c].session] = {}]
      BY <2>1 DEF FinishEvents
    <3>2. conn[c].session \in Sessions
      BY <2>1, ConnIs DEF ConnOK, Busy
    <3>3. pending'[conn[c].session] = {} /\ endpoints[conn[c].key] = conn[c].session
      BY <2>1, <3>1, <3>2 DEF Types, UnbindsOwn
    <3>4. QED
      BY <3>1, <3>3 DEF Types
  <2>2. CASE endpoints' = endpoints
    BY <2>2 DEF Types
  <2>3. QED
    BY <2>1, <2>2 DEF Finish, FinishEvents, FinishWhole
<1>7. QED
  BY <1>1, <1>3, <1>4, <1>5, <1>6 DEF Moves, Types

LEMMA EndsMove ==
  ASSUME HttpInv, NEW c \in Conns, BodyEnds(c) \/ Disconnect(c) \/ Abort(c)
  PROVE  Moves(c)
<1>1. CASE BodyEnds(c)
  BY <1>1, IdleIs, RequestEnds DEF BodyEnds
<1>2. ASSUME NEW place \in {"left", "aborted"}, NEW r, r = [Idle EXCEPT !.pc = place]
      PROVE  /\ r \in ConnStates /\ r.keys = <<>> /\ r.todo = <<>> /\ r.key = NoKey
             /\ r.session = NoSession /\ ~r.get /\ r.pc \in {"idle", "left", "aborted"}
  BY <1>2, IdleIs DEF ConnStates, Places
<1>3. CASE Disconnect(c)
  BY <1>2, <1>3, RequestEnds DEF Disconnect, Drop
<1>4. CASE Abort(c)
  BY <1>2, <1>4, RequestEnds DEF Abort, Drop
<1>5. QED
  BY <1>1, <1>3, <1>4

-----------------------------------------------------------------------------
(* The steps that give calls and streams their sessions, and those of serve. *)

\* A connection's request holds no call that was posted elsewhere.
LEMMA NoCallOf ==
  ASSUME HttpInv, NEW e \in Conns, NEW d \in Calls, via[d].conn # e
  PROVE  d \notin Range(conn[e].keys)
  BY DEF HttpInv, ConnInv, ConnOK

LEMMA LookUpKeeps ==
  ASSUME HttpInv, NEW c \in Conns, LookUp(c)
  PROVE  HttpInv'
<1> USE DEF HttpInv
<1>1. PICK line \in Bodies, key \in Keys \cup {NoKey} :
       /\ \A d \in Range(line) : via[d].conn = NoSession
       /\ conn' = [conn EXCEPT ![c] = [Idle EXCEPT
                     !.pc = "register", !.todo = line, !.keys = line,
                     !.session = SessionFor(c, key)]]
       /\ via' = [d \in Calls |-> IF d \in Range(line) THEN [conn |-> c, key |-> key]
                                  ELSE via[d]]
  BY DEF LookUp
<1> DEFINE s == SessionFor(c, key)
<1>2. UNCHANGED <<pending, open, endpoints, fresh, home, received, seen, orphans, late, rows, serve>>
  BY DEF LookUp, registry
<1>3. conn[c].pc = "idle" /\ serve \in {"run", "stopping"} /\ c \in open
  BY ConnIs DEF LookUp
<1>4. /\ line \in Seq(Calls) /\ Range(line) \subseteq Calls
      /\ \A i, j \in DOMAIN line : line[i] = line[j] => i = j
  BY BodiesAssumption DEF Range
<1>5. /\ s \in Sessions \ fresh
      /\ s \in Conns => s = c
      /\ key = NoKey => s = c
      /\ s # c => key \in Keys /\ endpoints[key] = s /\ s \in SseSessions
  <2>1. CASE key # NoKey /\ endpoints[key] # NoSession
    <3>1. key \in Keys /\ s = endpoints[key] /\ s \in SseSessions
      BY <2>1 DEF SessionFor, Types
    <3>2. Advertised(s, key)
      BY <3>1 DEF Advertised
    <3>3. s \notin fresh
      BY <3>1, <3>2 DEF KeyInv
    <3>4. QED
      BY <2>1, <3>1, <3>3, SessionsAssumption DEF Sessions
  <2>2. CASE ~(key # NoKey /\ endpoints[key] # NoSession)
    BY <2>2, SessionsAssumption DEF SessionFor, Sessions, Types
  <2>3. QED
    BY <2>1, <2>2
<1> HIDE DEF s
<1>6. PICK r \in ConnStates :
        /\ conn'[c] = r /\ conn' = [conn EXCEPT ![c] = r]
        /\ r.pc = "register" /\ r.todo = line /\ r.keys = line /\ r.session = s
        /\ r.key = NoKey /\ ~r.get
  <2> DEFINE r == [Idle EXCEPT !.pc = "register", !.todo = line, !.keys = line, !.session = s]
  <2>1. conn' = [conn EXCEPT ![c] = r]
    BY <1>1 DEF s
  <2>2. /\ r \in ConnStates /\ r.pc = "register" /\ r.todo = line /\ r.keys = line
        /\ r.session = s /\ r.key = NoKey /\ ~r.get
    BY <1>4, <1>5, IdleIs DEF ConnStates, Places
  <2> HIDE DEF r
  <2>3. QED
    BY <2>1, <2>2 DEF Types
<1>7. \A d \in Calls : /\ d \in Range(line) => via'[d].conn = c /\ via'[d].key = key
                       /\ d \notin Range(line) => via'[d] = via[d]
  BY <1>1
<1>8. \A e \in Conns : e # NoSession
  BY SessionsAssumption DEF Sessions
<1>9. \A d \in Range(line) : /\ home[d] = NoSession /\ rows[d] = <<>> /\ via[d].key = NoKey
                             /\ \A e \in Conns : d \notin Range(conn[e].keys)
  BY <1>1, <1>4, <1>8, NoCallOf DEF BooksInv
<1>10. \A e \in Conns \ {c} : conn'[e] = conn[e]
  BY <1>6 DEF Types
<1>11. Types'
  <2>1. via' \in [Calls -> Posts]
    BY <1>1 DEF Types, Posts
  <2>2. QED
    BY <1>2, <1>6, <2>1 DEF Types
<1>12. ConnInv'
  <2>1. ConnOK(c)'
    BY <1>2, <1>4, <1>5, <1>6, <1>7, <1>9 DEF ConnOK, Busy
  <2>2. ASSUME NEW e \in Conns, e # c PROVE ConnOK(e)'
    <3>1. \A d \in Range(conn[e].keys) : via'[d] = via[d]
      <4>1. Range(conn[e].keys) \subseteq Calls
        BY DEF Types, ConnStates, Range
      <4>2. QED
        BY <1>7, <1>9, <4>1
    <3>2. QED
      BY <1>2, <1>10, <2>2, <3>1 DEF ConnInv, ConnOK
  <2>3. QED
    BY <2>1, <2>2 DEF ConnInv
<1>13. BooksInv'
  <2>1. ASSUME NEW d \in Calls, NEW i \in DOMAIN rows[d]
        PROVE  SameCaller(d, rows[d][i].by)'
    <3>1. SameCaller(d, rows[d][i].by) /\ rows[d][i].by \in Calls
      <4>1. rows[d] \in Seq(Rows)
        BY DEF Types
      <4>2. rows[d][i] \in Rows
        BY <4>1
      <4>3. QED
        BY <4>2 DEF BooksInv, Rows
    <3>2. home[d] # NoSession /\ d \notin Range(line)
      BY <1>9 DEF BooksInv
    <3>3. rows[d][i].by \in Range(line) => FALSE
      BY <1>9, <3>1, <3>2 DEF SameCaller
    <3>4. QED
      BY <1>2, <1>7, <3>1, <3>2, <3>3 DEF SameCaller
  <2>2. \A d \in Calls :
          /\ via'[d].conn = NoSession => home'[d] = NoSession /\ via'[d].key = NoKey
          /\ home'[d] # NoSession /\ via'[d].key = NoKey => home'[d] = via'[d].conn
    BY <1>2, <1>7, <1>8, <1>9 DEF BooksInv
  <2>3. QED
    BY <1>2, <2>1, <2>2 DEF BooksInv
<1>14. KeyInv'
  <2>1. ASSUME NEW t \in SseSessions, NEW k \in Keys, Advertised(t, k)'
        PROVE  Advertised(t, k)
    <3>1. t # NoSession /\ k # NoKey /\ t # c
      BY SessionsAssumption, KeysAssumption DEF Sessions
    <3>2. CASE endpoints'[k] = t
      BY <1>2, <3>2 DEF Advertised
    <3>3. CASE \E e \in Conns : conn'[e].key = k /\ conn'[e].session = t
      BY <1>6, <1>10, <3>1, <3>3 DEF Advertised
    <3>4. CASE \E e \in Conns : \E d \in Range(conn'[e].keys) :
                 via'[d].key = k /\ conn'[e].session = t
      <4> PICK e \in Conns : \E d \in Range(conn'[e].keys) : via'[d].key = k /\ conn'[e].session = t
        BY <3>4
      <4>1. PICK d \in Range(conn'[e].keys) : via'[d].key = k /\ conn'[e].session = t
        OBVIOUS
      <4>2. CASE e = c
        <5>1. d \in Range(line) /\ d \in Calls /\ s = t
          BY <1>4, <1>6, <4>1, <4>2
        <5>2. key = k /\ endpoints[key] = t
          BY <1>5, <1>7, <3>1, <4>1, <5>1
        <5>3. QED
          BY <5>2 DEF Advertised
      <4>3. CASE e # c
        <5>1. d \in Range(conn[e].keys) /\ d \in Calls /\ d \notin Range(line)
          <6>1. d \in Range(conn[e].keys)
            BY <1>10, <4>1, <4>3
          <6>2. Range(conn[e].keys) \subseteq Calls
            BY DEF Types, ConnStates, Range
          <6>3. QED
            BY <1>9, <6>1, <6>2
        <5>2. via[d].key = k /\ conn[e].session = t
          BY <1>7, <1>10, <4>1, <4>3, <5>1
        <5>3. QED
          BY <5>1, <5>2 DEF Advertised
      <4>4. QED
        BY <4>2, <4>3
    <3>5. CASE \E d \in Calls : via'[d].key = k /\ home'[d] = t
      BY <1>2, <1>7, <1>9, <3>1, <3>5 DEF Advertised
    <3>6. QED
      BY <2>1, <3>2, <3>3, <3>4, <3>5 DEF Advertised
  <2>2. QED
    BY <1>2, <2>1 DEF KeyInv
<1>15. ServeInv'
  BY <1>2, <1>3, <1>6, <1>10 DEF ServeInv
<1>16. QED
  BY <1>11, <1>12, <1>13, <1>14, <1>15

\* What is left to be registered once the first call is.
LEMMA RestOf ==
  ASSUME NEW todo \in Seq(Calls), todo # <<>>,
         \A i, j \in DOMAIN todo : todo[i] = todo[j] => i = j
  PROVE  /\ Head(todo) \in Calls /\ Head(todo) \in Range(todo)
         /\ Tail(todo) \in Seq(Calls)
         /\ Range(Tail(todo)) = Range(todo) \ {Head(todo)}
         /\ \A i, j \in DOMAIN Tail(todo) : Tail(todo)[i] = Tail(todo)[j] => i = j
<1> DEFINE rest == Tail(todo)
<1>1. /\ Len(todo) \in Nat /\ Len(todo) >= 1 /\ DOMAIN todo = 1..Len(todo)
      /\ Head(todo) = todo[1] /\ rest \in Seq(Calls) /\ Len(rest) = Len(todo) - 1
      /\ DOMAIN rest = 1..(Len(todo) - 1)
      /\ \A i \in 1..Len(rest) : rest[i] = todo[i + 1]
  OBVIOUS
<1> HIDE DEF rest
<1>2. ASSUME NEW i \in DOMAIN rest, NEW j \in DOMAIN rest, rest[i] = rest[j]
      PROVE  i = j
  <2>1. i + 1 \in DOMAIN todo /\ j + 1 \in DOMAIN todo /\ todo[i + 1] = todo[j + 1]
    BY <1>1, <1>2
  <2>2. i + 1 = j + 1 /\ i \in Nat /\ j \in Nat
    BY <1>1, <2>1
  <2>3. QED
    BY <2>2
<1>3. ASSUME NEW x PROVE x \in Range(rest) <=> x \in Range(todo) /\ x # Head(todo)
  <2>1. ASSUME x \in Range(rest) PROVE x \in Range(todo) /\ x # Head(todo)
    <3>1. PICK i \in DOMAIN rest : rest[i] = x
      BY <2>1 DEF Range
    <3>2. i + 1 \in DOMAIN todo /\ i + 1 # 1 /\ 1 \in DOMAIN todo /\ todo[i + 1] = x
      BY <1>1, <3>1
    <3>3. QED
      BY <1>1, <3>2 DEF Range
  <2>2. ASSUME x \in Range(todo), x # Head(todo) PROVE x \in Range(rest)
    <3>1. PICK i \in DOMAIN todo : todo[i] = x
      BY <2>2 DEF Range
    <3>2. i - 1 \in DOMAIN rest /\ rest[i - 1] = todo[i]
      BY <1>1, <2>2, <3>1
    <3>3. QED
      BY <3>1, <3>2 DEF Range
  <2>3. QED
    BY <2>1, <2>2
<1>4. Head(todo) \in Calls /\ Head(todo) \in Range(todo)
  BY <1>1 DEF Range
<1>5. QED
  BY <1>1, <1>2, <1>3, <1>4 DEF rest

\* A registration as a whole: the call comes to wait in the session that the
\* connection looked up, and what waits there under its id is written off.
Registers(c, d, s, stale) ==
  /\ conn[c].pc = "register" /\ serve \in {"run", "stopping"} /\ c \in open
  /\ conn[c].session = s /\ d \in Range(conn[c].keys) /\ s # NoSession /\ s \notin fresh
  /\ home[d] = NoSession /\ rows[d] = <<>> /\ d \notin received
  /\ \A t \in Sessions : d \notin pending[t]
  /\ stale = {x \in pending[s] : IdOf[x] = IdOf[d]} /\ d \notin stale
  /\ pending' = [pending EXCEPT ![s] = (@ \ stale) \cup {d}]
  /\ home' = [home EXCEPT ![d] = s]
  /\ late' = IF s \in SseSessions \ Range(endpoints) THEN late \cup {d} ELSE late
  /\ rows' \in [Calls -> Seq(Rows)]
  /\ \A x \in Calls \ stale : rows'[x] = rows[x]
  /\ \A x \in stale : rows[x] = <<>> /\ rows'[x] = <<Row("timeout", x)>>
  /\ UNCHANGED <<open, endpoints, fresh, via, received, seen, orphans, serve>>

LEMMA Registered ==
  ASSUME HttpInv, NEW c \in Conns, Register(c)
  PROVE  \E d \in Calls, s \in Sessions : Registers(c, d, s, Displaced(s, d))
<1> USE DEF HttpInv
<1> DEFINE d == Head(conn[c].todo)
           s == conn[c].session
           stale == Displaced(s, d)
<1>1. conn[c].pc = "register" /\ conn[c].todo # <<>> /\ conn[c] \in ConnStates /\ ConnOK(c)
      /\ serve \in {"run", "stopping"} /\ c \in open
  BY ConnIs DEF Register
<1>2. s \in Sessions /\ s \notin fresh /\ s # NoSession
  BY <1>1, SessionsAssumption DEF ConnOK, Busy
<1>3. d \in Calls /\ d \in Range(conn[c].todo)
  BY <1>1, RestOf DEF ConnOK, ConnStates
<1>4. d \in Range(conn[c].keys) /\ home[d] = NoSession
  BY <1>1, <1>3 DEF ConnOK
<1>5. rows[d] = <<>> /\ d \notin received /\ \A t \in Sessions : d \notin pending[t]
  BY <1>3, <1>4, SessionsAssumption DEF BooksInv
<1>6. /\ pending' = [pending EXCEPT ![s] = (@ \ stale) \cup {d}]
      /\ home' = [home EXCEPT ![d] = s]
      /\ late' = IF s \in SseSessions \ Range(endpoints) THEN late \cup {d} ELSE late
      /\ TimeOut(stale)
      /\ UNCHANGED <<open, endpoints, fresh, via, received, seen, orphans, serve>>
  BY DEF Register
<1> DEFINE by == [x \in Calls |-> x]
<1>7. rows' = [x \in Calls |-> IF x \in stale THEN Append(rows[x], Row("timeout", by[x])) ELSE rows[x]]
  BY <1>6 DEF TimeOut, AddRows
<1>8. stale \subseteq pending[s] /\ stale \subseteq Waiting
  BY <1>2 DEF Displaced, Waiting
<1>9. \A x \in stale : x \in Calls /\ rows[x] = <<>> /\ by[x] = x
  BY <1>2, <1>8, OneHome
<1>10. \A x \in stale : by[x] \in Calls /\ SameCaller(x, by[x])
  BY <1>9 DEF SameCaller
<1>11. /\ rows' \in [Calls -> Seq(Rows)]
       /\ \A x \in Calls \ stale : rows'[x] = rows[x]
  <2> HIDE DEF by, stale
  <2>1. QED
    BY <1>7, <1>8, <1>10, RowsAdded
<1>12. ASSUME NEW x \in stale PROVE rows'[x] = <<Row("timeout", x)>>
  <2>1. rows'[x] = Append(<<>>, Row("timeout", x))
    BY <1>7, <1>9, <1>12
  <2>2. Append(<<>>, Row("timeout", x)) = <<Row("timeout", x)>>
    OBVIOUS
  <2>3. QED
    BY <2>1, <2>2
<1>13. d \notin stale
  BY <1>2, <1>5, <1>8
<1> HIDE DEF d, s
<1>14. Registers(c, d, s, stale)
  BY <1>1, <1>2, <1>3, <1>4, <1>5, <1>6, <1>9, <1>11, <1>12, <1>13 DEF Registers, Displaced, s
<1>15. QED
  BY <1>2, <1>3, <1>14

LEMMA RegisterKeepsBooks ==
  ASSUME HttpInv, NEW c \in Conns, NEW d \in Calls, NEW s \in Sessions, NEW stale,
         Registers(c, d, s, stale)
  PROVE  BooksInv'
<1> USE DEF HttpInv
<1>0. /\ rows[d] = <<>> /\ home[d] = NoSession /\ d \notin received
      /\ \A t \in Sessions : d \notin pending[t]
      /\ UNCHANGED <<via, received, seen>>
      /\ \A x \in stale : x \in pending[s] /\ rows'[x] = <<Row("timeout", x)>>
      /\ \A x \in pending[s] \ stale : IdOf[x] # IdOf[d]
      /\ s # NoSession
  BY DEF Registers
<1>1. \A x \in Calls : /\ home'[x] = IF x = d THEN s ELSE home[x]
                       /\ x \notin stale => rows'[x] = rows[x]
  BY DEF Registers, Types
<1>2. \A t \in Sessions : pending'[t] = IF t = s THEN (pending[t] \ stale) \cup {d} ELSE pending[t]
  BY DEF Registers, Types
<1>3. \A x \in stale : x \in Calls /\ x # d /\ home[x] = s /\ rows[x] = <<>>
  BY <1>0, OneHome
<1>4. via[d].conn = c /\ (via[d].key = NoKey => s = c) /\ c # NoSession
  BY ConnIs, SessionsAssumption DEF Registers, ConnOK, Sessions
<1>5. ASSUME NEW x \in stale
      PROVE  /\ rows'[x] # <<>> /\ Len(rows'[x]) = 1 /\ DOMAIN rows'[x] = {1}
             /\ rows'[x][1].by = x
  <2>1. rows'[x] = <<Row("timeout", x)>>
    BY <1>0
  <2>2. /\ <<Row("timeout", x)>> # <<>> /\ Len(<<Row("timeout", x)>>) = 1
        /\ DOMAIN <<Row("timeout", x)>> = {1} /\ <<Row("timeout", x)>>[1] = Row("timeout", x)
    OBVIOUS
  <2>3. QED
    BY <2>1, <2>2 DEF Row
<1>6. ASSUME NEW x \in Calls
      PROVE  /\ home'[x] = NoSession => rows'[x] = <<>> /\ x \notin received'
             /\ \A t \in Sessions : x \in pending'[t] <=> home'[x] = t /\ rows'[x] = <<>>
             /\ Len(rows'[x]) <= 1
  <2>1. CASE x = d
    <3>1. home'[x] = s /\ rows'[x] = <<>> /\ Len(<<>>) = 0
      BY <1>0, <1>1, <1>3, <2>1
    <3>2. \A t \in Sessions : x \in pending'[t] <=> t = s
      BY <1>0, <1>2, <2>1
    <3>3. QED
      BY <1>0, <3>1, <3>2
  <2>2. CASE x \in stale
    <3>1. \A t \in Sessions : x \notin pending'[t]
      <4>1. ASSUME NEW t \in Sessions, t # s PROVE x \notin pending[t]
        BY <1>3, <2>2, <4>1, OneHome
      <4>2. QED
        BY <1>2, <1>3, <2>2, <4>1
    <3>2. rows'[x] # <<>> /\ Len(rows'[x]) = 1
      BY <1>5, <2>2
    <3>3. home'[x] = s
      BY <1>1, <1>3, <2>2
    <3>4. QED
      BY <1>0, <3>1, <3>2, <3>3
  <2>3. CASE x # d /\ x \notin stale
    <3>1. home'[x] = home[x] /\ rows'[x] = rows[x] /\ \A t \in Sessions : x \in pending'[t] <=> x \in pending[t]
      BY <1>1, <1>2, <2>3
    <3>2. QED
      BY <1>0, <3>1 DEF BooksInv
  <2>4. QED
    BY <2>1, <2>2, <2>3
<1>7. ASSUME NEW x \in Calls
      PROVE  /\ via'[x].conn = NoSession => home'[x] = NoSession /\ via'[x].key = NoKey
             /\ home'[x] # NoSession /\ via'[x].key = NoKey => home'[x] = via'[x].conn
  BY <1>0, <1>1, <1>4 DEF BooksInv
<1>8. ASSUME NEW x \in Calls, NEW i \in DOMAIN rows'[x]
      PROVE  SameCaller(x, rows[x][i].by)'
  <2>1. CASE x \in stale
    BY <1>5, <2>1 DEF SameCaller
  <2>2. CASE x \notin stale
    <3>1. rows'[x] = rows[x]
      BY <1>1, <2>2
    <3>2. SameCaller(x, rows[x][i].by) /\ rows[x][i].by \in Calls
      <4>1. rows[x] \in Seq(Rows)
        BY DEF Types
      <4>2. rows[x][i] \in Rows
        BY <3>1, <4>1
      <4>3. QED
        BY <3>1, <4>2 DEF BooksInv, Rows
    <3>3. x # d /\ home[x] # NoSession
      <4>1. rows[x] # <<>>
        BY <3>1
      <4>2. QED
        BY <1>0, <4>1 DEF BooksInv
    <3>4. QED
      BY <1>0, <1>1, <3>1, <3>2, <3>3 DEF SameCaller
  <2>3. QED
    BY <2>1, <2>2
<1>9. ASSUME NEW x \in seen' PROVE x \in Calls /\ rows'[x] # <<>> /\ rows'[x][1].outcome = "answer"
  <2>1. x \in Calls /\ rows[x] # <<>> /\ rows[x][1].outcome = "answer"
    BY <1>0 DEF Types, BooksInv
  <2>2. rows'[x] = rows[x]
    BY <1>1, <1>3, <2>1
  <2>3. QED
    BY <2>1, <2>2
<1>10. ASSUME NEW t \in Sessions, NEW x \in pending'[t], NEW y \in pending'[t], IdOf[x] = IdOf[y]
       PROVE  x = y
  <2>1. CASE t # s
    BY <1>2, <1>10, <2>1 DEF BooksInv
  <2>2. CASE t = s
    <3>1. \A z \in pending'[t] : z = d \/ (z \in pending[s] /\ IdOf[z] # IdOf[d])
      <4>1. pending'[t] = (pending[s] \ stale) \cup {d}
        BY <1>2, <2>2
      <4>2. ASSUME NEW z \in pending'[t], z # d
            PROVE  z \in pending[s] /\ IdOf[z] # IdOf[d]
        BY <1>0, <4>1, <4>2
      <4>3. QED
        BY <4>2
    <3>2. QED
      BY <1>10, <3>1 DEF BooksInv
  <2>3. QED
    BY <2>1, <2>2
<1>11. QED
  BY <1>6, <1>7, <1>8, <1>9, <1>10 DEF BooksInv

LEMMA RegisterKeeps ==
  ASSUME HttpInv, NEW c \in Conns, Register(c)
  PROVE  HttpInv'
<1> USE DEF HttpInv
<1>1. PICK d \in Calls, s \in Sessions : Registers(c, d, s, Displaced(s, d))
  BY Registered
<1> DEFINE stale == Displaced(s, d)
           todo  == conn[c].todo
<1> HIDE DEF stale
<1>2. Registers(c, d, s, stale)
  BY <1>1 DEF stale
<1>3. BooksInv'
  BY <1>2, RegisterKeepsBooks
<1>4. /\ todo # <<>> /\ d = Head(todo) /\ conn' = [conn EXCEPT ![c].todo = Tail(@)]
  <2>1. home' = [home EXCEPT ![Head(todo)] = conn[c].session] /\ todo # <<>>
        /\ conn' = [conn EXCEPT ![c].todo = Tail(@)]
    BY DEF Register
  <2>2. Head(todo) \in Calls /\ home[Head(todo)] = NoSession
    <3>1. Head(todo) \in Calls /\ Head(todo) \in Range(todo)
      BY <2>1, ConnIs, RestOf DEF ConnOK, ConnStates
    <3>2. QED
      BY <3>1, ConnIs DEF ConnOK
  <2>3. home'[d] # home[d] /\ home'[Head(todo)] # home[Head(todo)]
    BY <1>2, <2>1, <2>2 DEF Registers, Types
  <2>4. QED
    BY <2>1, <2>2, <2>3 DEF Types
<1>5. /\ conn[c] \in ConnStates /\ ConnOK(c) /\ todo \in Seq(Calls)
      /\ Tail(todo) \in Seq(Calls) /\ Range(Tail(todo)) = Range(todo) \ {d}
      /\ \A i, j \in DOMAIN Tail(todo) : Tail(todo)[i] = Tail(todo)[j] => i = j
  BY <1>4, ConnIs, RestOf DEF ConnOK, ConnStates
<1>6. PICK r \in ConnStates :
        /\ conn' = [conn EXCEPT ![c] = r] /\ conn'[c] = r
        /\ r.todo = Tail(todo) /\ r.pc = conn[c].pc /\ r.keys = conn[c].keys
        /\ r.session = conn[c].session /\ r.key = conn[c].key /\ r.get = conn[c].get
  <2> DEFINE r == [conn[c] EXCEPT !.todo = Tail(todo)]
  <2>1. conn' = [conn EXCEPT ![c] = r]
    BY <1>4
  <2>2. /\ r \in ConnStates /\ r.todo = Tail(todo) /\ r.pc = conn[c].pc /\ r.keys = conn[c].keys
        /\ r.session = conn[c].session /\ r.key = conn[c].key /\ r.get = conn[c].get
    BY <1>5 DEF ConnStates
  <2> HIDE DEF r
  <2>3. QED
    BY <2>1, <2>2 DEF Types
<1>7. \A e \in Conns \ {c} : conn'[e] = conn[e]
  BY <1>6 DEF Types
<1>8. \A x \in Calls : home'[x] = IF x = d THEN s ELSE home[x]
  BY <1>2 DEF Registers, Types
<1>9. Types'
  <2>1. pending' \in [Sessions -> SUBSET Calls] /\ home' \in [Calls -> Sessions \cup {NoSession}]
        /\ late' \subseteq Calls
    BY <1>2 DEF Registers, Types
  <2>2. QED
    BY <1>2, <1>6, <2>1 DEF Registers, Types
<1>10. ConnInv'
  <2>1. ConnOK(c)'
    <3>1. Range(conn[c].keys) \subseteq Calls
      BY <1>5 DEF ConnStates, Range
    <3>2. /\ conn[c].pc = "register" /\ conn[c].session = s /\ UNCHANGED <<fresh, via>>
          /\ s \in Sessions \ fresh /\ s # NoSession
      BY <1>2 DEF Registers
    <3>3. \A x \in Range(r.keys) :
            home'[x] = IF x \in Range(r.todo) THEN NoSession ELSE r.session
      BY <1>5, <1>6, <1>8, <3>1, <3>2 DEF ConnOK
    <3>4. \A x \in Range(r.keys) : via'[x].conn = c /\ (via'[x].key = NoKey => r.session = c)
      BY <1>5, <1>6, <3>2 DEF ConnOK
    <3>5. Range(r.todo) \subseteq Range(r.keys)
      BY <1>5, <1>6 DEF ConnOK
    <3>6. \A i, j \in DOMAIN r.todo : r.todo[i] = r.todo[j] => i = j
      BY <1>5, <1>6
    <3>7. /\ conn'[c] = r /\ r.pc = "register" /\ r.session = s
          /\ s \in Sessions \ fresh' /\ (s \in Conns => s = c)
          /\ r.get => r.keys = <<>>
          /\ r.get /\ r.key = NoKey => r.session = c
          /\ r.key # NoKey => r.get /\ r.session \in SseSessions
      BY <1>5, <1>6, <3>2 DEF ConnOK
    <3>8. QED
      BY <3>3, <3>4, <3>5, <3>6, <3>7 DEF ConnOK, Busy
  <2>2. ASSUME NEW e \in Conns, e # c PROVE ConnOK(e)'
    <3>1. \A x \in Range(conn[e].keys) : x \in Calls /\ home'[x] = home[x]
      <4>1. Range(conn[e].keys) \subseteq Calls
        BY DEF Types, ConnStates, Range
      <4>2. d \notin Range(conn[e].keys)
        BY <1>2, <1>5, <2>2, NoCallOf DEF Registers, ConnOK
      <4>3. QED
        BY <1>8, <4>1, <4>2
    <3>2. conn'[e] = conn[e] /\ ConnOK(e) /\ UNCHANGED <<fresh, via>>
      BY <1>2, <1>7, <2>2 DEF Registers, ConnInv
    <3>3. QED
      BY <3>1, <3>2 DEF ConnOK
  <2>3. QED
    BY <2>1, <2>2 DEF ConnInv
<1>11. KeyInv'
  <2>1. ASSUME NEW t \in SseSessions, NEW k \in Keys, Advertised(t, k)' PROVE Advertised(t, k)
    <3>1. \A e \in Conns : /\ conn'[e].keys = conn[e].keys /\ conn'[e].session = conn[e].session
                           /\ conn'[e].key = conn[e].key
      BY <1>6, <1>7
    <3>2. \A x \in Calls : via'[x].key = k /\ home'[x] = t /\ x = d => Advertised(t, k)
      BY <1>2, <1>8 DEF Registers, Advertised
    <3>3. QED
      BY <1>2, <1>8, <2>1, <3>1, <3>2 DEF Registers, Advertised
  <2>2. QED
    BY <1>2, <2>1 DEF Registers, KeyInv
<1>12. ServeInv'
  <2>1. \A t \in Sessions : pending'[t] \subseteq pending[t] \cup (IF t = s THEN {d} ELSE {})
    BY <1>2 DEF Registers, Types
  <2>2. \A e \in Conns : conn'[e].pc = conn[e].pc
    BY <1>6, <1>7
  <2>3. \A e \in Conns : conn'[e].pc \in {"new", "gone"} => pending'[e] = {}
    <3>1. s \in Conns => s = c
      BY <1>2, <1>5 DEF Registers, ConnOK
    <3>2. QED
      BY <1>2, <2>1, <2>2, <3>1 DEF Registers, ServeInv, Sessions
  <2>4. ASSUME NEW t \in SseSessions
        PROVE  (\E k \in Keys : endpoints'[k] = t) \/ t \in orphans' \/ pending'[t] \subseteq late'
    <3>1. t \in Sessions
      BY DEF Sessions
    <3>2. CASE t # s
      BY <1>2, <2>1, <3>1, <3>2 DEF Registers, ServeInv
    <3>3. CASE t = s /\ s \in Range(endpoints)
      BY <1>2, <3>3 DEF Registers, Range, Types
    <3>4. CASE t = s /\ s \notin Range(endpoints)
      <4>1. late' = late \cup {d}
        BY <1>2, <3>4 DEF Registers
      <4>2. ~\E k \in Keys : endpoints[k] = t
        BY <3>4 DEF Range, Types
      <4>3. QED
        BY <1>2, <2>1, <3>1, <4>1, <4>2 DEF Registers, ServeInv
    <3>5. QED
      BY <3>2, <3>3, <3>4
  <2>5. QED
    BY <1>2, <2>2, <2>3, <2>4 DEF Registers, ServeInv
<1>13. QED
  BY <1>3, <1>9, <1>10, <1>11, <1>12

LEMMA EndpointKeeps ==
  ASSUME HttpInv, NEW c \in Conns, Endpoint(c)
  PROVE  HttpInv'
<1> USE DEF HttpInv
<1>1. PICK k \in Keys, s \in fresh :
        /\ fresh' = fresh \ {s}
        /\ conn' = [conn EXCEPT ![c].session = s, ![c].key = k]
        /\ endpoints' = [endpoints EXCEPT ![k] = s]
        /\ orphans' = orphans \cup Replaced(k)
  BY DEF Endpoint
<1>2. UNCHANGED <<pending, open, via, home, received, seen, late, rows, serve>>
  BY DEF Endpoint
<1>3. /\ conn[c].pc = "body" /\ conn[c].get /\ conn[c].key = NoKey /\ conn[c].keys = <<>>
      /\ conn[c].todo = <<>> /\ conn[c] \in ConnStates /\ serve \in {"run", "stopping"}
  BY ConnIs DEF Endpoint, ConnOK
<1>4. s \in SseSessions /\ s \in Sessions /\ s \notin Conns /\ s # NoSession /\ k # NoKey
  BY SessionsAssumption, KeysAssumption DEF Types, Sessions
<1>5. PICK r \in ConnStates :
        /\ conn' = [conn EXCEPT ![c] = r] /\ conn'[c] = r
        /\ r.pc = "body" /\ r.todo = <<>> /\ r.keys = <<>>
        /\ r.session = s /\ r.key = k /\ r.get
  <2> DEFINE r == [conn[c] EXCEPT !.session = s, !.key = k]
  <2>1. conn' = [conn EXCEPT ![c] = r]
    BY <1>1 DEF Types
  <2>2. /\ r \in ConnStates /\ r.pc = "body" /\ r.todo = <<>> /\ r.keys = <<>>
        /\ r.session = s /\ r.key = k /\ r.get
    BY <1>3, <1>4 DEF ConnStates
  <2> HIDE DEF r
  <2>3. QED
    BY <2>1, <2>2 DEF Types
<1>6. \A e \in Conns \ {c} : conn'[e] = conn[e]
  BY <1>5 DEF Types
<1>7. \A l \in Keys : endpoints'[l] = IF l = k THEN s ELSE endpoints[l]
  BY <1>1 DEF Types
<1>8. Types'
  <2>1. orphans' \subseteq SseSessions
    BY <1>1 DEF Types, Replaced
  <2>2. QED
    BY <1>1, <1>2, <1>4, <1>5, <2>1 DEF Types
<1>9. ConnInv'
  <2>1. ConnOK(c)'
    <3>1. s \notin fresh' /\ Range(<<>>) = {} /\ DOMAIN <<>> = {}
      BY <1>1 DEF Range
    <3>2. QED
      BY <1>4, <1>5, <3>1 DEF ConnOK, Busy
  <2>2. ASSUME NEW e \in Conns, e # c PROVE ConnOK(e)'
    <3>1. /\ conn'[e] = conn[e] /\ ConnOK(e) /\ UNCHANGED <<via, home>>
          /\ \A t \in Sessions : t \notin fresh => t \notin fresh'
      BY <1>1, <1>2, <1>6, <2>2 DEF ConnInv
    <3>2. QED
      BY <3>1 DEF ConnOK
  <2>3. QED
    BY <2>1, <2>2 DEF ConnInv
<1>10. BooksInv'
  BY <1>2 DEF BooksInv, SameCaller
<1>11. KeyInv'
  <2>1. ASSUME NEW t \in SseSessions, NEW l \in Keys, Advertised(t, l)'
        PROVE  \/ t = s /\ l = k
               \/ Advertised(t, l)
    <3>1. CASE endpoints'[l] = t
      BY <1>7, <3>1 DEF Advertised
    <3>2. CASE \E e \in Conns : conn'[e].key = l /\ conn'[e].session = t
      BY <1>5, <1>6, <3>2 DEF Advertised
    <3>3. CASE \E e \in Conns : \E d \in Range(conn'[e].keys) :
                 via'[d].key = l /\ conn'[e].session = t
      <4>1. PICK e \in Conns : \E d \in Range(conn'[e].keys) : via'[d].key = l /\ conn'[e].session = t
        BY <3>3
      <4>2. e # c
        BY <1>5, <4>1, ConnIs
      <4>3. QED
        BY <1>2, <1>6, <4>1, <4>2 DEF Advertised
    <3>4. CASE \E d \in Calls : via'[d].key = l /\ home'[d] = t
      BY <1>2, <3>4 DEF Advertised
    <3>5. QED
      BY <2>1, <3>1, <3>2, <3>3, <3>4 DEF Advertised
  <2>2. \A l \in Keys : ~Advertised(s, l)
    BY <1>4 DEF KeyInv
  <2>3. QED
    BY <1>1, <2>1, <2>2 DEF KeyInv
<1>12. ServeInv'
  <2>1. \A e \in Conns : conn'[e].pc = conn[e].pc
    BY <1>3, <1>5, <1>6
  <2>2. ASSUME NEW t \in SseSessions
        PROVE  (\E l \in Keys : endpoints'[l] = t) \/ t \in orphans' \/ pending'[t] \subseteq late'
    <3>1. CASE endpoints[k] = t
      <4>1. t \in orphans'
        BY <1>1, <3>1, SessionsAssumption DEF Replaced, Sessions
      <4>2. QED
        BY <4>1
    <3>2. CASE \E l \in Keys : l # k /\ endpoints[l] = t
      BY <1>7, <3>2
    <3>3. CASE t \in orphans \/ pending[t] \subseteq late
      BY <1>1, <1>2, <3>3
    <3>4. QED
      BY <3>1, <3>2, <3>3 DEF ServeInv
  <2>3. QED
    BY <1>2, <1>3, <2>1, <2>2 DEF ServeInv
<1>13. QED
  BY <1>8, <1>9, <1>10, <1>11, <1>12

\* The drain writes off what waits in the sessions that are still registered.
LEMMA DrainCloses ==
  ASSUME HttpInv, DrainAll
  PROVE  Closes(UNION {pending[s] : s \in TakeAll}, "timeout")
<1> USE DEF HttpInv
<1> DEFINE S == UNION {pending[s] : s \in TakeAll}
<1>1. TakeAll \subseteq Sessions
  BY DEF TakeAll, Types, Sessions
<1>2. S \subseteq Waiting
  BY <1>1 DEF Waiting
<1>3. pending' = [s \in Sessions |-> IF s \in TakeAll THEN {} ELSE pending[s]] /\ TimeOut(S)
  BY DEF DrainAll
<1>4. ASSUME NEW s \in Sessions PROVE pending[s] \ S = IF s \in TakeAll THEN {} ELSE pending[s]
  <2>1. CASE s \in TakeAll
    BY <2>1
  <2>2. CASE s \notin TakeAll
    <3>1. \A t \in TakeAll : \A x \in pending[t] : x \notin pending[s]
      <4>1. ASSUME NEW t \in TakeAll, NEW x \in pending[t] PROVE x \notin pending[s]
        <5>1. t \in Sessions /\ t # s
          BY <1>1, <2>2
        <5>2. home[x] = t
          BY <5>1, OneHome
        <5>3. QED
          BY <5>1, <5>2, OneHome
      <4>2. QED
        BY <4>1
    <3>2. QED
      BY <2>2, <3>1
  <2>3. QED
    BY <2>1, <2>2
<1> HIDE DEF S
<1>5. pending' = [s \in Sessions |-> pending[s] \ S]
  BY <1>3, <1>4
<1>6. QED
  BY <1>2, <1>3, <1>5, TimedOut DEF S

LEMMA DrainKeeps ==
  ASSUME HttpInv, DrainAll
  PROVE  HttpInv'
<1> USE DEF HttpInv
<1> DEFINE S == UNION {pending[s] : s \in TakeAll}
<1>1. Closes(S, "timeout") /\ S \subseteq Waiting
  BY DrainCloses DEF Closes
<1>2. /\ UNCHANGED <<conn, fresh, via, home, received, seen, orphans, late>>
      /\ serve = "stopping" /\ serve' = "drained" /\ ConnectionsGone
      /\ open' = {} /\ endpoints' = [k \in Keys |-> NoSession]
      /\ pending' = [s \in Sessions |-> IF s \in TakeAll THEN {} ELSE pending[s]]
  BY DEF DrainAll, history
<1>3. BooksInv'
  BY <1>1, <1>2, ClosesKeepsBooks
<1>4. Types'
  <2>1. pending' \in [Sessions -> SUBSET Calls] /\ rows' \in [Calls -> Seq(Rows)]
    BY <1>1 DEF Closes, Types
  <2>2. QED
    BY <1>2, <2>1 DEF Types
<1>5. ConnInv'
  BY <1>2 DEF ConnInv, ConnOK
<1>6. KeyInv'
  <2>1. ASSUME NEW t \in SseSessions, NEW k \in Keys, Advertised(t, k)' PROVE Advertised(t, k)
    BY <1>2, <2>1, SessionsAssumption DEF Advertised, Sessions
  <2>2. QED
    BY <1>2, <2>1 DEF KeyInv
<1>7. ServeInv'
  <2>1. ASSUME NEW c \in Conns PROVE pending'[c] = {}
    <3>1. CASE c \in open
      BY <1>2, <3>1 DEF TakeAll, Sessions
    <3>2. CASE c \notin open
      BY <1>2, <3>2 DEF ServeInv, Sessions
    <3>3. QED
      BY <3>1, <3>2
  <2>2. ASSUME NEW t \in SseSessions
        PROVE  t \in orphans' \/ pending'[t] \subseteq late'
    <3>1. CASE \E k \in Keys : endpoints[k] = t
      <4>1. t \in TakeAll
        BY <3>1, SessionsAssumption DEF TakeAll, Sessions
      <4>2. QED
        BY <1>2, <4>1 DEF Sessions
    <3>2. CASE ~\E k \in Keys : endpoints[k] = t
      BY <1>2, <3>2 DEF ServeInv, Sessions
    <3>3. QED
      BY <3>1, <3>2
  <2>3. ConnectionsGone'
    BY <1>2 DEF ConnectionsGone
  <2>4. QED
    BY <1>2, <2>1, <2>2, <2>3 DEF ServeInv
<1>8. QED
  BY <1>3, <1>4, <1>5, <1>6, <1>7

LEMMA SpecInit == Init => HttpInv
<1> SUFFICES ASSUME Init PROVE HttpInv
  OBVIOUS
<1> USE DEF Init
<1> DEFINE r == [Idle EXCEPT !.pc = "new"]
<1>1. r \in ConnStates /\ r.keys = <<>> /\ r.todo = <<>> /\ r.key = NoKey /\ r.session = NoSession
      /\ ~r.get /\ r.pc = "new"
  BY IdleIs DEF ConnStates, Places
<1> HIDE DEF r
<1>2. \A c \in Conns : conn[c] = r
  BY DEF r
<1>3. Types
  <2>1. conn \in [Conns -> ConnStates]
    BY <1>1 DEF r
  <2>2. <<>> \in Seq(Rows)
    OBVIOUS
  <2>3. QED
    BY <2>1, <2>2 DEF Types, Posts
<1>4. ConnInv
  BY <1>1, <1>2, SessionsAssumption DEF ConnInv, ConnOK, Busy, Range, Sessions
<1>5. BooksInv
  BY SessionsAssumption DEF BooksInv
<1>6. KeyInv
  BY <1>1, <1>2, SessionsAssumption, KeysAssumption DEF KeyInv, Advertised, Sessions, Range
<1>7. ServeInv
  BY <1>1, <1>2 DEF ServeInv, Sessions
<1>8. QED
  BY <1>3, <1>4, <1>5, <1>6, <1>7 DEF HttpInv

\* Nothing that the invariant speaks of changes, but that serve goes on.
LEMMA OthersKeep ==
  ASSUME HttpInv, Stop \/ LogEnd \/ UNCHANGED vars
  PROVE  HttpInv'
<1>1. /\ UNCHANGED <<conn, pending, open, endpoints, fresh, via, home, received, seen, orphans,
                    late, rows, received, seen>>
      /\ \/ serve' = serve
         \/ serve = "run" /\ serve' = "stopping"
         \/ serve = "drained" /\ serve' = "ended"
  BY DEF Stop, LogEnd, vars, registry, history
<1>2. Types'
  BY <1>1 DEF HttpInv, Types
<1>3. ConnInv'
  BY <1>1 DEF HttpInv, ConnInv, ConnOK
<1>4. BooksInv'
  BY <1>1 DEF HttpInv, BooksInv, SameCaller
<1>5. KeyInv'
  BY <1>1 DEF HttpInv, KeyInv, Advertised
<1>6. ServeInv'
  BY <1>1 DEF HttpInv, ServeInv, ConnectionsGone
<1>7. QED
  BY <1>2, <1>3, <1>4, <1>5, <1>6 DEF HttpInv

LEMMA NextKeeps == HttpInv /\ [Next]_vars => HttpInv'
<1> SUFFICES ASSUME HttpInv, [Next]_vars PROVE HttpInv'
  OBVIOUS
<1>1. ASSUME NEW c \in Conns, ConnStep(c) PROVE HttpInv'
  <2>1. CASE Accept(c) \/ Get(c) \/ UpstreamFails(c)
    BY <2>1, RecordsMove, MovesKeeps
  <2>2. CASE LookUp(c)
    BY <2>2, LookUpKeeps
  <2>3. CASE Register(c)
    BY <2>3, RegisterKeeps
  <2>4. CASE Send(c)
    BY <2>4, SendMoves, MovesKeeps
  <2>5. CASE ResponseHead(c)
    BY <2>5, HeadMoves, MovesKeeps
  <2>6. CASE Event(c)
    BY <2>6, EventMoves, MovesKeeps
  <2>7. CASE Endpoint(c)
    BY <2>7, EndpointKeeps
  <2>8. CASE BodyEnds(c) \/ Disconnect(c) \/ Abort(c)
    BY <2>8, EndsMove, MovesKeeps
  <2>9. CASE Close(c)
    BY <2>9, CloseMoves, MovesKeeps
  <2>10. QED
    BY <1>1, <2>1, <2>2, <2>3, <2>4, <2>5, <2>6, <2>7, <2>8, <2>9 DEF ConnStep
<1>2. CASE DrainAll
  BY <1>2, DrainKeeps
<1>3. CASE Stop \/ LogEnd \/ UNCHANGED vars
  BY <1>3, OthersKeep
<1>4. QED
  BY <1>1, <1>2, <1>3 DEF Next

\* The invariant that the theorems below rest on: where every connection stands,
\* whom a call waits with until it has its one row, that a session is made for one
\* endpoint, and which sessions the drain reaches.
THEOREM BooksAreKept == Spec => []HttpInv
  BY SpecInit, NextKeeps, PTL DEF Spec

\* The state has the types that the code's structures give it, and no session
\* tracks two calls under one id (Session.pending).
THEOREM TypesAreKept == Spec => []TypeOK
<1>1. HttpInv => TypeOK
  <2> SUFFICES ASSUME HttpInv PROVE TypeOK
    OBVIOUS
  <2>1. \A c \in Conns : /\ conn[c].pc \in Places
                         /\ conn[c].session \in Sessions \cup {NoSession}
                         /\ conn[c].key \in Keys \cup {NoKey}
    BY DEF HttpInv, Types, ConnStates
  <2>2. \A s \in Sessions : \A x \in pending[s] : home[x] = s
    BY OneHome
  <2>3. QED
    BY <2>1, <2>2 DEF HttpInv, Types, BooksInv, TypeOK, Places, Rows
<1>2. QED
  BY <1>1, BooksAreKept, PTL

\* No call gets two rows; and once serve has ended, one that went upstream
\* without getting any had its session replaced under its key, or came when no key
\* led to that any more (take_all, bind_endpoint, unbind_endpoint_if).
THEOREM OnlyOrphansGoWithoutRow == Spec => []OnlyOrphansAreLost
<1>1. HttpInv => OnlyOrphansAreLost
  <2> SUFFICES ASSUME HttpInv PROVE OnlyOrphansAreLost
    OBVIOUS
  <2> USE DEF HttpInv
  <2>1. ASSUME serve = "ended", NEW c \in received, rows[c] = <<>>
        PROVE  home[c] \in orphans \/ c \in late
    <3>1. c \in Calls /\ home[c] # NoSession /\ home[c] \in Sessions
      BY <2>1 DEF Types, BooksInv
    <3>2. c \in pending[home[c]]
      BY <2>1, <3>1 DEF BooksInv
    <3>3. home[c] \in SseSessions
      BY <2>1, <3>1, <3>2 DEF ServeInv, Sessions
    <3>4. ~\E k \in Keys : endpoints[k] = home[c]
      BY <2>1, <3>1 DEF ServeInv
    <3>5. QED
      BY <3>2, <3>3, <3>4 DEF ServeInv
  <2>2. QED
    BY <2>1 DEF OnlyOrphansAreLost, BooksInv
<1>2. QED
  BY <1>1, BooksAreKept, PTL

\* Only an answer to a call of the same connection or endpoint closes a call,
\* whatever ids they share, and a call whose answer came while it waited is not
\* written off (SessionRegistry::session_for_endpoint, Session::resolve).
THEOREM AnswersCloseTheirOwn == Spec => []AnswersAreAttributed
<1>1. HttpInv => AnswersAreAttributed
  <2> SUFFICES ASSUME HttpInv PROVE AnswersAreAttributed
    OBVIOUS
  <2> USE DEF HttpInv
  <2>1. ASSUME NEW c \in seen PROVE Row("timeout", c) \notin Range(rows[c])
    <3>1. /\ c \in Calls /\ rows[c] \in Seq(Rows) /\ Len(rows[c]) <= 1
          /\ rows[c][1].outcome = "answer"
      BY DEF Types, BooksInv
    <3>2. \A i \in DOMAIN rows[c] : i = 1
      BY <3>1
    <3>3. QED
      BY <3>1, <3>2 DEF Range, Row
  <2>2. QED
    BY <2>1 DEF AnswersAreAttributed, BooksInv
<1>2. QED
  BY <1>1, BooksAreKept, PTL

-----------------------------------------------------------------------------
(* The ledger that the connections' own sessions implement. *)

Own == UNION {pending[s] : s \in Conns}
Record == [c \in Calls |-> IF c \in Modern THEN [i \in DOMAIN rows[c] |-> rows[c][i].outcome]
                           ELSE <<>>]

LEMMA OwnIs ==
  ASSUME HttpInv, NEW d
  PROVE  d \in Own <=> d \in Waiting /\ d \in Modern
<1>1. ASSUME d \in Own PROVE d \in Waiting /\ d \in Modern
  <2>1. PICK s \in Conns : d \in pending[s]
    BY <1>1 DEF Own
  <2>2. s \in Sessions
    BY DEF Sessions
  <2>3. QED
    BY <2>1, <2>2, OneHome DEF Waiting, Modern
<1>2. ASSUME d \in Waiting, d \in Modern PROVE d \in Own
  <2>1. PICK s \in Sessions : d \in pending[s]
    BY <1>2 DEF Waiting
  <2>2. home[d] = s
    BY <2>1, OneHome
  <2>3. QED
    BY <1>2, <2>1, <2>2 DEF Own, Modern
<1>3. QED
  BY <1>1, <1>2

LEMMA NoRecord ==
  ASSUME NEW c \in Calls, rows[c] = <<>>
  PROVE  Record[c] = <<>>
<1>1. [i \in DOMAIN <<>> |-> rows[c][i].outcome] = <<>>
  OBVIOUS
<1>2. QED
  BY <1>1 DEF Record

LEMMA OneRecord ==
  ASSUME NEW c \in Calls, NEW o, NEW b, rows'[c] = <<Row(o, b)>>, home'[c] \in Conns
  PROVE  Record'[c] = <<o>>
<1>1. Record'[c] = [i \in DOMAIN <<Row(o, b)>> |-> <<Row(o, b)>>[i].outcome]
  BY DEF Record, Modern
<1>2. DOMAIN <<Row(o, b)>> = 1..1 /\ <<Row(o, b)>>[1].outcome = o
  BY DEF Row
<1>3. [i \in 1..1 |-> <<Row(o, b)>>[i].outcome] = <<o>>
  BY <1>2
<1>4. QED
  BY <1>1, <1>2, <1>3

\* Calls that are closed are settled, as far as they are a connection's own.
LEMMA ClosesIsLedgerStep ==
  ASSUME HttpInv, NEW S, NEW o, Closes(S, o), home' = home,
         serve' = "ended" <=> serve = "ended"
  PROVE  Ledger!Next \/ UNCHANGED Ledger!vars
<1>0. PICK T : T = S \cap Modern
  OBVIOUS
<1>1. o \in Ledger!Outcomes /\ S \subseteq Waiting
  BY DEF Closes, Ledger!Outcomes
<1>2. T \subseteq Own
  BY <1>0, <1>1, OwnIs
<1>3. Own' = Own \ T
  <2>1. ASSUME NEW s \in Conns PROVE pending'[s] = pending[s] \ T
    <3>1. s \in Sessions
      BY DEF Sessions
    <3>2. pending'[s] = pending[s] \ S
      BY <3>1 DEF Closes
    <3>3. \A d \in pending[s] : d \in Modern
      BY <3>1, OneHome DEF Modern
    <3>4. QED
      BY <1>0, <3>2, <3>3
  <2>2. QED
    BY <2>1 DEF Own
<1>4. ASSUME NEW d \in Calls
      PROVE  Record'[d] = IF d \in T THEN Append(Record[d], o) ELSE Record[d]
  <2>1. CASE d \in T
    <3>1. PICK b \in Calls : rows'[d] = <<Row(o, b)>>
      BY <1>0, <2>1 DEF Closes
    <3>2. Record'[d] = <<o>>
      BY <1>0, <2>1, <3>1, OneRecord DEF Modern
    <3>3. rows[d] = <<>>
      BY <1>0, <1>1, <2>1, OneHome DEF Waiting
    <3>4. Record[d] = <<>> /\ Append(<<>>, o) = <<o>>
      BY <3>3, NoRecord
    <3>5. QED
      BY <2>1, <3>2, <3>4
  <2>2. CASE d \notin S
    BY <1>0, <2>2 DEF Closes, Record, Modern
  <2>3. CASE d \notin Modern
    BY <1>0, <2>3 DEF Record, Modern
  <2>4. QED
    BY <1>0, <2>1, <2>2, <2>3
<1>5. Record' = [d \in Calls |-> Record'[d]] /\ Record = [d \in Calls |-> Record[d]]
  BY DEF Record
<1>6. Record' = [d \in Calls |-> IF d \in T THEN Append(Record[d], o) ELSE Record[d]]
  BY <1>4, <1>5
<1>7. CASE T = {}
  <2>1. Record' = Record
    BY <1>4, <1>5, <1>7
  <2>2. Own' = Own
    BY <1>3, <1>7
  <2>3. QED
    BY <2>1, <2>2 DEF Ledger!vars, Own, Record
<1>8. CASE T # {}
  <2>1. Ledger!Settle(T, o)
    BY <1>2, <1>3, <1>6, <1>8 DEF Ledger!Settle, Own, Record
  <2>2. T \in SUBSET UNION {pending[s] : s \in Conns}
    BY <1>2 DEF Own
  <2>3. \E settled \in SUBSET UNION {pending[s] : s \in Conns}, outcome \in Ledger!Outcomes :
          Ledger!Settle(settled, outcome)
    BY <1>1, <2>1, <2>2
  <2>4. QED
    BY <2>3 DEF Ledger!Next
<1>9. QED
  BY <1>7, <1>8

LEMMA RegisterIsLedgerStep ==
  ASSUME HttpInv, NEW c \in Conns, Register(c)
  PROVE  Ledger!Next \/ UNCHANGED Ledger!vars
<1> USE DEF HttpInv
<1>1. PICK d \in Calls, s \in Sessions : Registers(c, d, s, Displaced(s, d))
  BY Registered
<1>0. PICK stale : stale = Displaced(s, d)
  OBVIOUS
<1>2. /\ home[d] = NoSession /\ rows[d] = <<>>
      /\ \A t \in Sessions : d \notin pending[t]
      /\ \A x \in stale : x \in pending[s] /\ rows'[x] = <<Row("timeout", x)>>
      /\ serve' = serve /\ serve # "ended"
  BY <1>0, <1>1 DEF Registers
<1>3. /\ \A x \in Calls : home'[x] = IF x = d THEN s ELSE home[x]
      /\ \A x \in Calls \ stale : rows'[x] = rows[x]
      /\ \A t \in Sessions :
           pending'[t] = IF t = s THEN (pending[t] \ stale) \cup {d} ELSE pending[t]
  BY <1>0, <1>1 DEF Registers, Types
<1>4. \A x \in stale : x \in Calls /\ home[x] = s /\ rows[x] = <<>> /\ x # d
  BY <1>2, OneHome
<1>5. Record[d] = <<>> /\ d \notin stale
  BY <1>2, NoRecord
<1>6. Record' = [x \in Calls |-> Record'[x]] /\ Record = [x \in Calls |-> Record[x]]
  BY DEF Record
<1>7. CASE s \in Conns
  <2>1. ASSUME NEW x \in Calls
        PROVE  Record'[x] = IF x \in stale THEN Append(Record[x], "timeout") ELSE Record[x]
    <3>1. CASE x \in stale
      <4>1. Record'[x] = <<"timeout">>
        BY <1>2, <1>3, <1>4, <1>7, <3>1, OneRecord
      <4>2. Record[x] = <<>> /\ Append(<<>>, "timeout") = <<"timeout">>
        BY <1>4, <3>1, NoRecord
      <4>3. QED
        BY <3>1, <4>1, <4>2
    <3>2. CASE x = d
      <4>1. rows'[d] = <<>>
        BY <1>2, <1>3, <1>5
      <4>2. Record'[d] = <<>>
        BY <4>1, NoRecord DEF Record
      <4>3. QED
        BY <1>5, <3>2, <4>2
    <3>3. CASE x \notin stale /\ x # d
      BY <1>3, <3>3 DEF Record, Modern
    <3>4. QED
      BY <3>1, <3>2, <3>3
  <2>2. Record' = [x \in Calls |-> IF x \in stale THEN Append(Record[x], "timeout") ELSE Record[x]]
    BY <1>6, <2>1
  <2>3. stale \subseteq Own /\ d \notin Own
    BY <1>2, <1>7 DEF Own, Sessions
  <2>4. Own' = (Own \ stale) \cup {d}
    <3>1. \A t \in Conns : /\ t \in Sessions
                           /\ pending'[t] = IF t = s THEN (pending[t] \ stale) \cup {d}
                                            ELSE pending[t] \ stale
      <4>1. ASSUME NEW t \in Conns, t # s PROVE pending[t] \ stale = pending[t]
        <5>1. t \in Sessions
          BY DEF Sessions
        <5>2. \A x \in pending[t] : home[x] = t
          BY <5>1, OneHome
        <5>3. QED
          BY <1>4, <4>1, <5>2
      <4>2. QED
        BY <1>3, <4>1 DEF Sessions
    <3>2. ASSUME NEW x PROVE x \in Own' <=> x \in (Own \ stale) \cup {d}
      <4>1. x \in Own' <=> \E t \in Conns : x \in pending'[t]
        BY DEF Own
      <4>2. x \in Own <=> \E t \in Conns : x \in pending[t]
        BY DEF Own
      <4>3. QED
        BY <1>7, <3>1, <4>1, <4>2
    <3>3. QED
      BY <3>2
  <2>5. Ledger!Register(d, stale)
    BY <1>2, <1>5, <2>2, <2>3, <2>4 DEF Ledger!Register, Own, Record
  <2>6. stale \in SUBSET UNION {pending[t] : t \in Conns}
    BY <2>3 DEF Own
  <2>7. \E x \in Calls, old \in SUBSET UNION {pending[t] : t \in Conns} : Ledger!Register(x, old)
    BY <2>5, <2>6
  <2>8. QED
    BY <2>7 DEF Ledger!Next
<1>8. CASE s \notin Conns
  <2>1. ASSUME NEW x \in Calls PROVE Record'[x] = Record[x]
    <3>1. CASE x \in stale \/ x = d
      BY <1>2, <1>3, <1>4, <1>5, <1>8, <3>1, SessionsAssumption DEF Record, Modern, Sessions
    <3>2. CASE x \notin stale /\ x # d
      BY <1>3, <3>2 DEF Record, Modern
    <3>3. QED
      BY <3>1, <3>2
  <2>2. Record' = Record
    BY <1>6, <2>1
  <2>3. Own' = Own
    <3>1. \A t \in Conns : pending'[t] = pending[t]
      BY <1>3, <1>8 DEF Sessions
    <3>2. QED
      BY <3>1 DEF Own
  <2>4. QED
    BY <1>2, <2>2, <2>3 DEF Ledger!vars, Own, Record
<1>9. QED
  BY <1>7, <1>8

LEMMA StepIsLedgerStep == HttpInv /\ [Next]_vars => [Ledger!Next]_Ledger!vars
<1> SUFFICES ASSUME HttpInv, [Next]_vars
             PROVE  Ledger!Next \/ UNCHANGED Ledger!vars
  OBVIOUS
<1>1. ASSUME UNCHANGED <<pending, home, rows>>, serve' = "ended" <=> serve = "ended"
      PROVE  UNCHANGED Ledger!vars
  BY <1>1 DEF Ledger!vars, Modern
<1>2. ASSUME NEW c \in Conns, Moves(c)
      PROVE  Ledger!Next \/ UNCHANGED Ledger!vars
  BY <1>2, ClosesIsLedgerStep DEF Moves
<1>3. ASSUME NEW c \in Conns, ConnStep(c)
      PROVE  Ledger!Next \/ UNCHANGED Ledger!vars
  <2>1. CASE LookUp(c) \/ Endpoint(c)
    BY <1>1, <2>1 DEF LookUp, Endpoint, registry
  <2>2. CASE Register(c)
    BY <2>2, RegisterIsLedgerStep
  <2>3. CASE ~(LookUp(c) \/ Endpoint(c) \/ Register(c))
    BY <1>2, <1>3, <2>3, RecordsMove, SendMoves, HeadMoves, EventMoves, EndsMove, CloseMoves
       DEF ConnStep
  <2>4. QED
    BY <2>1, <2>2, <2>3
<1>4. CASE DrainAll
  <2>1. home' = home /\ serve = "stopping" /\ serve' = "drained"
    BY <1>4 DEF DrainAll, history
  <2>2. QED
    BY <1>4, <2>1, DrainCloses, ClosesIsLedgerStep
<1>5. CASE LogEnd
  <2>1. UNCHANGED <<pending, home, rows>> /\ serve = "drained" /\ serve' = "ended"
    BY <1>5 DEF LogEnd, registry, history
  <2>2. Own = {}
    BY <2>1 DEF HttpInv, ServeInv, Own
  <2>3. Ledger!Close
    BY <2>1, <2>2 DEF Ledger!Close, Own, Modern
  <2>4. QED
    BY <2>3 DEF Ledger!Next
<1>6. CASE Stop \/ UNCHANGED vars
  BY <1>1, <1>6 DEF Stop, vars, registry, history
<1>7. QED
  BY <1>3, <1>4, <1>5, <1>6 DEF Next

\* Every behaviour of serve is one of the ledger, for the calls of the connections'
\* own sessions: each that is registered gets exactly one row, and nothing is
\* tracked once serve has ended.
THEOREM ConnectionsImplementLedger == Spec => IsCallLedger
<1>1. Init => Ledger!Init
  <2> SUFFICES ASSUME Init PROVE Ledger!Init
    OBVIOUS
  <2>1. Record = [c \in Calls |-> <<>>]
    BY NoRecord DEF Init, Record
  <2>2. Own = {}
    BY DEF Init, Own, Sessions
  <2>3. QED
    BY <2>1, <2>2 DEF Init, Ledger!Init, Own, Record
<1>2. QED
  BY <1>1, StepIsLedgerStep, BooksAreKept, PTL DEF Spec, IsCallLedger, Ledger!Spec
=============================================================================
