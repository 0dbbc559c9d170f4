----------------------------- MODULE HttpSessions ------------------------------
(***************************************************************************)
(* One listener of serve: its connections, the session registry, the tees  *)
(* on the response bodies, and serve's shutdown.  Every connection is a    *)
(* task of its own on a multithreaded runtime, with a session of its own.  *)
(* A legacy event stream gets another session when the server advertises   *)
(* its POST endpoint on it: the POSTs come on other connections and find   *)
(* that session by the endpoint's key.                                     *)
(***************************************************************************)
EXTENDS Naturals, FiniteSets, SequencesExt

CONSTANTS Calls,        \* the tool calls
          IdOf,         \* their JSON-RPC ids
          Bodies,       \* the sequences of calls that a POST may carry
          Conns,        \* client connections; each also names its own session
          SseSessions,  \* the sessions made for endpoint events
          Keys,         \* endpoint keys the server may advertise
          MaxStreams,   \* bound: GET requests
          NoKey, NoSession

Sessions == Conns \cup SseSessions

ASSUME IdOfAssumption == DOMAIN IdOf = Calls
ASSUME BodiesAssumption ==
  /\ Bodies \subseteq Seq(Calls) \ {<<>>}
  /\ \A line \in Bodies : \A i, j \in DOMAIN line : line[i] = line[j] => i = j
ASSUME SessionsAssumption == Conns \cap SseSessions = {} /\ NoSession \notin Sessions
ASSUME KeysAssumption == NoKey \notin Keys
ASSUME MaxStreamsAssumption == MaxStreams \in Nat

VARIABLES conn,       \* for every connection its place and its request
          pending,    \* for every session the calls that wait
          open,       \* SessionRegistry.open: the connections' own sessions
          endpoints,  \* SessionRegistry.endpoints
          fresh,      \* the sessions not yet made for an endpoint event
          streams,    \* GET requests so far
          via,        \* for every call the connection and path it was posted on
          home,       \* the session a call was registered with
          received,   \* the calls the upstream has got
          seen,       \* the open calls whose answer an event stream of their
                      \* session carried
          orphans,    \* sessions replaced under their key
          late,       \* calls registered with a session no key leads to any more
          rows,       \* for every call its rows
          serve       \* "run", "stopping", "drained", "ended"

registry == <<pending, open, endpoints, fresh>>
history == <<via, home, received, seen, orphans, late>>
vars == <<conn, registry, streams, history, rows, serve>>

Idle == [pc |-> "idle", todo |-> <<>>, keys |-> <<>>, session |-> NoSession,
         get |-> FALSE, answers |-> FALSE, mode |-> "none", key |-> NoKey]

Row(outcome, by) == [outcome |-> outcome, by |-> by]
AddRows(S, outcome, by(_)) ==
  rows' = [c \in Calls |-> IF c \in S THEN Append(rows[c], Row(outcome, by(c)))
                           ELSE rows[c]]
TimeOut(S) == AddRows(S, "timeout", LAMBDA c : c)

Init ==
  /\ conn = [c \in Conns |-> [Idle EXCEPT !.pc = "new"]]
  /\ pending = [s \in Sessions |-> {}]
  /\ open = {} /\ endpoints = [k \in Keys |-> NoSession]
  /\ fresh = SseSessions /\ streams = 0
  /\ via = [c \in Calls |-> [conn |-> NoSession, key |-> NoKey]]
  /\ home = [c \in Calls |-> NoSession]
  /\ received = {} /\ seen = {} /\ orphans = {} /\ late = {}
  /\ rows = [c \in Calls |-> <<>>]
  /\ serve = "run"

-----------------------------------------------------------------------------
(* A request, from its look-up to the head of its response *)

Accept(c) ==
  /\ serve = "run" /\ conn[c].pc = "new"
  /\ conn' = [conn EXCEPT ![c] = Idle]
  /\ open' = open \cup {c}
  /\ UNCHANGED <<pending, endpoints, fresh, streams, history, rows, serve>>

\* session_for_endpoint, or else the connection's own session.
SessionFor(c, key) ==
  IF key # NoKey /\ endpoints[key] # NoSession THEN endpoints[key] ELSE c

\* A POST of tool calls has passed the checks and been read; proxy_once looks
\* its session up by the path.
LookUp(c) ==
  /\ conn[c].pc = "idle"
  /\ \E line \in Bodies, key \in Keys \cup {NoKey} :
       /\ \A d \in Range(line) : via[d].conn = NoSession
       /\ conn' = [conn EXCEPT ![c] = [Idle EXCEPT
                     !.pc = "register", !.todo = line, !.keys = line,
                     !.session = SessionFor(c, key)]]
       /\ via' = [d \in Calls |-> IF d \in Range(line) THEN [conn |-> c, key |-> key]
                                  ELSE via[d]]
  /\ UNCHANGED <<registry, streams, home, received, seen, orphans, late, rows,
                 serve>>

\* Calls are kept under their names.
NoneDisplaced(s, d) == {}

\* register_if_tool_call: the next call takes its place in the session, and
\* one that waited under its id is logged as a time-out.
Displaced(s, d) == {x \in pending[s] : IdOf[x] = IdOf[d]}

Register(c) ==
  /\ conn[c].pc = "register" /\ conn[c].todo # <<>>
  /\ LET d == Head(conn[c].todo)
         s == conn[c].session
         stale == Displaced(s, d)
     IN /\ pending' = [pending EXCEPT ![s] = (@ \ stale) \cup {d}]
        /\ home' = [home EXCEPT ![d] = s]
        /\ late' = IF s \in SseSessions \ Range(endpoints) THEN late \cup {d} ELSE late
        /\ TimeOut(stale)
  /\ conn' = [conn EXCEPT ![c].todo = Tail(@)]
  /\ UNCHANGED <<open, endpoints, fresh, streams, via, received, seen, orphans, serve>>

\* The request goes upstream.
Send(c) ==
  /\ conn[c].pc = "register" /\ conn[c].todo = <<>>
  /\ received' = received \cup Range(conn[c].keys)
  /\ conn' = [conn EXCEPT ![c].pc = "sent"]
  /\ UNCHANGED <<registry, streams, via, home, seen, orphans, late, rows,
                 serve>>

\* A GET that opens a stream: no call, the connection's own session, as its path is
\* not one that was advertised to post to.
Get(c) ==
  /\ conn[c].pc = "idle" /\ streams < MaxStreams
  /\ streams' = streams + 1
  /\ conn' = [conn EXCEPT ![c] = [Idle EXCEPT !.pc = "sent", !.session = c, !.get = TRUE]]
  /\ UNCHANGED <<registry, history, rows, serve>>

\* No head in time, or an error: the client gets 502, the calls go on waiting.
UpstreamFails(c) ==
  /\ conn[c].pc = "sent"
  /\ conn' = [conn EXCEPT ![c] = Idle]
  /\ UNCHANGED <<registry, streams, history, rows, serve>>

\* The head of the response: where no answer is expected, the body's tee gets
\* no call to fall back on.
AnswerExpected(c, accepted) == conn[c].session = c /\ ~accepted

ResponseHead(c) ==
  /\ conn[c].pc = "sent"
  /\ \E mode \in {"whole", "events"}, accepted \in BOOLEAN :
       conn' = [conn EXCEPT ![c].pc = "body", ![c].mode = mode,
                            ![c].answers = AnswerExpected(c, accepted)]
  /\ UNCHANGED <<registry, streams, history, rows, serve>>

-----------------------------------------------------------------------------
(* The tee on a response body *)

\* Where a faithful upstream may put the answer of a call: into the response
\* to its POST, on a stream that resumes that response, or on a stream that
\* advertises the endpoint it was posted to.
MayCarry(c, d) ==
  /\ d \in received
  /\ \/ d \in Range(conn[c].keys)
     \/ conn[c].get /\ conn[c].key = NoKey /\ via[d] = [conn |-> c, key |-> NoKey]
     \/ conn[c].key # NoKey /\ via[d].key = conn[c].key

\* One map for all sessions, with the id as its key.
ResolvedAnywhere(s, answers) ==
  {x \in UNION {pending[t] : t \in Sessions} : \E d \in answers : IdOf[d] = IdOf[x]}

\* The calls of the session that these answers close, by their ids.
Resolved(s, answers) == {x \in pending[s] : \E d \in answers : IdOf[d] = IdOf[x]}

\* Session::resolve takes the call out of the map.
Taken(s, S) == [pending EXCEPT ![s] = @ \ S]

\* One event with the answer of d, for the first time or replayed.
Event(c) ==
  /\ conn[c].pc = "body" /\ conn[c].mode = "events"
  /\ \E d \in {d \in Calls : MayCarry(c, d)} :
       LET s == conn[c].session
       IN /\ pending' = Taken(s, Resolved(s, {d}))
          /\ AddRows(Resolved(s, {d}), "answer", LAMBDA x : d)
          /\ seen' = IF home[d] = s /\ rows[d] = <<>> THEN seen \cup {d} ELSE seen
  /\ UNCHANGED <<conn, open, endpoints, fresh, streams, via, home, received, orphans,
                 late, serve>>

\* The session that is replaced when a stream advertises k.
Replaced(k) == {endpoints[k]} \ {NoSession}

\* The server advertises its endpoint, once on a stream that was opened for it,
\* but perhaps one that another stream has: the stream goes on with a fresh
\* session, which is bound to the key.
Endpoint(c) ==
  /\ conn[c].pc = "body" /\ conn[c].mode = "events"
  /\ conn[c].get /\ conn[c].key = NoKey
  /\ \E k \in Keys, s \in fresh :
       /\ fresh' = fresh \ {s}
       /\ conn' = [conn EXCEPT ![c].session = s, ![c].key = k]
       /\ endpoints' = [endpoints EXCEPT ![k] = s]
       /\ orphans' = orphans \cup Replaced(k)
  /\ UNCHANGED <<pending, open, streams, via, home, received, seen, late, rows,
                 serve>>

\* finish of an event stream: it takes its own binding with it, and writes
\* its session's calls off, but leaves a newer binding alone.
UnbindsOwn(c) == conn[c].key # NoKey /\ endpoints[conn[c].key] = conn[c].session

\* A stream's end releases the key and forgets the calls.
ReleaseKey(c) ==
  /\ IF UnbindsOwn(c) THEN endpoints' = [endpoints EXCEPT ![conn[c].key] = NoSession]
     ELSE UNCHANGED endpoints
  /\ UNCHANGED <<pending, rows>>

FinishEvents(c) ==
  LET s == conn[c].session
  IN IF UnbindsOwn(c)
       THEN /\ endpoints' = [endpoints EXCEPT ![conn[c].key] = NoSession]
            /\ pending' = [pending EXCEPT ![s] = {}]
            /\ TimeOut(pending[s])
       ELSE UNCHANGED <<endpoints, pending, rows>>

\* finish of a whole body: every answer in the captured copy closes its call;
\* if none does, the last call of the request is closed by the body as such.
FallBack(c) == {x \in pending[conn[c].session] :
                  /\ conn[c].answers /\ conn[c].keys # <<>>
                  /\ IdOf[x] = IdOf[Last(conn[c].keys)]}

FinishWhole(c) ==
  \E answers \in SUBSET {d \in Calls : MayCarry(c, d)} :
    LET s == conn[c].session
        byId == Resolved(s, answers)
        closed == IF byId # {} THEN byId ELSE FallBack(c)
    IN /\ pending' = Taken(s, closed)
       /\ AddRows(closed, "answer",
                  LAMBDA x : IF byId # {}
                             THEN CHOOSE d \in answers : IdOf[d] = IdOf[x]
                             ELSE x)
       /\ UNCHANGED endpoints

Finish(c) == \/ conn[c].mode = "events" /\ FinishEvents(c)
             \/ conn[c].mode = "whole" /\ FinishWhole(c)

\* The body ends, cleanly or with an error; the connection can be used again.
BodyEnds(c) ==
  /\ conn[c].pc = "body"
  /\ Finish(c)
  /\ conn' = [conn EXCEPT ![c] = Idle]
  /\ UNCHANGED <<open, fresh, streams, via, home, received, seen, orphans, late,
                 serve>>

-----------------------------------------------------------------------------
(* The end of a connection, and of serve *)

\* The connection's future goes: with it the request it was serving, whose
\* body's tee is dropped and finishes.
Drop(c, place) ==
  /\ IF conn[c].pc = "body" THEN Finish(c)
     ELSE UNCHANGED <<endpoints, pending, rows>>
  /\ conn' = [conn EXCEPT ![c] = [Idle EXCEPT !.pc = place]]

\* A registration has no await in it: nothing ends the task before it is done,
\* though other tasks run beside it.
Registering(c) == conn[c].pc = "register" /\ conn[c].todo # <<>>

\* The client goes away.
Disconnect(c) ==
  /\ conn[c].pc \notin {"new", "left", "gone", "aborted"} /\ ~Registering(c)
  /\ Drop(c, "left")
  /\ UNCHANGED <<open, fresh, streams, via, home, received, seen, orphans, late,
                 serve>>

\* Then its session is closed, and the calls it leaves are logged.
Close(c) ==
  /\ conn[c].pc = "left"
  /\ conn' = [conn EXCEPT ![c].pc = "gone"]
  /\ open' = open \ {c}
  /\ pending' = [pending EXCEPT ![c] = {}]
  /\ TimeOut(pending[c])
  /\ UNCHANGED <<endpoints, fresh, streams, history, serve>>

\* A signal: the accept loop accepts no more and aborts its connections.
Stop ==
  /\ serve = "run"
  /\ serve' = "stopping"
  /\ UNCHANGED <<conn, registry, streams, history, rows>>

\* JoinSet::shutdown: the task ends where it waits; its session stays open.  A
\* task that is closing its session does not wait any more.
Abort(c) ==
  /\ serve = "stopping"
  /\ conn[c].pc \notin {"new", "left", "gone", "aborted"} /\ ~Registering(c)
  /\ Drop(c, "aborted")
  /\ UNCHANGED <<open, fresh, streams, via, home, received, seen, orphans, late,
                 serve>>

\* The connections are aborted and not awaited.
ConnectionsIgnored == TRUE

\* serve waits for the accept loops, and they for their connections.
ConnectionsGone == \A c \in Conns : conn[c].pc \in {"new", "gone", "aborted"}

\* Every session that is still registered, of either map.
TakeAll == open \cup ({endpoints[k] : k \in Keys} \ {NoSession})

DrainAll ==
  /\ serve = "stopping" /\ ConnectionsGone
  /\ pending' = [s \in Sessions |-> IF s \in TakeAll THEN {} ELSE pending[s]]
  /\ TimeOut(UNION {pending[s] : s \in TakeAll})
  /\ open' = {} /\ endpoints' = [k \in Keys |-> NoSession]
  /\ serve' = "drained"
  /\ UNCHANGED <<conn, fresh, streams, history>>

\* session_end is logged, and the queue is waited for.
LogEnd ==
  /\ serve = "drained"
  /\ serve' = "ended"
  /\ UNCHANGED <<conn, registry, streams, history, rows>>

ConnStep(c) ==
  \/ Accept(c) \/ LookUp(c) \/ Register(c) \/ Send(c) \/ Get(c) \/ UpstreamFails(c)
  \/ ResponseHead(c) \/ Event(c) \/ Endpoint(c) \/ BodyEnds(c) \/ Disconnect(c)
  \/ Close(c) \/ Abort(c)

Next == (\E c \in Conns : ConnStep(c)) \/ Stop \/ DrainAll \/ LogEnd

Spec == Init /\ [][Next]_vars

-----------------------------------------------------------------------------
(* Properties. *)

TypeOK ==
  /\ \A c \in Conns :
       /\ conn[c].pc \in {"new", "idle", "register", "sent", "body", "left", "gone",
                          "aborted"}
       /\ conn[c].session \in Sessions \cup {NoSession}
       /\ conn[c].key \in Keys \cup {NoKey}
  /\ \A s \in Sessions : \A x, y \in pending[s] : IdOf[x] = IdOf[y] => x = y
  /\ \A s \in Sessions : \A x \in pending[s] : home[x] = s
  /\ open \subseteq Conns
  /\ endpoints \in [Keys -> SseSessions \cup {NoSession}]
  /\ rows \in [Calls -> Seq([outcome : {"answer", "timeout"}, by : Calls])]
  /\ serve \in {"run", "stopping", "drained", "ended"}

\* Every call that a connection's own session tracks gets exactly one row,
\* whatever the upstream, the client and the shutdown do (SessionRegistry::close,
\* take_all).
Modern == {c \in Calls : home[c] \in Conns}
Ledger == INSTANCE CallLedger WITH
            open <- UNION {pending[s] : s \in Conns},
            record <- [c \in Calls |->
                         IF c \in Modern THEN [i \in DOMAIN rows[c] |-> rows[c][i].outcome]
                         ELSE <<>>],
            closed <- serve = "ended"
IsCallLedger == Ledger!Spec

\* A call of an event stream's session also gets its one row, though answers
\* are replayed and streams end in any order, unless another session replaced
\* that one, or the call came when no key led to it any more (bind_endpoint,
\* unbind_endpoint_if).
OnlyOrphansAreLost ==
  /\ \A c \in Calls : Len(rows[c]) <= 1
  /\ serve = "ended" =>
       \A c \in received : rows[c] = <<>> => home[c] \in orphans \/ c \in late

\* An answer never closes a call of another connection or endpoint, though
\* ids are shared (SessionRegistry, "attributes one caller's response to
\* another caller's request"); and a call whose answer came on an event stream
\* of its session while it waited is not written off as a time-out.
SameCaller(c, d) == \/ home[c] = home[d]
                    \/ via[c].key = via[d].key /\ via[c].key # NoKey
AnswersAreAttributed ==
  /\ \A c \in Calls : \A i \in DOMAIN rows[c] : SameCaller(c, rows[c][i].by)
  /\ \A c \in seen : Row("timeout", c) \notin Range(rows[c])

\* No call that was registered with a live session and sent upstream is without
\* a row in the end (TeeBody::drop, "rather than the call disappearing").
NoCallDisappears ==
  serve = "ended" => \A c \in received \ late : rows[c] # <<>>
=============================================================================
