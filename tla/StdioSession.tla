----------------------------- MODULE StdioSession ------------------------------
(***************************************************************************)
(* One stdio session: the pump from the client to the target, the pump     *)
(* back, the heartbeat task, and run, which stops them all and writes the  *)
(* calls off that never completed.  The tasks run on a multithreaded       *)
(* runtime; an action is what a task does between two awaits, or, while it *)
(* holds the session's lock, one message of the line it holds it for.      *)
(*                                                                         *)
(* Whether a row that is handed to the queue reaches the database is the   *)
(* subject of AuditWriter; here the log is what the queue is given.        *)
(***************************************************************************)
EXTENDS Naturals, FiniteSets, SequencesExt

CONSTANTS Calls,           \* the tool calls the client may make
          IdOf,            \* their JSON-RPC ids, which a client may reuse
          ServerIds,       \* the ids of requests that the target may send
          MaxBeats,        \* bound: heartbeats
          NoCall

Ids == Range(IdOf)

ASSUME CallsAssumption == NoCall \notin Calls
ASSUME IdOfAssumption == DOMAIN IdOf = Calls
ASSUME MaxBeatsAssumption == MaxBeats \in Nat
ASSUME ServerIdsAssumption == ServerIds \subseteq Ids

VARIABLES accepting,   \* PendingState.accepting
          responding,  \* PendingState.accepting_responses
          pending,     \* PendingState.calls: at most one call of each id
          in,          \* pump_client_to_child: its place and its line
          out,         \* pump_child_to_client: its place and its messages
          inboundDb, outboundDb,  \* the pumps' slots still hold a sender
          beating,     \* the heartbeat task runs, with its own sender
          main,        \* run: where it is
          abandoned,   \* run: the calls it drained and has yet to log
          outTimedOut, \* run: outbound_timed_out
          writer,      \* "open"; "ended" with its queue written; "givenUp"
          gate,        \* drain_gate
          console,     \* "none"; "closing": Windows waits for the handler;
                       \* "killed" after it has returned
          received,    \* the calls that have reached the target
          answered,    \* the calls the target has answered
          forwarded,   \* the calls whose answer the client has been given
          rows,        \* for every call the rows handed to the queue
          beats,       \* the heartbeats handed to it
          ended        \* the session's end was handed to it

session == <<accepting, responding, pending>>
pumps == <<in, out, inboundDb, outboundDb>>
shutdown == <<main, abandoned, outTimedOut, writer, gate, console>>
world == <<received, answered, forwarded>>
log == <<rows, beats, ended>>
vars == <<session, pumps, beating, shutdown, world, log>>

Messages == [kind : {"response", "request"}, id : Ids, of : Calls \cup {NoCall}]
Lines == {<<c>> : c \in Calls} \cup {p \in Calls \X Calls : p[1] # p[2]}

Rows == [outcome : {"answer", "timeout"}, by : {"response", "request", "reuse", "drain"}]
Row(outcome, by) == [outcome |-> outcome, by |-> by]
AddRow(c, outcome, by) == rows' = [rows EXCEPT ![c] = Append(@, Row(outcome, by))]

Logged == {c \in Calls : rows[c] # <<>>}

\* begin_input is given up at the end of the line: until then nobody else
\* enters the session.
LockFree == in.pc # "register"

Init ==
  /\ accepting = TRUE /\ responding = TRUE /\ pending = {}
  /\ in = [pc |-> "recv", todo |-> <<>>, line |-> <<>>, aborted |-> FALSE]
  /\ out = [pc |-> "read", msgs |-> <<>>, aborted |-> FALSE]
  /\ inboundDb = TRUE /\ outboundDb = TRUE /\ beating = TRUE
  /\ main = "run" /\ abandoned = {} /\ outTimedOut = FALSE
  /\ writer = "open" /\ gate = FALSE /\ console = "none"
  /\ received = {} /\ answered = {} /\ forwarded = {}
  /\ rows = [c \in Calls |-> <<>>] /\ beats = 0 /\ ended = FALSE

-----------------------------------------------------------------------------
(* Client to target *)

Sent == Logged \cup pending \cup abandoned \cup received \cup Range(in.line)

EndInbound == in' = [in EXCEPT !.pc = "ended", !.todo = <<>>, !.line = <<>>]

\* Only the first message of a batch is parsed.
FirstOf(line) == <<Head(line)>>

\* The calls of a line that are tracked: each message of a batch is parsed.
TrackedOf(line) == line

\* A line arrives; the session takes it in, or has been closed to input.
BeginInput == accepting

Receive ==
  /\ in.pc = "recv"
  /\ \E line \in Lines :
       /\ Range(line) \cap Sent = {}
       /\ IF BeginInput
            THEN in' = [in EXCEPT !.pc = "register", !.todo = TrackedOf(line), !.line = line]
            ELSE EndInbound
  /\ UNCHANGED <<session, out, inboundDb, outboundDb, beating, shutdown, world, log>>

\* End of input, a read that fails, a line over the limit, a stop of run.
InputEnds ==
  /\ in.pc = "recv"
  /\ EndInbound
  /\ UNCHANGED <<session, out, inboundDb, outboundDb, beating, shutdown, world, log>>

\* Calls are kept under their names.
NoneDisplaced(c) == {}

\* The next call of the line takes its place under its id; the call it
\* displaces is logged as a time-out, through the pump's own slot.
Displaced(c) == {d \in pending : IdOf[d] = IdOf[c]}

RegisterNext ==
  /\ in.pc = "register" /\ in.todo # <<>>
  /\ LET c == Head(in.todo)
         stale == Displaced(c)
     IN /\ pending' = (pending \ stale) \cup {c}
        /\ IF stale # {} /\ inboundDb
             THEN \E d \in stale : AddRow(d, "timeout", "reuse")
             ELSE UNCHANGED rows
  /\ in' = [in EXCEPT !.todo = Tail(@)]
  /\ UNCHANGED <<accepting, responding, out, inboundDb, outboundDb, beating,
                 shutdown, world, beats, ended>>

\* The lock is released and the pump goes on to its write.
EndSection ==
  /\ in.pc = "register" /\ in.todo = <<>>
  /\ in' = [in EXCEPT !.pc = "write"]
  /\ UNCHANGED <<session, out, inboundDb, outboundDb, beating, shutdown, world, log>>

\* write_all and flush, which may wait for as long as the target likes.
Write ==
  /\ in.pc = "write"
  /\ received' = received \cup Range(in.line)
  /\ in' = [in EXCEPT !.pc = "recv", !.line = <<>>]
  /\ UNCHANGED <<session, out, inboundDb, outboundDb, beating, shutdown, answered,
                 forwarded, log>>

\* The write or the flush fails, or the task is cancelled in it: the target
\* may have got the line or not.
WriteFails ==
  /\ in.pc = "write"
  /\ \E got \in {{}, Range(in.line)} : received' = received \cup got
  /\ EndInbound
  /\ UNCHANGED <<session, out, inboundDb, outboundDb, beating, shutdown, answered,
                 forwarded, log>>

-----------------------------------------------------------------------------
(* Target to client *)

Response(c) == [kind |-> "response", id |-> IdOf[c], of |-> c]
Requests == {[kind |-> "request", id |-> i, of |-> NoCall] : i \in ServerIds}

\* A line of the target's: an answer, a batch of two, a request of its own.
\* What it has written before it exits can still be read.
OutputLines ==
  LET answers == {Response(c) : c \in received \ answered}
  IN {<<m>> : m \in answers \cup Requests}
       \cup {p \in answers \X answers : p[1] # p[2]}

Answers(msgs) == {m.of : m \in Range(msgs)} \ {NoCall}

EndOutbound == out' = [out EXCEPT !.pc = "ended", !.msgs = <<>>]

ReadOutput ==
  /\ out.pc = "read"
  /\ \E msgs \in OutputLines :
       /\ out' = [out EXCEPT !.pc = "send", !.msgs = msgs]
       /\ answered' = answered \cup Answers(msgs)
  /\ UNCHANGED <<session, in, inboundDb, outboundDb, beating, shutdown, received,
                 forwarded, log>>

\* The end of the target's output, a read that fails, a line over the limit; a write to
\* the client that fails; an abort, at either await.
OutputEnds ==
  /\ out.pc \in {"read", "send"}
  /\ EndOutbound
  /\ UNCHANGED <<session, in, inboundDb, outboundDb, beating, shutdown, world, log>>

\* The writer thread has passed the line on to the client, which may take
\* as long as the client likes.
Forward ==
  /\ out.pc = "send"
  /\ out' = [out EXCEPT !.pc = "log"]
  /\ forwarded' = forwarded \cup Answers(out.msgs)
  /\ UNCHANGED <<session, in, inboundDb, outboundDb, beating, shutdown, received,
                 answered, log>>

\* Responses are resolved whatever run has done.
RespondAlways == TRUE

\* begin_response is held from the look-up to the row.  What the look-up
\* takes for an answer is any message with the id of a pending call.
BeginResponse == responding

LogNext ==
  /\ out.pc = "log" /\ out.msgs # <<>> /\ LockFree
  /\ LET m == Head(out.msgs)
         found == {c \in pending : IdOf[c] = m.id}
     IN IF BeginResponse /\ found # {}
          THEN /\ pending' = pending \ found
               /\ IF outboundDb
                    THEN \E c \in found : AddRow(c, "answer", m.kind)
                    ELSE UNCHANGED rows
          ELSE UNCHANGED <<pending, rows>>
  /\ out' = [out EXCEPT !.msgs = Tail(@)]
  /\ UNCHANGED <<accepting, responding, in, inboundDb, outboundDb, beating,
                 shutdown, world, beats, ended>>

EndLine ==
  /\ out.pc = "log" /\ out.msgs = <<>>
  /\ IF out.aborted THEN EndOutbound ELSE out' = [out EXCEPT !.pc = "read"]
  /\ UNCHANGED <<session, in, inboundDb, outboundDb, beating, shutdown, world, log>>

-----------------------------------------------------------------------------
(* The heartbeat task and the console *)

Beat ==
  /\ beating
  /\ beats < MaxBeats
  /\ beats' = beats + 1
  /\ UNCHANGED <<session, pumps, beating, shutdown, world, rows, ended>>

\* Windows closes the console: its handler blocks, the asynchronous side
\* sees the signal.
CloseConsole ==
  /\ console = "none"
  /\ console' = "closing"
  /\ UNCHANGED <<session, pumps, beating, main, abandoned, outTimedOut, writer, gate,
                 world, log>>

\* The gate is open: the handler returns and Windows ends the process.  When
\* the handler's grace runs out first the process ends wherever it is, which
\* needs no action: nothing of this session happens any more.
HandlerReturns ==
  /\ console = "closing" /\ gate
  /\ console' = "killed"
  /\ UNCHANGED <<session, pumps, beating, main, abandoned, outTimedOut, writer, gate,
                 world, log>>

-----------------------------------------------------------------------------
(* run *)

\* select: the target has exited (or cannot be waited for), the inbound
\* pump has ended, a signal has arrived.
Stop ==
  /\ main = "run"
  /\ main' = "stopInput"
  /\ UNCHANGED <<session, pumps, beating, abandoned, outTimedOut, writer, gate,
                 console, world, log>>

\* stop_accepting waits for a line that is being registered.
StopAccepting ==
  /\ main = "stopInput" /\ LockFree
  /\ accepting' = FALSE
  /\ main' = "waitInput"
  /\ UNCHANGED <<responding, pending, pumps, beating, abandoned, outTimedOut, writer,
                 gate, console, world, log>>

\* The inbound pump has ended, or is aborted after two seconds.  Its slot is
\* emptied either way.
WaitInput ==
  /\ main = "waitInput" /\ LockFree
  /\ in' = [in EXCEPT !.aborted = in.pc # "ended"]
  /\ inboundDb' = FALSE
  /\ main' = "waitOutput"
  /\ UNCHANGED <<session, out, outboundDb, beating, abandoned, outTimedOut, writer,
                 gate, console, world, log>>

\* The drain does not wait for the outbound pump.
WaitNothing ==
  /\ main = "waitOutput"
  /\ main' = "stopResponses"
  /\ UNCHANGED <<session, pumps, beating, abandoned, outTimedOut, writer, gate, console,
                 world, log>>

\* A wait for the pump without a bound.
WaitOutputForEver ==
  /\ main = "waitOutput" /\ out.pc = "ended"
  /\ outTimedOut' = FALSE
  /\ main' = "stopResponses"
  /\ UNCHANGED <<session, pumps, beating, abandoned, writer, gate, console, world, log>>

\* The target has been given its time to exit; the outbound pump ends, or
\* does not within two seconds: its write to the client may never return.
WaitOutput ==
  /\ main = "waitOutput"
  /\ outTimedOut' = (out.pc # "ended")
  /\ main' = "stopResponses"
  /\ UNCHANGED <<session, pumps, beating, abandoned, writer, gate, console, world, log>>

\* A pump that was given up is aborted but keeps its sender.
StopResponsesOnly ==
  /\ main = "stopResponses" /\ LockFree
  /\ responding' = FALSE
  /\ outboundDb' = outTimedOut
  /\ out' = [out EXCEPT !.aborted = outTimedOut]
  /\ main' = "drain"
  /\ UNCHANGED <<accepting, pending, in, inboundDb, beating, abandoned, outTimedOut,
                 writer, gate, console, world, log>>

\* stop_responses waits for a response that is being logged; then the pump
\* loses its sender and, if it had to be given up, is aborted.
StopResponses ==
  /\ main = "stopResponses" /\ LockFree
  /\ responding' = FALSE
  /\ outboundDb' = FALSE
  /\ out' = [out EXCEPT !.aborted = outTimedOut]
  /\ main' = "drain"
  /\ UNCHANGED <<accepting, pending, in, inboundDb, beating, abandoned, outTimedOut,
                 writer, gate, console, world, log>>

Drain ==
  /\ main = "drain" /\ LockFree
  /\ abandoned' = pending
  /\ pending' = {}
  /\ main' = "logAbandoned"
  /\ UNCHANGED <<accepting, responding, pumps, beating, outTimedOut, writer, gate,
                 console, world, log>>

LogAbandoned ==
  /\ main = "logAbandoned"
  /\ \E c \in abandoned : /\ AddRow(c, "timeout", "drain")
                          /\ abandoned' = abandoned \ {c}
  /\ UNCHANGED <<session, pumps, beating, main, outTimedOut, writer, gate, console,
                 world, beats, ended>>

\* Abort the heartbeat task and go on.
AbortBeating ==
  /\ main = "logAbandoned" /\ abandoned = {}
  /\ main' = "logEnd"
  /\ UNCHANGED <<session, pumps, beating, abandoned, outTimedOut, writer, gate, console,
                 world, log>>

\* Abort the heartbeat task and wait until it is gone.
StopBeating ==
  /\ main = "logAbandoned" /\ abandoned = {}
  /\ beating' = FALSE
  /\ main' = "logEnd"
  /\ UNCHANGED <<session, pumps, abandoned, outTimedOut, writer, gate, console, world,
                 log>>

LogEnd ==
  /\ main = "logEnd"
  /\ ended' = TRUE
  /\ main' = "waitWriter"
  /\ UNCHANGED <<session, pumps, beating, abandoned, outTimedOut, writer, gate,
                 console, world, rows, beats>>

\* run has dropped its own sender: the writer ends when no other is left.
Senders == {h \in {"inbound", "outbound", "heartbeat"} :
              \/ h = "inbound" /\ inboundDb
              \/ h = "outbound" /\ outboundDb
              \/ h = "heartbeat" /\ beating}

WriterEnds ==
  /\ main = "waitWriter" /\ writer = "open" /\ Senders = {}
  /\ writer' = "ended"
  /\ UNCHANGED <<session, pumps, beating, main, abandoned, outTimedOut, gate, console,
                 world, log>>

\* wait_for_drain returns: the writer has ended, or ten seconds are over.
WaitForDrain ==
  /\ main = "waitWriter"
  /\ writer' = IF writer = "open" THEN "givenUp" ELSE writer
  /\ main' = "openGate"
  /\ UNCHANGED <<session, pumps, beating, abandoned, outTimedOut, gate, console,
                 world, log>>

NoteDrainComplete ==
  /\ main = "openGate"
  /\ gate' = TRUE
  /\ main' = "done"
  /\ UNCHANGED <<session, pumps, beating, abandoned, outTimedOut, writer, console,
                 world, log>>

-----------------------------------------------------------------------------

Inbound == Receive \/ InputEnds \/ RegisterNext \/ EndSection \/ Write \/ WriteFails
Outbound == ReadOutput \/ OutputEnds \/ Forward \/ LogNext \/ EndLine
Main == \/ Stop \/ StopAccepting \/ WaitInput \/ WaitOutput \/ StopResponses \/ Drain \/ LogAbandoned \/ StopBeating
        \/ LogEnd \/ WaitForDrain \/ NoteDrainComplete
Around == Beat \/ CloseConsole \/ HandlerReturns \/ WriterEnds

\* A pump that outlives run (or the process) changes no row any more.
Next == Inbound \/ Outbound \/ Main \/ Around

Spec == Init /\ [][Next]_vars

\* What the runtime guarantees: run goes on, because each of its waits has a bound, and a
\* section under the session's lock comes to its end.  The client, the target and the
\* writer may stall for ever.
FairSpec ==
  /\ Spec
  /\ WF_vars(Main /\ (main # "run" \/ in.pc = "ended"))
  /\ WF_vars(RegisterNext \/ EndSection)

-----------------------------------------------------------------------------
(* Properties. *)

\* Types; and no two calls wait under one id (PendingState.calls).
TypeOK ==
  /\ accepting \in BOOLEAN /\ responding \in BOOLEAN
  /\ pending \subseteq Calls /\ abandoned \subseteq Calls
  /\ \A c, d \in pending : IdOf[c] = IdOf[d] => c = d
  /\ in \in [pc : {"recv", "register", "write", "ended"}, todo : Seq(Calls),
             line : Seq(Calls), aborted : BOOLEAN]
  /\ out \in [pc : {"read", "send", "log", "ended"}, msgs : Seq(Messages), aborted : BOOLEAN]
  /\ inboundDb \in BOOLEAN /\ outboundDb \in BOOLEAN /\ beating \in BOOLEAN
  /\ main \in {"run", "stopInput", "waitInput", "waitOutput", "stopResponses", "drain",
               "logAbandoned", "logEnd", "waitWriter", "openGate", "done"}
  /\ outTimedOut \in BOOLEAN /\ gate \in BOOLEAN
  /\ writer \in {"open", "ended", "givenUp"}
  /\ console \in {"none", "closing", "killed"}
  /\ received \subseteq Calls /\ forwarded \subseteq answered /\ answered \subseteq received
  /\ rows \in [Calls -> Seq(Rows)]
  /\ beats \in 0..MaxBeats /\ ended \in BOOLEAN

\* The session keeps the ledger's promise: every call that it starts to track
\* gets exactly one row, and none is tracked behind the drain (session.rs,
\* begin_input and begin_response).
Ledger == INSTANCE CallLedger WITH
            open <- pending \cup abandoned,
            record <- [c \in Calls |-> [i \in DOMAIN rows[c] |-> rows[c][i].outcome]],
            closed <- main \in {"logEnd", "waitWriter", "openGate", "done"}
IsCallLedger == Ledger!Spec

\* A call that the target may have seen is never unknown to the session: it
\* waits, or it has its row (registration before forwarding).
ReceivedIsTracked == received \subseteq pending \cup abandoned \cup Logged

\* The drain writes a call off as a time-out only if the client never got its answer,
\* unless the outbound pump had to be given up (run, the order of the drain).
TimeoutMeansUnanswered ==
  \A c \in forwarded : Row("timeout", "drain") \in Range(rows[c]) => outTimedOut

\* Nothing follows the session's end in the log (run, "a heartbeat can never
\* land after the row that's supposed to close the session").
SessionEndIsLast == [][ended => UNCHANGED log]_vars

\* The end of a session is orderly: while run waits for the writer no task
\* holds a sender, whichever pump is blocked, so that the wait is for the queue
\* alone; and Windows ends the process only after the queue was written or
\* given up on, unless its grace ran out (run, inbound_db and outbound_db;
\* blocking_close_handler, note_drain_complete).
DrainIsOrderly ==
  /\ main = "waitWriter" => Senders = {}
  /\ console = "killed" => writer # "open"

\* Once the client's input has ended or a stop has been noticed, run comes to
\* its end, though client, target and writer may stall for ever.
ShutdownEnds ==
  (in.pc = "ended" \/ main # "run") ~> main = "done"
=============================================================================
