----------------------------- MODULE SseParser ------------------------------
(***************************************************************************)
(* The incremental parser of event streams, src/src/http/sse.rs, and what  *)
(* the tee forwards for each piece it hands back, src/src/http/tee.rs.     *)
(*                                                                         *)
(* A stream is a sequence of units: line feeds, carriage returns, the      *)
(* fields `event: endpoint`, `event: message`, `data: <uri>` and `data:`,  *)
(* each one unit, and any other text. The transport cuts it into chunks anywhere.   *)
(* Each turn of feed's loop is an action.                                  *)
(***************************************************************************)
EXTENDS Naturals, Sequences, FiniteSets, SequencesExt, FiniteSetsExt

CONSTANTS
  Streams,        \* the streams an upstream may send
  MaxEvent,       \* MAX_SSE_EVENT_BYTES
  LF, CR,         \* the units that end lines
  Endpoint,       \* the field `event: endpoint`
  Message,        \* the field `event: message`
  Data,           \* a `data:` field whose payload is an absolute URI
  NoData,         \* a `data:` field without a payload
  LocalData       \* the same field, its URI pointing at this proxy

\* SSE_TERMINATOR_LOOKBEHIND
Lookbehind == 3

ASSUME MaxEventAssumption == MaxEvent \in Nat /\ MaxEvent >= Lookbehind
ASSUME UnitsAssumption ==
  LF # CR /\ Streams \subseteq Seq(UNION {Range(s) : s \in Streams})
\* A field begins a line and is alone on it, but for carriage returns.
ASSUME FieldsAssumption ==
  LET fields == {Endpoint, Message, Data, NoData}
  IN  /\ fields \cap {LF, CR} = {} /\ LocalData # Data
      /\ \A s \in Streams : \A i \in DOMAIN s :
           s[i] \in fields =>
             /\ i > 1 => s[i - 1] = LF
             /\ \A j \in (i + 1)..Len(s) :
                  (\A h \in i..(j - 1) : s[h] # LF) => s[j] \in {CR, LF}

VARIABLES
  stream,         \* what the upstream sends
  fed,            \* how much of it has arrived
  chunk,          \* the part of the last chunk that feed has not taken yet
  buf,            \* SseParser::buf
  resyncing,      \* SseParser::resyncing
  pc,             \* between chunks, in feed, or at the end
  pieces          \* what feed returned: the units of each piece, whether
                  \* it was read as an event, and what was forwarded for it

vars == <<stream, fed, chunk, buf, resyncing, pc, pieces>>

Init ==
  /\ stream \in Streams
  /\ fed = 0
  /\ chunk = <<>>
  /\ buf = <<>>
  /\ resyncing = FALSE
  /\ pc = "idle"
  /\ pieces = <<>>

-----------------------------------------------------------------------------
(* Where an event ends. *)

\* The blank lines of the grammar, with either line ending per line.
Terminators == {<<CR, LF, CR, LF>>, <<LF, CR, LF>>, <<LF, LF>>}

\* Where blank lines are in s: the number of units before each, and its own.
BlankLines(s) ==
  {f \in (0..Len(s)) \X {Len(t) : t \in Terminators} :
     f[1] + f[2] <= Len(s) /\ SubSeq(s, f[1] + 1, f[1] + f[2]) \in Terminators}

\* find_event_end: the first blank line, at one place the longest; no element
\* for None.
EventEnds(s) ==
  {f \in BlankLines(s) :
     \A g \in BlankLines(s) : f[1] < g[1] \/ (f[1] = g[1] /\ f[2] >= g[2])}

-----------------------------------------------------------------------------
(* What an event says. *)

\* str::lines: a line ends at a line feed, and loses the carriage return
\* before it only then.
LineStarts(s) == {1} \cup {i + 1 : i \in {j \in DOMAIN s : s[j] = LF}}
LineAt(s, i) ==
  LET ends == {j \in i..Len(s) : s[j] = LF}
      last == IF ends = {} THEN Len(s) ELSE Min(ends) - 1
  IN  IF ends # {} /\ last >= i /\ s[last] = CR
      THEN SubSeq(s, i, last - 1) ELSE SubSeq(s, i, last)

\* The first event field names the event.
FirstName(body) ==
  LET named == {i \in LineStarts(body) : i <= Len(body) /\ body[i] \in {Endpoint, Message}}
  IN  IF named = {} THEN <<>> ELSE LineAt(body, Min(named))

\* field: the last event field names the event; its value is the rest of its
\* line.
Name(body) ==
  LET named == {i \in LineStarts(body) : i <= Len(body) /\ body[i] \in {Endpoint, Message}}
  IN  IF named = {} THEN <<>> ELSE LineAt(body, Max(named))

\* Where the data fields are.
DataFields(s) == {i \in LineStarts(s) : i <= Len(s) /\ s[i] \in {Data, NoData}}

\* data_payload, rewrite_endpoint_uri: the data lines, joined by line feeds and
\* trimmed, are an absolute URI: there is one, and nothing is beside it.
IsUri(body) ==
  /\ Cardinality({i \in DataFields(body) : body[i] = Data}) = 1
  /\ \A i \in DataFields(body) : Range(Tail(LineAt(body, i))) \subseteq {CR}

\* Whether unit i belongs to a data line, and where the first of them begins.
DataLine(s, i) == \E j \in DataFields(s) : j <= i /\ LF \notin Range(SubSeq(s, j, i - 1))
FirstData(s) == Min(DataFields(s))

\* replace_event_data: the first data line gets the new URI and keeps its own
\* line ending, further data lines are dropped, all else stays.
Rewritten(s) ==
  LET first == FirstData(s)
      end   == Len(LineAt(s, first)) + first
      kept  == {i \in DOMAIN s : \/ ~DataLine(s, i)
                                 \/ i = first
                                 \/ i >= end /\ LF \notin Range(SubSeq(s, first, i - 1))}
  IN  [k \in 1..Cardinality(kept) |->
         LET i == CHOOSE i \in kept : Cardinality({j \in kept : j <= i}) = k
         IN  IF i = first THEN LocalData ELSE s[i]]

\* Tee::handle_event: an endpoint event is pointed at this proxy.
Forwarded(raw, body) ==
  IF Name(body) = <<Endpoint>> /\ IsUri(body) THEN Rewritten(raw) ELSE raw

\* SseEvent::passthrough
Passed(raw) == [raw |-> raw, event |-> FALSE, sent |-> raw]

Event(raw, body) == [raw |-> raw, event |-> TRUE, sent |-> Forwarded(raw, body)]

Drop(s, n) == SubSeq(s, n + 1, Len(s))
-----------------------------------------------------------------------------
(* SseParser::feed *)

\* The next chunk arrives.
Chunk(n) ==
  /\ pc = "idle"
  /\ n \in 1..(Len(stream) - fed)
  /\ chunk' = SubSeq(stream, fed + 1, fed + n)
  /\ fed' = fed + n
  /\ pc' = "feed"
  /\ UNCHANGED <<stream, buf, resyncing, pieces>>

\* How much of the chunk fits: one unit over the cap.
Room == Min({MaxEvent + 1 - Len(buf), Len(chunk)})

\* Without a look at what is held back.
KeptNothing(s) == 0

\* What must be kept back for a terminator that is cut in two.
KeptBack(s) == Min({Lookbehind, Len(s)})

\* What outgrew the cap is dropped, as it was once.
Discard(s, out) ==
  /\ buf' = SubSeq(s, Len(s) - KeptBack(s) + 1, Len(s))
  /\ pieces' = out

\* All but the units kept back are passed on.
PassOn(s, out) ==
  LET n == Len(s) - KeptBack(s)
  IN  /\ buf' = Drop(s, n)
      /\ pieces' = IF n = 0 THEN out ELSE Append(out, Passed(SubSeq(s, 1, n)))

\* feed, resyncing: look for the end of the oversized event.
Resync ==
  /\ pc = "feed"
  /\ resyncing
  /\ LET s == buf \o SubSeq(chunk, 1, Room)
     IN  \/ \E e \in EventEnds(s) :
              /\ pieces' = Append(pieces, Passed(SubSeq(s, 1, e[1] + e[2])))
              /\ buf' = Drop(s, e[1] + e[2])
              /\ resyncing' = FALSE
              /\ UNCHANGED pc
         \/ /\ EventEnds(s) = {}
            /\ PassOn(s, pieces)
            /\ pc' = IF Room = Len(chunk) THEN "idle" ELSE "feed"
            /\ UNCHANGED resyncing
  /\ chunk' = Drop(chunk, Room)
  /\ UNCHANGED <<stream, fed>>

Oversized(raw) == Len(raw) > MaxEvent

\* feed: a complete event is taken from the buffer; one over the cap is
\* passed on unread.
TakeEvent ==
  /\ pc = "feed"
  /\ ~resyncing
  /\ \E e \in EventEnds(buf) :
       LET raw  == SubSeq(buf, 1, e[1] + e[2])
           body == SubSeq(buf, 1, e[1])
       IN  /\ pieces' = Append(pieces, IF Oversized(raw) THEN Passed(raw) ELSE Event(raw, body))
           /\ buf' = Drop(buf, Len(raw))
  /\ UNCHANGED <<stream, fed, chunk, resyncing, pc>>

\* feed: an incomplete event outgrows the cap.
Overflow ==
  /\ pc = "feed"
  /\ ~resyncing
  /\ EventEnds(buf) = {}
  /\ Len(buf) > MaxEvent
  /\ PassOn(buf, pieces)
  /\ resyncing' = TRUE
  /\ UNCHANGED <<stream, fed, chunk, pc>>

\* feed: take more of the chunk, or return.
Fill ==
  /\ pc = "feed"
  /\ ~resyncing
  /\ EventEnds(buf) = {}
  /\ Len(buf) <= MaxEvent
  /\ buf' = buf \o SubSeq(chunk, 1, Room)
  /\ chunk' = Drop(chunk, Room)
  /\ pc' = IF chunk = <<>> THEN "idle" ELSE "feed"
  /\ UNCHANGED <<stream, fed, resyncing, pieces>>

\* The stream ends, anywhere; take_remainder.
End ==
  /\ pc = "idle"
  /\ pieces' = IF buf = <<>> THEN pieces ELSE Append(pieces, Passed(buf))
  /\ buf' = <<>>
  /\ pc' = "ended"
  /\ UNCHANGED <<stream, fed, chunk, resyncing>>

Next ==
  \/ \E n \in 1..Len(stream) : Chunk(n)
  \/ Resync \/ TakeEvent \/ Overflow \/ Fill
  \/ End

Spec == Init /\ [][Next]_vars
-----------------------------------------------------------------------------
(* Properties. *)

\* The pieces of stream s when it is cut at its event ends alone: the ends of
\* the events, each found from the end of the one before it.
Cuts(s) ==
  LET next[p \in 0..Len(s)] ==
        LET e == EventEnds(Drop(s, p))
        IN  {p} \cup UNION {next[p + f[1] + f[2]] : f \in e}
  IN  next[0]

\* The units of the first n pieces, and how many are before the k-th.
Units(n) == FlattenSeq([k \in 1..n |-> pieces[k].raw])
Before(k) == Len(Units(k - 1))

\* No unit of the stream is lost, repeated or moved on the way to the client,
\* whatever its size and however it is cut: the pieces and what is held back are
\* what has arrived, no unread piece is touched, and the parser never holds
\* more than one unit over the cap ("a limit on what is audited, never on what
\* is forwarded"; "cannot grow the buffer without bound").
BytesAreKept ==
  /\ Units(Len(pieces)) \o buf \o chunk = SubSeq(stream, 1, fed)
  /\ \A k \in DOMAIN pieces :
       pieces[k].sent # pieces[k].raw =>
         pieces[k].event /\ LocalData \in Range(pieces[k].sent)
  /\ Len(buf) <= MaxEvent + 1
  /\ pc = "ended" => buf = <<>>

\* Which events are read does not depend on the chunks: exactly the events that
\* the whole stream has between two cuts, are complete and within the cap, and
\* an event after an oversized one is found again (feed, "resynchronises at
\* the next event boundary").
EventsAreTheStreams ==
  pc = "idle" =>
    LET s    == SubSeq(stream, 1, fed)
        cuts == Cuts(s)
        read == {<<Before(k), Before(k) + Len(pieces[k].raw)>> :
                   k \in {j \in DOMAIN pieces : pieces[j].event}}
    IN  read = {e \in cuts \X cuts :
                  /\ e[1] < e[2]
                  /\ e[2] - e[1] <= MaxEvent
                  /\ ~\E c \in cuts : e[1] < c /\ c < e[2]}

\* An endpoint event within the cap never reaches the client with the upstream's
\* URI, wherever in the event its name stands, however often it was named
\* before and whatever empty data lines are around it, unless its name is the
\* last line and ends CR LF before a bare LF (rewrite_endpoint_uri, "it is not
\* optional").
EndpointIsRewritten ==
  \A k \in DOMAIN pieces :
    LET raw   == pieces[k].raw
        named == {i \in DOMAIN raw : raw[i] \in {Endpoint, Message} /\ i \in LineStarts(raw)}
    IN  (/\ pieces[k].event
         /\ named # {} /\ LineAt(raw, Max(named)) = <<Endpoint>>
         /\ ~IsSuffix(<<Endpoint, CR, LF, LF>>, raw)
         /\ Cardinality({i \in DOMAIN raw : raw[i] = Data}) = 1)
          => /\ Data \notin Range(pieces[k].sent)
             /\ LocalData \in Range(pieces[k].sent)
=============================================================================
