---------------------------- MODULE CallRecorder ----------------------------
(***************************************************************************)
(* From a completed call to its row: what kind of outcome it was, the      *)
(* secrets in its payloads, its destination, how much of it is stored,     *)
(* src/src/audit.rs with extract.rs and truncate.rs, and the anomalies the *)
(* session sees in it, Session::attach_anomaly.                            *)
(*                                                                         *)
(* A payload that is not JSON is always that of an error and stored whole, *)
(* so that the previews of raw texts never come into play.                 *)
(***************************************************************************)
EXTENDS SecretScan, Anomaly

CONSTANTS
  DestinationKeys,  \* in the order they are asked for: key, network
  TierForTool,      \* Config::tier_for_tool
  MaxString,        \* MAX_STRING_BYTES
  ArrayHead,        \* ARRAY_KEEP_HEAD
  ArrayTail,        \* ARRAY_KEEP_TAIL
  PreviewSize,      \* PREVIEW_BYTES
  EnvelopeSize,     \* what the envelope of a preview takes of them
  MaxRecords,       \* MAX_REDACTION_RECORDS
  Workloads         \* a sequence: what a client may send (calls), and the bounds
                    \* on how many of them (most) in what time (seconds)

\* What stands for a part that was cut.
Ellipsis == "..."

ASSUME RecorderAssumption ==
  /\ TierForTool \in [Tools -> {"minimal", "standard", "full"}]
  /\ {MaxString, ArrayHead, ArrayTail, PreviewSize, EnvelopeSize, MaxRecords} \subseteq Nat
  /\ MaxRecords > 0
  /\ DestinationKeys \in Seq(Range(DestinationKeys))
  /\ "__auditmcp_truncated" \in Symbols

VARIABLES
  workload,       \* what this session's client sends
  called,         \* the last call, and
  row             \* its row

recorderVars == <<workload, called, row, sessionVars>>

\* A call as it is sent, with the response that it has got.
IsJson(payload) == payload.some => IsValue(payload.value) /\ payload.value[1].kind # "raw"

IsResponse(r) ==
  CASE r.form = "rpc" -> IsJson(r.result) /\ IsJson(r.error)
    [] r.form = "raw" -> r.text \in Seq(Symbols)
    [] OTHER          -> r.form \in {"cut", "none"}

IsCall(c) == c.tool \in Tools /\ IsJson(c.args) /\ IsResponse(c.response)
-----------------------------------------------------------------------------
(* CallOutcome: from_rpc, non_json, capture_truncated, timed_out. *)

Status(r) ==
  CASE r.form = "rpc"  -> IF r.error.some \/ r.toolError THEN "error"
                          ELSE IF r.task THEN "deferred" ELSE "success"
    [] r.form = "raw"  -> "error"
    [] r.form = "cut"  -> IF r.succeeded THEN "success" ELSE "error"
    [] r.form = "none" -> "timeout"

\* What is said in place of a response that was too large to be captured; its
\* size and its message are left out.
CaptureNote ==
  <<Node("object", 0, <<>>, <<>>), Node("scalar", 1, <<"__auditmcp_truncated">>, <<>>)>>

Raw(text) == <<Node("raw", 0, <<>>, text)>>

Outcome(r) ==
  [status |-> Status(r),
   result |-> CASE r.form = "rpc" -> r.result
                [] r.form = "cut" -> Some(CaptureNote)
                [] OTHER          -> None,
   error  |-> CASE r.form = "rpc" -> r.error
                [] r.form = "raw" -> Some(Raw(r.text))
                [] OTHER          -> None,
   bytes  |-> IF r.form = "none" THEN None ELSE Some(r.bytes)]

\* Payload::scan_and_redact
ScannedAs(value, walked) == [payload |-> Some(walked), hits |-> WalkedHits(value, walked)]

Scanned(payload) ==
  IF payload.some THEN ScannedAs(payload.value, Walk(payload.value))
  ELSE [payload |-> None, hits |-> <<>>]

\* destination_from_args: the first key that has a text.
At(value, d) ==
  {n \in DOMAIN value : /\ value[n].parent = 1 /\ value[n].key = d.key
                        /\ value[n].kind = "string" /\ value[n].text # <<>>}

Destinations(value) ==
  IF value[1].kind = "object"
  THEN {i \in DOMAIN DestinationKeys : At(value, DestinationKeys[i]) # {}} ELSE {}

DestinationFrom(value, d) ==
  [text |-> value[CHOOSE n \in At(value, d) : TRUE].text, network |-> d.network]

DestinationOf(args) ==
  IF ~args.some \/ Destinations(args.value) = {} THEN None
  ELSE Some(DestinationFrom(args.value,
              DestinationKeys[CHOOSE i \in Destinations(args.value) :
                                \A j \in Destinations(args.value) : i <= j]))
-----------------------------------------------------------------------------
(* How much of it is stored. *)

\* What becomes of a node that is written, after what comes before it in its parent.
Written(value) == FlattenSeq([n \in DOMAIN value |-> value[n].key \o value[n].text])

\* truncate_json_preview: as much of the text as the envelope leaves room for;
\* what the envelope itself says is left out.
Preview(text) ==
  IF Len(text) <= PreviewSize THEN text
  ELSE SubSeq(text, 1, IF PreviewSize > EnvelopeSize THEN PreviewSize - EnvelopeSize ELSE 0)

\* truncate_string
Shortened(text) ==
  IF Len(text) <= MaxString THEN text ELSE Append(SubSeq(text, 1, MaxString), Ellipsis)

\* truncate_array: which items of an array are left out, and the first of them,
\* in whose place there is a note.
Items(value, n)  == {m \in DOMAIN value : value[m].parent = value[n].parent}
Earlier(value, n) == Cardinality({m \in Items(value, n) : m < n})

IsOmitted(value, n) ==
  /\ value[n].parent # 0 /\ value[value[n].parent].kind = "array"
  /\ Cardinality(Items(value, n)) > ArrayHead + ArrayTail
  /\ Earlier(value, n) \in ArrayHead..(Cardinality(Items(value, n)) - ArrayTail - 1)

\* The nodes that are left out, with all that they hold.
Omitted(value) ==
  LET omitted[n \in 0..Len(value)] ==
        IF n = 0 THEN {}
        ELSE IF IsOmitted(value, n) \/ value[n].parent \in omitted[n - 1]
             THEN omitted[n - 1] \cup {n} ELSE omitted[n - 1]
  IN  omitted[Len(value)]

\* truncate_json_semantic
Truncated(value, omitted) ==
  FlattenSeq([n \in DOMAIN value |->
    IF n \notin omitted THEN value[n].key \o Shortened(value[n].text)
    ELSE IF value[n].parent \notin omitted /\ Earlier(value, n) = ArrayHead THEN <<Ellipsis>>
    ELSE <<>>])

\* Payload::render
Render(value, t) ==
  IF value[1].kind = "raw" \/ t = "full" THEN Written(value)
  ELSE IF t = "minimal" THEN Preview(Written(value)) ELSE Truncated(value, Omitted(value))

Rendered(payload, t) == IF payload.some THEN Some(Render(payload.value, t)) ELSE None

\* Of the hits, those that count, and what is recorded of them.
Counted(hits) == FlattenSeq([i \in DOMAIN hits |-> IF Active(hits[i]) THEN <<hits[i]>> ELSE <<>>])

Flags(secrets) ==
  LET distinct == FlattenSeq([i \in DOMAIN secrets |->
                    IF \E j \in 1..(i - 1) : secrets[j].pattern = secrets[i].pattern
                    THEN <<>> ELSE <<secrets[i].pattern>>])
  IN  IF Len(distinct) > MaxRecords THEN SubSeq(distinct, 1, MaxRecords) ELSE distinct

\* A secret, or an outcome that is not a success, keeps the whole of a call.
TierOf(tool, status, secrets) ==
  IF secrets # <<>> \/ status # "success" THEN "full" ELSE TierForTool[tool]

RowOf(outcome, args, result, error, secrets, t) ==
  [args        |-> Rendered(args.payload, t),
   result      |-> Rendered(result.payload, t),
   error       |-> Rendered(error.payload, t),
   status      |-> outcome.status,
   bytes       |-> outcome.bytes,
   destination |-> DestinationOf(args.payload),
   flags       |-> Flags(secrets),
   count       |-> Len(secrets)]

\* build_entry: redact, then decide the tier, then render.
Built(tool, outcome, args, result, error, secrets) ==
  RowOf(outcome, args, result, error, secrets, TierOf(tool, outcome.status, secrets))

ScannedRow(tool, outcome, args, result, error) ==
  Built(tool, outcome, args, result, error, Counted(args.hits \o result.hits \o error.hits))

Entry(call) ==
  LET outcome == Outcome(call.response)
  IN  ScannedRow(call.tool, outcome, Scanned(call.args), Scanned(outcome.result),
                 Scanned(outcome.error))

\* What the clients may send, each call with its row, which depends on nothing else.
Completed ==
  [w \in DOMAIN Workloads |->
     {[call |-> c, entry |-> Entry(c)] : c \in Workloads[w].calls}]

\* What the rules are told of one: the arguments' fingerprint is taken before
\* they are redacted.
Observation(c) ==
  [tool |-> c.call.tool, bytes |-> c.entry.bytes, destination |-> c.entry.destination,
   args |-> c.call.args]

ASSUME WorkloadsAssumption ==
  /\ \A w \in DOMAIN Workloads : \A c \in Workloads[w].calls : IsCall(c)
  /\ Observations = UNION {{Observation(c) : c \in Completed[w]} : w \in DOMAIN Workloads}
-----------------------------------------------------------------------------
NoRow == [status |-> "none"]

RecorderInit ==
  /\ workload \in DOMAIN Workloads
  /\ called = None /\ row = NoRow
  /\ SessionInit

\* log_completed (stdio), log_entry (HTTP)
LogCall ==
  /\ Len(history) < Workloads[workload].most
  /\ \E c \in Completed[workload] :
       /\ called' = Some(c.call)
       /\ row' = c.entry
       /\ Observe(Observation(c))
  /\ UNCHANGED workload

TimePasses ==
  /\ now < Workloads[workload].seconds
  /\ Second
  /\ UNCHANGED <<workload, called, row>>

RecorderNext == LogCall \/ TimePasses

RecorderSpec == RecorderInit /\ [][RecorderNext]_recorderVars
-----------------------------------------------------------------------------
(* Properties. *)

\* The texts of a value, node by node, its key and its text, each with its context.
Texts(value, walked) ==
  [n \in DOMAIN value |->
     [key  |-> [text |-> value[n].key, context |-> KeyContext(value, n, walked)],
      text |-> [text |-> value[n].text, context |-> Context(value, n, walked[n].key)]]]

\* How often at most a symbol may be kept of some texts, and at least.
Total(counts) ==
  LET sum[n \in 0..Len(counts)] == IF n = 0 THEN 0 ELSE sum[n - 1] + counts[n]
  IN  sum[Len(counts)]

May(u, x)  == Times(u, x.text, Found(x, Secrets(x)))
Must(u, x) == Times(u, x.text, Found(x, Matches(x.text, x.context)))

Allowed(u, texts) == Total([n \in DOMAIN texts |-> May(u, texts[n].key) + May(u, texts[n].text)])
Needed(u, texts)  == Total([n \in DOMAIN texts |-> Must(u, texts[n].key) + Must(u, texts[n].text)])

HasSecret(texts) ==
  \E n \in DOMAIN texts : Secrets(texts[n].key) # {} \/ Secrets(texts[n].text) # {}

\* The symbols that the program does not write on its own.
Given == Symbols \ (Markers \cup {Mark, Ellipsis})

\* What became of the texts, given what is kept and whether all the rest must be.
KeptApart(texts, kept, whole) ==
  /\ \A u \in Given \cap ToSet(kept) : Times(u, kept, {}) <= Allowed(u, texts)
  /\ whole => \A u \in Given : Times(u, kept, {}) >= Needed(u, texts)

\* No member of an object takes the name of another, which it would replace.
NamesApart(value) ==
  \A m, n \in DOMAIN value :
    IsMember(value, n) /\ value[m].parent = value[n].parent /\ value[m].key = value[n].key => m = n

\* The texts of each payload of a call, with what its row keeps of them.
PayloadAs(value, walked, kept) ==
  [texts |-> Texts(value, walked), apart |-> NamesApart(walked), kept |-> kept]

Payload(given, kept) ==
  IF given.some THEN PayloadAs(given.value, Walk(given.value), kept.value)
  ELSE PayloadAs(<<>>, <<>>, <<>>)

Payloads(call, outcome) ==
  <<Payload(call.args, row.args), Payload(outcome.result, row.result),
    Payload(outcome.error, row.error)>>

RowIsSafe(payloads) ==
  LET secret == \E i \in DOMAIN payloads : HasSecret(payloads[i].texts)
  IN  /\ secret <=> row.flags # <<>>
      /\ \A i \in DOMAIN payloads :
           /\ payloads[i].apart
           /\ KeptApart(payloads[i].texts, payloads[i].kept, secret \/ row.status # "success")
      /\ row.destination.some => KeptApart(payloads[1].texts, row.destination.value.text, FALSE)

\* No part of a secret that was not unmasked is stored, whatever other matches
\* it overlaps, unmasked or not, and whether it is a value, a key or part of a
\* raw text; a row with a secret says so; one with a secret or of a call that
\* did not succeed keeps all the rest; and no key that is renamed replaces
\* another (build_entry, merge_overlapping_hits, walk_json).
NoSecretIsStored ==
  called.some => RowIsSafe(Payloads(called.value, Outcome(called.value.response)))
=============================================================================
