------------------------------- MODULE MCText -------------------------------
(* SseParser on small streams and CallRecorder on small payloads. The two    *)
(* share no state; one run checks both, and a behaviour is one of either.    *)
EXTENDS SseParser, CallRecorder

-----------------------------------------------------------------------------
(* Streams. *)

CONSTANT Text

\* Text that outgrows the cap or just does not, with line ends of every kind in
\* and after it.
TextStreams ==
  {[i \in 1..k |-> Text] \o s : k \in {2, 6}, s \in [1..6 -> {LF, CR, Text}]}

\* An event of up to three fields, each with an ending of its own.
Endings == {<<LF>>, <<CR, LF>>}
Fields == {<<f>> \o e : f \in {Endpoint, Message, Data, NoData}, e \in Endings}
FieldStreams ==
  {a \o b \o c \o e : a \in Fields, b \in Fields, c \in Fields \cup {<<>>}, e \in Endings}

SomeStreams ==
  TextStreams \cup {s \in FieldStreams : Endpoint \in Range(s) /\ Data \in Range(s)}

\* Nothing comes, while the recorder is looked at.
Nothing == <<>>

MCStreams == SomeStreams \cup {Nothing}
-----------------------------------------------------------------------------
(* Payloads: five patterns that contain, overlap and chain with one another, *)
(* and a client that repeats itself.                                         *)

Pattern(word, marker, severity) ==
  [word |-> word, marker |-> marker, severity |-> severity, checked |-> FALSE,
   hinted |-> FALSE, bits |-> 2, plain |-> FALSE]

MCPatterns == <<
  Pattern(<<"x", "y">>, "[key]", 2),
  Pattern(<<"y", "z">>, "[token]", 1),
  [Pattern(<<"x", "y", "z", "z">>, "[near]", 1) EXCEPT !.checked = TRUE, !.hinted = TRUE, !.bits = 1],
  [Pattern(<<"z", "z">>, "[near]", 1) EXCEPT !.checked = TRUE, !.hinted = TRUE],
  [Pattern(<<"y", "y">>, "[near]", 1) EXCEPT !.checked = TRUE, !.hinted = TRUE, !.plain = TRUE]>>
MCSymbols == {"x", "y", "z", "api_key", "url", "path", "[token]", "#", "__auditmcp_truncated"}
MCHints == {"api_key", "[key]", "[token]", "[near]"}
MCAllowlist == {<<"x", "y">>}
MCDestinationKeys == <<[key |-> <<"path">>, network |-> FALSE], [key |-> <<"url">>, network |-> TRUE]>>

TextsUpTo(most) == UNION {[1..n -> {"x", "y", "z"}] : n \in 0..most}
Pairs2 == {<<a, b>> : a, b \in {"x", "y", "z"}}
Scalar == Node("scalar", 0, <<>>, <<>>)
String(text) == Node("string", 0, <<>>, text)
Under(node, parent, key) == [node EXCEPT !.parent = parent, !.key = key]

\* Values of one node, an array, an object, and an object of one member.
Whole(node) == <<node>>
Array(items) ==
  <<Node("array", 0, <<>>, <<>>)>> \o [i \in DOMAIN items |-> Under(items[i], 1, <<>>)]
Object(keys, items) ==
  <<Node("object", 0, <<>>, <<>>)>> \o [i \in DOMAIN keys |-> Under(items[i], 1, keys[i])]
One(key, item) == Object(<<key>>, <<item>>)

Responds(result) ==
  [form |-> "rpc", result |-> Some(result), error |-> None, toolError |-> FALSE,
   task |-> FALSE, bytes |-> 1]
Ok == Responds(Whole(Scalar))
Call(tool, args, response) == [tool |-> tool, args |-> args, response |-> response]

\* Values: under a key that hints, under others, in an array, as a key, two keys
\* that may be called alike, and inside of a key that is renamed.
Values ==
  UNION {{One(<<"api_key">>, String(t)), One(t, Scalar)} : t \in TextsUpTo(4)}
  \cup UNION {{One(<<"url">>, String(t)), Array(<<String(t), Scalar, String(t)>>)} : t \in TextsUpTo(3)}
  \cup {Object(k, <<String(k[1]), String(k[2])>>) : k \in {p \in Pairs2 \X Pairs2 : p[1] # p[2]}}
  \cup {Object(<<p, k, <<"y", "z">>>>, <<Scalar, String(p), Scalar>>) :
           p \in Pairs2 \ {<<"y", "z">>}, k \in {<<"[token]">>, <<"[token]", "#">>}}
  \cup {Append(One(p, Node("object", 0, <<>>, <<>>)), Under(String(<<"x", "y", "z", "z">>), 2, q)) :
           p, q \in Pairs2}

Responses ==
  {[Responds(Whole(String(t))) EXCEPT !.toolError = e, !.task = d] : t \in Pairs2, e, d \in BOOLEAN}
  \cup {[Ok EXCEPT !.result = None, !.error = Some(Whole(String(t)))] : t \in Pairs2}
  \cup {[form |-> "cut", succeeded |-> s, bytes |-> 9] : s \in BOOLEAN} \cup {[form |-> "none"]}

\* A raw response is always stored whole.
RawResponses == {[form |-> "raw", text |-> t, bytes |-> 1] : t \in TextsUpTo(4)}

Path == Some(One(<<"path">>, String(<<"x", "y">>)))

MCPayloads ==
  {Call(t, Some(v), Ok) : t \in {"t", "u"}, v \in Values}
  \cup {Call("t", None, r) : r \in RawResponses}
  \cup {Call(t, Path, r) : t \in {"t", "u", "v"}, r \in Responses}
  \cup {Call(t, None, Ok) : t \in {"t", "u", "v"}}

Url(n) == Some(One(<<"url">>, String(<<n>>)))
Ordinary ==
  {Call("t", Url("x"), Ok), Call("t", Url("x"), [Ok EXCEPT !.bytes = 9]), Call("t", Url("z"), Ok),
   Call("t", Some(One(<<"path">>, String(<<"x">>))), Ok), Call("u", Url("x"), [Ok EXCEPT !.bytes = 12])}

MCTierForTool == ("t" :> "standard") @@ ("u" :> "minimal") @@ ("v" :> "full")

\* The last one is silent, while the parser is looked at.
MCWorkloads ==
  <<[calls |-> MCPayloads, most |-> 1, seconds |-> 0],
    [calls |-> Ordinary, most |-> 4, seconds |-> 3],
    [calls |-> {}, most |-> 0, seconds |-> 0]>>

MCObservations == UNION {{Observation(c) : c \in Completed[w]} : w \in DOMAIN MCWorkloads}
-----------------------------------------------------------------------------
TextInit ==
  /\ Init /\ RecorderInit
  /\ stream = Nothing <=> Workloads[workload].most > 0

TextNext ==
  \/ Next /\ UNCHANGED recorderVars
  \/ RecorderNext /\ UNCHANGED vars

TextSpec == TextInit /\ [][TextNext]_<<vars, recorderVars>>
=============================================================================
