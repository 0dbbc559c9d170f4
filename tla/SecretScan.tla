----------------------------- MODULE SecretScan -----------------------------
(***************************************************************************)
(* Secrets in a JSON value, src/src/secrets.rs: what is left of its keys   *)
(* and its texts, and what was found in them.                              *)
(*                                                                         *)
(* A JSON value is the sequence of its nodes in the order of the document, *)
(* so that what is behind a node never decides about it.                   *)
(***************************************************************************)
EXTENDS TextScan

CONSTANT
  Symbols      \* what the texts are made of

\* What a key is numbered with: name #3 is the name and two of them.
Mark == "#"
-----------------------------------------------------------------------------
(* A node is a string, an array, an object or a scalar, behind the one that    *)
(* holds it: its parent. The first is the value itself and has none (0). A     *)
(* member of an object has its key; only a string has a text. A text that is   *)
(* not JSON is a value of one raw node.                                        *)

Node(kind, parent, key, text) == [kind |-> kind, parent |-> parent, key |-> key, text |-> text]

Nodes ==
  [kind : {"string", "array", "object", "scalar", "raw"}, parent : Nat,
   key : Seq(Symbols), text : Seq(Symbols)]

IsMember(value, n) == value[n].parent # 0 /\ value[value[n].parent].kind = "object"

\* What serde_json may have parsed, or could not.
IsValue(value) ==
  /\ value \in Seq(Nodes) \ {<<>>}
  /\ \A n \in DOMAIN value :
       /\ value[n].parent < n /\ (value[n].parent = 0 <=> n = 1)
       /\ \A m \in (value[n].parent + 1)..(n - 1) : value[m].parent >= value[n].parent
       /\ n # 1 => value[value[n].parent].kind \in {"array", "object"}
       /\ value[n].kind \notin {"string", "raw"} => value[n].text = <<>>
       /\ value[n].kind = "raw" => Len(value) = 1
       /\ ~IsMember(value, n) => value[n].key = <<>>
  /\ \A m, n \in DOMAIN value :
       IsMember(value, n) /\ value[m].parent = value[n].parent /\ value[m].key = value[n].key => m = n

\* A key takes the name that its redaction left, or that name with the first
\* number that no other key has.
Numbered(name, n) == name \o [i \in 1..(n - 1) |-> Mark]

FreeName(name, taken) ==
  Numbered(name, CHOOSE n \in 1..(Cardinality(taken) + 1) :
                   /\ Numbered(name, n) \notin taken
                   /\ \A m \in 1..(n - 1) : Numbered(name, m) \in taken)

\* A value is scanned in the context of its key as it is called by then, and a
\* key in that of its object.
Context(value, n, name) == IF IsMember(value, n) THEN ContextOf(name) ELSE "none"

KeyContext(value, n, walked) ==
  LET p == value[n].parent
  IN  IF p = 0 THEN "none" ELSE Context(value, p, walked[p].key)

\* The keys of an object are renamed in order: those before one have their new
\* names, those behind it the old ones.
Siblings(value, n) == {m \in DOMAIN value \ {n} : value[m].parent = value[n].parent}

Taken(value, n, walked) ==
  {IF m < n THEN walked[m].key ELSE value[m].key : m \in Siblings(value, n)}

NewName(value, n, walked) ==
  LET name == Clean(value[n].key, KeyContext(value, n, walked))
  IN  IF name = value[n].key THEN name ELSE FreeName(name, Taken(value, n, walked))

\* walk_json: what is left of a value, node by node. A member that is renamed
\* keeps its place, where the map sorts it anew.
Redact(value, n, name) ==
  [value[n] EXCEPT !.key = name, !.text = Clean(@, Context(value, n, name))]

WithNode(value, n, walked) == Append(walked, Redact(value, n, NewName(value, n, walked)))

Walk(value) ==
  LET walked[n \in 0..Len(value)] ==
        IF n = 0 THEN <<>> ELSE WithNode(value, n, walked[n - 1])
  IN  walked[Len(value)]

\* The hits of a value: an object's keys are scanned before its values.
KeyHits(value, n, walked) ==
  FlattenSeq([m \in DOMAIN value |->
                IF value[m].parent = n THEN ScanText(value[m].key, KeyContext(value, m, walked))
                ELSE <<>>])

WalkedHits(value, walked) ==
  FlattenSeq([n \in DOMAIN value |->
                ScanText(value[n].text, Context(value, n, walked[n].key)) \o KeyHits(value, n, walked)])
=============================================================================
