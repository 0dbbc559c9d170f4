------------------------------ MODULE TextScan ------------------------------
(***************************************************************************)
(* Secrets in one text, src/src/secrets.rs: what is found in it, how       *)
(* overlapping matches become one, and what is left of it.                 *)
(*                                                                         *)
(* A text is a sequence of symbols. A pattern stands for one of the        *)
(* secrets that its regular expression matches: a word, which is its own   *)
(* hash, with what the entropy gate would ask of it. A symbol of a key may *)
(* be one of the hints, as a marker is whose pattern is named like one.    *)
(***************************************************************************)
EXTENDS Naturals, Sequences, FiniteSets, SequencesExt, FiniteSetsExt

CONSTANTS
  Patterns,    \* a sequence of patterns: word, marker, severity, checked (its
               \* entropy), hinted (key names are asked), bits (the entropy:
               \* 0 below 3.5, 1 below 4.3, or 2), plain (prose, path or URL)
  Hints,       \* the symbols that contain a hint
  Allowlist    \* the words that were unmasked

ASSUME PatternsAssumption ==
  /\ Patterns \in Seq(Range(Patterns))
  /\ \A p \in DOMAIN Patterns :
       /\ Patterns[p].word \in Seq(Range(Patterns[p].word)) \ {<<>>}
       /\ Patterns[p].hinted => Patterns[p].checked
-----------------------------------------------------------------------------
(* What is found. A context is what is known of the key: "none", "hint", "other". *)

ContextOf(key) == IF \E i \in DOMAIN key : key[i] \in Hints THEN "hint" ELSE "other"

\* passes_entropy_gate
Passes(p, context) ==
  \/ ~p.checked
  \/ ~p.hinted /\ p.bits >= 1
  \/ p.hinted /\ context = "hint" /\ p.bits >= 1
  \/ p.hinted /\ context = "none" /\ ~p.plain /\ p.bits = 2

\* Regex::find_iter: from left to right, each match behind the one before.
Starts(text, word) ==
  LET taken[i \in 0..Len(text)] ==
        IF i = 0 THEN {}
        ELSE IF /\ i + Len(word) - 1 <= Len(text)
                /\ SubSeq(text, i, i + Len(word) - 1) = word
                /\ \A j \in taken[i - 1] : j + Len(word) <= i
             THEN taken[i - 1] \cup {i} ELSE taken[i - 1]
  IN  taken[Len(text)]

HitAt(i, p) == [pattern |-> p, from |-> i, to |-> i + Len(Patterns[p].word) - 1]

Matches(text, context) ==
  UNION {{HitAt(i, p) : i \in Starts(text, Patterns[p].word)} :
           p \in {q \in DOMAIN Patterns : Passes(Patterns[q], context)}}

\* The hits of a text, ordered as a stable sort by their starts leaves them.
HitsAt(i, matches) ==
  FlattenSeq([p \in DOMAIN Patterns |-> IF HitAt(i, p) \in matches THEN <<HitAt(i, p)>> ELSE <<>>])

Hits(text, context) ==
  LET matches == Matches(text, context)
  IN  FlattenSeq([i \in DOMAIN text |-> HitsAt(i, matches)])

Active(h) == Patterns[h.pattern].word \notin Allowlist

\* The more specific pattern decides, whatever was unmasked.
PreferSpecific(a, b) ==
  LET p == Patterns[a.pattern]
      q == Patterns[b.pattern]
  IN  IF p.checked # q.checked THEN (IF p.checked THEN b ELSE a)
      ELSE IF q.severity > p.severity THEN b ELSE a

\* pick_preferred: never an unmasked one over a secret.
Preferred(a, b) ==
  LET p == Patterns[a.pattern]
      q == Patterns[b.pattern]
  IN  IF Active(a) # Active(b) THEN (IF Active(a) THEN a ELSE b)
      ELSE IF p.checked # q.checked THEN (IF p.checked THEN b ELSE a)
      ELSE IF q.severity > p.severity THEN b ELSE a

\* merge_overlapping_hits: a chain of overlaps is one hit, over all of it.
Joined(g, h) ==
  [Preferred(g, h) EXCEPT !.from = g.from, !.to = IF h.to > g.to THEN h.to ELSE g.to]

WithHit(groups, h) ==
  IF groups # <<>> /\ h.from <= Last(groups).to
  THEN [groups EXCEPT ![Len(groups)] = Joined(@, h)] ELSE Append(groups, h)

Merge(hits) ==
  LET merged[n \in 0..Len(hits)] == IF n = 0 THEN <<>> ELSE WithHit(merged[n - 1], hits[n])
  IN  merged[Len(hits)]

ScanText(text, context) == Merge(Hits(text, context))

\* redact_ranges
Piece(i, text, secrets) ==
  IF \E h \in secrets : h.from = i
  THEN <<Patterns[(CHOOSE h \in secrets : h.from = i).pattern].marker>>
  ELSE IF \E h \in secrets : i \in h.from..h.to THEN <<>> ELSE <<text[i]>>

Redacted(text, hits) ==
  FlattenSeq([i \in DOMAIN text |-> Piece(i, text, {h \in ToSet(hits) : Active(h)})])

Clean(text, context) == Redacted(text, ScanText(text, context))
-----------------------------------------------------------------------------
(* What the redaction of a text owes: x is a text with its context. *)

Found(x, hits) == {i \in DOMAIN x.text : \E h \in hits : i \in h.from..h.to}
Secrets(x)     == {h \in Matches(x.text, x.context) : Active(h)}

\* The symbols that redaction writes.
Markers == {Patterns[p].marker : p \in DOMAIN Patterns}

\* How often a symbol is in a text, outside some of its positions.
Times(u, text, but) == Cardinality({i \in DOMAIN text \ but : text[i] = u})
=============================================================================
