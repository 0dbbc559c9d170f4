------------------------------ MODULE Anomaly -------------------------------
(***************************************************************************)
(* The anomaly rules of one session, src/src/anomaly.rs: sizes of outputs, *)
(* new network destinations, repeats and fan-outs. SessionStats is a       *)
(* record; Observe gives the rules that a call fires and what the session  *)
(* remembers of it. An observation is what the rules are told of a call:   *)
(* its tool, the size of its output if there was one, its destination if   *)
(* it names one, and its arguments, which the rules only compare.          *)
(***************************************************************************)
EXTENDS Naturals, Sequences, FiniteSets, SequencesExt, FiniteSetsExt

CONSTANTS
  Tools,
  Observations,     \* what the rules may be told
  Samples,          \* MIN_SAMPLES_FOR_SIZE_RULE
  Multiplier,       \* SIZE_SPIKE_MULTIPLIER
  BootstrapSpike,   \* SIZE_BOOTSTRAP_SPIKE_BYTES
  BaselineCapacity, \* SIZE_BASELINE_CAPACITY
  BaselineFloor,    \* SIZE_BASELINE_FLOOR_BYTES
  RepeatCount,      \* RAPID_REPEAT_COUNT
  RepeatWindow,     \* RAPID_REPEAT_WINDOW
  FanoutCount,      \* RAPID_FANOUT_COUNT
  EventCapacity     \* RAPID_EVENT_CAPACITY

ASSUME AnomalyAssumption ==
  /\ {Samples, Multiplier, BootstrapSpike, BaselineCapacity, BaselineFloor, RepeatCount,
      RepeatWindow, FanoutCount, EventCapacity} \subseteq Nat
  /\ Samples > 0 /\ RepeatCount > 0 /\ RepeatWindow > 0

ASSUME ObservationsAssumption ==
  \A c \in Observations :
    /\ c.tool \in Tools
    /\ c.bytes.some => c.bytes.value \in Nat

VARIABLES
  now,       \* seconds
  stats,     \* Session::stats
  history    \* history: the observations, when, and the rules they fired

sessionVars == <<now, stats, history>>

None == [some |-> FALSE]

Some(v) == [some |-> TRUE, value |-> v]

NewStats ==
  [baseline   |-> [t \in Tools |-> <<>>], \* ToolStats: sizes, oldest first,
   bands      |-> [t \in Tools |-> {}],   \* and the regimes already reported
   events     |-> [t \in Tools |-> <<>>], \* when, and with which arguments
   seen       |-> {},                     \* network destinations
   lastRepeat |-> [t \in Tools |-> None],
   lastFanout |-> [t \in Tools |-> None]]
-----------------------------------------------------------------------------
(* ToolStats::observe *)

\* ToolStats::median
Median(sizes) == SortSeq(sizes, <)[(Len(sizes) \div 2) + 1]

KnownBand(tool, bytes) ==
  \E b \in stats.bands[tool] : b[1] <= bytes /\ bytes <= b[2]

IsSpike(tool, bytes) ==
  LET sizes == stats.baseline[tool]
  IN  IF Len(sizes) < Samples THEN bytes >= BootstrapSpike
      ELSE bytes > Multiplier * Median(sizes) /\ bytes > BaselineFloor

\* The regime a spike belongs to: a fourth above it, a fifth below.
Band(bytes) == <<(bytes * 4) \div 5, (bytes * 5) \div 4>>

\* No size (the call timed out) tells nothing; a spike is reported once for its
\* regime, and what is one does not count as ordinary.
SizeFires(c) ==
  c.bytes.some /\ ~KnownBand(c.tool, c.bytes.value) /\ IsSpike(c.tool, c.bytes.value)

IsOrdinary(c) ==
  c.bytes.some /\ ~KnownBand(c.tool, c.bytes.value) /\ ~IsSpike(c.tool, c.bytes.value)

Baseline(c) ==
  LET sizes == Append(stats.baseline[c.tool], c.bytes.value)
  IN  IF Len(sizes) > BaselineCapacity THEN Tail(sizes) ELSE sizes
-----------------------------------------------------------------------------
(* SessionStats::observe_with_fingerprint *)

IsNetwork(destination) == destination.some /\ destination.value.network

IsNovel(destination) ==
  /\ IsNetwork(destination)
  /\ stats.seen # {} /\ destination.value.text \notin stats.seen

\* How many events the first loop takes from the front: those before the first
\* that is not older than the window.
Stale(events) ==
  CHOOSE n \in 0..Len(events) :
    /\ \A i \in 1..n : now - events[i].time > RepeatWindow
    /\ n < Len(events) => now - events[n + 1].time <= RepeatWindow

\* The second loop takes what is over the capacity by then.
Events(c) ==
  LET old == stats.events[c.tool]
      all == Append(SubSeq(old, Stale(old) + 1, Len(old)), [time |-> now, args |-> c.args])
  IN  IF Len(all) > EventCapacity THEN Tail(all) ELSE all

\* A rule that has fired for a tool is quiet for a window.
Cooling(last) == last.some /\ now - last.value < RepeatWindow

IsRepeat(events, args) == Cardinality({i \in DOMAIN events : events[i].args = args}) >= RepeatCount

IsFanout(events) == Cardinality({events[i].args : i \in DOMAIN events}) >= FanoutCount

\* The cool-down starts again with each call that it suppresses.
FiredAtEachCall(last, due) == IF due THEN Some(now) ELSE last

\* The cool-down starts when the rule fires, and no suppressed call extends it.
Fired(last, due) == IF due /\ ~Cooling(last) THEN Some(now) ELSE last

\* The rules that a call fires, given the events with it.
Reasons(c, events) ==
  {r \in {"size_spike", "novel_destination", "rapid_repeats", "rapid_fanout"} :
     CASE r = "size_spike"        -> SizeFires(c)
       [] r = "novel_destination" -> IsNovel(c.destination)
       [] r = "rapid_repeats"     -> IsRepeat(events, c.args) /\ ~Cooling(stats.lastRepeat[c.tool])
       [] r = "rapid_fanout"      -> IsFanout(events) /\ ~Cooling(stats.lastFanout[c.tool])}

\* What the session remembers of it.
Remembers(c, events) ==
  [stats EXCEPT
     !.baseline[c.tool]   = IF IsOrdinary(c) THEN Baseline(c) ELSE @,
     !.bands[c.tool]      = IF SizeFires(c) THEN @ \cup {Band(c.bytes.value)} ELSE @,
     !.events[c.tool]     = events,
     !.seen               = IF IsNetwork(c.destination)
                            THEN @ \cup {c.destination.value.text} ELSE @,
     !.lastRepeat[c.tool] = Fired(@, IsRepeat(events, c.args)),
     !.lastFanout[c.tool] = Fired(@, IsFanout(events))]
-----------------------------------------------------------------------------
SessionInit ==
  /\ now = 0
  /\ stats = NewStats
  /\ history = <<>>

\* attach_anomaly: the row of a call is about to be written.
Observe(c) ==
  /\ \E events \in {Events(c)} :
       /\ stats' = Remembers(c, events)
       /\ history' = Append(history, [call |-> c, time |-> now, reasons |-> Reasons(c, events)])
  /\ UNCHANGED now

Second ==
  /\ now' = now + 1
  /\ UNCHANGED <<stats, history>>

SessionNext == (\E c \in Observations : Observe(c)) \/ Second

SessionSpec == SessionInit /\ [][SessionNext]_sessionVars
-----------------------------------------------------------------------------
(* Properties. *)

\* The observations of the i-th one's tool that the rules still remember by then.
Remembered(i) ==
  LET same == {j \in 1..i : history[j].call.tool = history[i].call.tool}
  IN  {j \in same : /\ history[i].time - history[j].time <= RepeatWindow
                    /\ Cardinality({k \in same : k > j}) < EventCapacity}

IsDue(i, rule) ==
  IF rule = "rapid_repeats"
  THEN Cardinality({j \in Remembered(i) : history[j].call.args = history[i].call.args})
         >= RepeatCount
  ELSE Cardinality({history[j].call.args : j \in Remembered(i)}) >= FanoutCount

\* Whether the j-th observation is of the i-th one's tool and has fired the rule.
FlaggedBy(j, i, rule) ==
  history[j].call.tool = history[i].call.tool /\ rule \in history[j].reasons

\* Repeats and fan-outs are flagged once in a window and tool, and in each
\* window in which they go on: a burst that does not end is neither flagged at
\* every call nor ever out of sight. A size is flagged once for its regime.
BurstIsFlaggedOnce ==
  LET i == Len(history)
  IN  history # <<>> =>
        /\ \A rule \in {"rapid_repeats", "rapid_fanout"} :
             /\ IsDue(i, rule) =>
                  \E j \in 1..i :
                    FlaggedBy(j, i, rule) /\ history[i].time - history[j].time < RepeatWindow
             /\ FlaggedBy(i, i, rule) =>
                  /\ IsDue(i, rule)
                  /\ \A j \in 1..(i - 1) :
                       FlaggedBy(j, i, rule) =>
                         history[i].time - history[j].time >= RepeatWindow
        /\ FlaggedBy(i, i, "size_spike") =>
             \A j \in 1..(i - 1) :
               FlaggedBy(j, i, "size_spike") =>
                 LET band == Band(history[j].call.bytes.value)
                 IN  history[i].call.bytes.value \notin band[1]..band[2]
=============================================================================
