----------------------------- MODULE TextProofs -----------------------------
(***************************************************************************)
(* Theorems about what is done to sequences of symbols. SseParser, for any *)
(* streams, any cap and any chunks: no unit is lost or moved, the events   *)
(* that are read are those of the stream, and endpoint events are          *)
(* rewritten. TextScan, for any text, patterns and allowlist: no part of a *)
(* secret is left of the text, and nothing else is lost. CallRecorder, for *)
(* any payloads and outcomes: no part of a secret is stored.               *)
(***************************************************************************)
EXTENDS SseParser, CallRecorder, SequenceTheorems, FiniteSetTheorems, WellFoundedInduction, TLAPS

-----------------------------------------------------------------------------
(* Induction over numbers, by sets instead of predicates. *)

LEMMA LeastElement ==
  ASSUME NEW T, T \subseteq Nat, T # {}
  PROVE  \E x \in T : \A y \in T : x <= y
<1>1. \E x \in T : \A y \in T : ~(<<y, x>> \in OpToRel(<, Nat))
  BY NatLessThanWellFounded, WFMin, Zenon
<1>2. PICK x \in T : \A y \in T : ~(<<y, x>> \in OpToRel(<, Nat))
  BY <1>1
<1>3. ASSUME NEW y \in T PROVE x <= y
  <2>1. ~(y < x)
    BY <1>2 DEF OpToRel
  <2>2. QED
    BY <2>1
<1>4. QED
  BY <1>3

\* A set that holds zero, and each number up to n whose predecessor it holds.
LEMMA CountUp ==
  ASSUME NEW n \in Nat, NEW T, 0 \in T,
         \A m \in 1..n : m - 1 \in T => m \in T
  PROVE  0..n \subseteq T
<1> DEFINE Rest == {m \in 0..n : m \notin T}
<1>1. SUFFICES ASSUME Rest # {} PROVE FALSE
  OBVIOUS
<1>2. PICK m \in Rest : \A k \in Rest : m <= k
  <2>1. Rest \subseteq Nat
    OBVIOUS
  <2>2. QED
    BY <1>1, <2>1, LeastElement
<1>3. m \in 1..n /\ m - 1 \in 0..n /\ m - 1 \notin Rest
  BY <1>2
<1>4. QED
  BY <1>2, <1>3

-----------------------------------------------------------------------------
(* Sequences of sequences, joined. *)

\* f joins s bit by bit.
Joins(f, s, n) == \A i \in 1..n : f[i] = IF i = 1 THEN s[i] ELSE f[i - 1] \o s[i]

LEMMA JoinExists ==
  ASSUME NEW A, NEW s \in Seq(Seq(A)), NEW n \in Nat, n <= Len(s)
  PROVE  \E f \in [1..n -> Seq(A)] : Joins(f, s, n)
<1> DEFINE Ok(m) == \E f \in [1..m -> Seq(A)] : Joins(f, s, m)
           T == {m \in 0..n : Ok(m)}
<1>1. Ok(0)
  <2>1. PICK f : f = [i \in 1..0 |-> s]
    OBVIOUS
  <2>2. f \in [1..0 -> Seq(A)]
    BY <2>1
  <2>3. Joins(f, s, 0)
    BY DEF Joins
  <2>4. QED
    BY <2>2, <2>3, Zenon
<1>2. ASSUME NEW m \in 1..n, Ok(m - 1) PROVE Ok(m)
  <2>1. PICK f \in [1..(m - 1) -> Seq(A)] : Joins(f, s, m - 1)
    BY <1>2
  <2>2. PICK x : x = IF m = 1 THEN s[m] ELSE f[m - 1] \o s[m]
    OBVIOUS
  <2>3. x \in Seq(A)
    <3>1. s[m] \in Seq(A)
      OBVIOUS
    <3>2. m # 1 => f[m - 1] \in Seq(A)
      OBVIOUS
    <3>3. QED
      BY <2>2, <3>1, <3>2
  <2>4. PICK g : g = [i \in 1..m |-> IF i = m THEN x ELSE f[i]]
    OBVIOUS
  <2>5. g \in [1..m -> Seq(A)]
    BY <2>3, <2>4
  <2>6. ASSUME NEW i \in 1..m PROVE g[i] = IF i = 1 THEN s[i] ELSE g[i - 1] \o s[i]
    <3>1. i # 1 => i - 1 \in 1..m /\ i - 1 # m /\ g[i - 1] = f[i - 1]
      BY <2>4
    <3>2. i # m => i \in 1..(m-1) /\ g[i] = f[i]
      BY <2>4
    <3>3. i = m => g[i] = x
      BY <2>4
    <3>4. QED
      BY <2>1, <2>2, <3>1, <3>2, <3>3 DEF Joins
  <2>7. Joins(g, s, m)
    BY <2>6, Zenon DEF Joins
  <2>8. QED
    BY <2>5, <2>7, Zenon
<1> HIDE DEF Ok
<1>3. 0 \in T /\ \A m \in 1..n : m - 1 \in T => m \in T
  BY <1>1, <1>2
<1> HIDE DEF T
<1>4. 0..n \subseteq T
  BY <1>3, CountUp
<1>5. n \in T
  BY <1>4
<1>6. Ok(n)
  BY <1>5 DEF T
<1>7. QED
  BY <1>6 DEF Ok

\* Nothing else joins s, and what is behind n does not matter.
LEMMA JoinIsOne ==
  \A n \in Nat : \A s, t, f, g :
    (\A i \in 1..n : t[i] = s[i]) /\ Joins(f, s, n) /\ Joins(g, t, n)
      => \A i \in 1..n : g[i] = f[i]
<1> SUFFICES ASSUME NEW n \in Nat, NEW s, NEW t, NEW f, NEW g,
                    \A i \in 1..n : t[i] = s[i], Joins(f, s, n), Joins(g, t, n)
             PROVE  \A i \in 1..n : g[i] = f[i]
  OBVIOUS
<1> DEFINE T == {m \in 0..n : m = 0 \/ g[m] = f[m]}
<1>1. 0 \in T
  OBVIOUS
<1>2. ASSUME NEW m \in 1..n, m - 1 \in T PROVE m \in T
  <2>1. m # 1 => g[m - 1] = f[m - 1]
    BY <1>2
  <2>2. /\ f[m] = IF m = 1 THEN s[m] ELSE f[m - 1] \o s[m]
        /\ g[m] = IF m = 1 THEN t[m] ELSE g[m - 1] \o t[m]
        /\ t[m] = s[m]
    BY DEF Joins
  <2>3. g[m] = f[m]
    BY <2>1, <2>2, Zenon
  <2>4. QED
    BY <2>3
<1> HIDE DEF T
<1>3. 0..n \subseteq T
  BY <1>1, <1>2, CountUp
<1>4. QED
  BY <1>3 DEF T

Begins(s, t, n) == \A i \in 1..n : t[i] = s[i]

LEMMA JoinOneMore ==
  ASSUME NEW m \in Nat \ {0}, NEW s, NEW t, NEW f, NEW g,
         Joins(f, s, m), Joins(g, t, m + 1), Begins(s, t, m)
  PROVE  g[m + 1] = f[m] \o t[m + 1]
<1>1. m \in Nat /\ m \in 1..m /\ m + 1 \in 1..(m + 1) /\ m + 1 # 1 /\ (m + 1) - 1 = m
  OBVIOUS
<1>2. Joins(g, t, m)
  <2>1. \A i \in 1..m : i \in 1..(m + 1)
    OBVIOUS
  <2>2. QED
    BY <2>1 DEF Joins
<1>3. g[m] = f[m]
  BY <1>1, <1>2, JoinIsOne DEF Begins
<1>4. g[m + 1] = g[(m + 1) - 1] \o t[m + 1]
  BY <1>1 DEF Joins
<1>5. QED
  BY <1>1, <1>3, <1>4

LEMMA FlattenIs ==
  ASSUME NEW A, NEW s \in Seq(Seq(A)), s # <<>>
  PROVE  FlattenSeq(s) \in Seq(A) /\ \E f : FlattenSeq(s) = f[Len(s)] /\ Joins(f, s, Len(s))
<1> DEFINE n == Len(s)
           flatten == CHOOSE f : f = [i \in 1..n |-> IF i = 1 THEN s[i] ELSE f[i - 1] \o s[i]]
<1>1. n # 0 /\ n \in Nat
  OBVIOUS
<1>2. FlattenSeq(s) = flatten[n]
  BY <1>1, Zenon DEF FlattenSeq
<1>3. PICK f \in [1..n -> Seq(A)] : Joins(f, s, n)
  <2>1. \A m \in Nat : m <= Len(s) => \E f \in [1..m -> Seq(A)] : Joins(f, s, m)
    BY JoinExists
  <2>2. QED
    BY <1>1, <2>1
<1>4. f = [i \in 1..n |-> IF i = 1 THEN s[i] ELSE f[i - 1] \o s[i]]
  BY <1>3 DEF Joins
<1>5. flatten = [i \in 1..n |-> IF i = 1 THEN s[i] ELSE flatten[i - 1] \o s[i]]
  BY <1>4, Zenon
<1> HIDE DEF flatten
<1>6. Joins(flatten, s, n)
  BY <1>5, Zenon DEF Joins
<1>7. \A i \in 1..n : flatten[i] = f[i]
  BY <1>1, <1>3, <1>6, JoinIsOne
<1>8. flatten[n] = f[n]
  BY <1>1, <1>7
<1>9. f[n] \in Seq(A)
  <2>1. n \in 1..n
    BY <1>1
  <2>2. QED
    BY <1>3, <2>1, Zenon
<1>10. FlattenSeq(s) = f[n]
  BY <1>2, <1>8
<1> HIDE DEF n
<1>11. n = Len(s)
  BY DEF n
<1>12. QED
  BY <1>3, <1>9, <1>10, <1>11, Zenon

LEMMA FlattenEmpty == FlattenSeq(<<>>) = <<>>
  BY DEF FlattenSeq

\* One sequence more at the end comes at the end.
LEMMA FlattenAppend ==
  ASSUME NEW A, NEW s \in Seq(Seq(A)), NEW x \in Seq(A)
  PROVE  FlattenSeq(Append(s, x)) = FlattenSeq(s) \o x /\ FlattenSeq(s) \in Seq(A)
<1> DEFINE n == Len(s) + 1
<1>1. PICK t : t = Append(s, x)
  OBVIOUS
<1>2. /\ t \in Seq(Seq(A)) /\ t # <<>> /\ Len(t) = n /\ t[n] = x /\ Len(s) \in Nat
      /\ \A i \in 1..Len(s) : t[i] = s[i]
  BY <1>1
<1>3. PICK g : FlattenSeq(t) = g[n] /\ Joins(g, t, n)
  BY <1>2, FlattenIs
<1>4. CASE s = <<>>
  <2>1. FlattenSeq(s) = <<>> /\ n = 1
    BY <1>4, FlattenEmpty
  <2>2. g[1] = x /\ FlattenSeq(t) = x
    BY <1>2, <1>3, <2>1 DEF Joins
  <2>3. QED
    BY <1>1, <2>1, <2>2
<1>5. CASE s # <<>>
  <2>1. PICK f : FlattenSeq(s) = f[Len(s)] /\ Joins(f, s, Len(s))
    BY <1>5, FlattenIs
  <2>2. Len(s) # 0 /\ Len(s) \in 1..Len(s) /\ n \in 1..n /\ n # 1
    BY <1>2, <1>5
  <2>3. Len(s) \in Nat \ {0} /\ Joins(g, t, Len(s) + 1) /\ Begins(s, t, Len(s))
    BY <1>2, <1>3, <1>5 DEF Begins
  <2>4. g[Len(s) + 1] = f[Len(s)] \o t[Len(s) + 1]
    BY <2>1, <2>3, JoinOneMore, Zenon
  <2>5. FlattenSeq(s) \in Seq(A)
    BY <1>5, FlattenIs
  <2>6. QED
    BY <1>1, <1>2, <1>3, <2>1, <2>4, <2>5
<1>6. QED
  BY <1>4, <1>5

-----------------------------------------------------------------------------
(* Where events end. *)

StreamUnits == UNION {Range(s) : s \in Streams}

\* A blank line ends with unit q of s: a line feed behind another, with at most
\* a carriage return between.
EndAt(s, q) ==
  /\ 2 <= q /\ q <= Len(s) /\ s[q] = LF
  /\ \/ s[q - 1] = LF
     \/ 3 <= q /\ s[q - 1] = CR /\ s[q - 2] = LF

\* The units of a blank line that begins behind unit i and has n of them.
IsBlank(s, i, n) ==
  \/ n = 2 /\ s[i + 1] = LF /\ s[i + 2] = LF
  \/ n = 3 /\ s[i + 1] = LF /\ s[i + 2] = CR /\ s[i + 3] = LF
  \/ n = 4 /\ s[i + 1] = CR /\ s[i + 2] = LF /\ s[i + 3] = CR /\ s[i + 4] = LF

LEMMA TerminatorSizes == {Len(t) : t \in Terminators} = {2, 3, 4}
<1>1. Len(<<LF, LF>>) = 2 /\ Len(<<LF, CR, LF>>) = 3 /\ Len(<<CR, LF, CR, LF>>) = 4
  OBVIOUS
<1>2. QED
  BY <1>1 DEF Terminators

LEMMA BlankIs ==
  ASSUME NEW A, NEW s \in Seq(A), NEW i \in Nat, NEW n \in {2, 3, 4}, i + n <= Len(s)
  PROVE  SubSeq(s, i + 1, i + n) \in Terminators <=> IsBlank(s, i, n)
<1>1. PICK t : t = SubSeq(s, i + 1, i + n)
  OBVIOUS
<1>2. t \in Seq(A) /\ Len(t) = n /\ \A j \in 1..n : t[j] = s[i + j]
  <2>1. /\ i + 1 \in Int /\ i + n \in Int /\ i + 1 <= i + n /\ (i + n) - (i + 1) + 1 = n
        /\ \A j \in (i + 1)..(i + n) : s[j] \in A
    OBVIOUS
  <2>2. \A j \in 1..n : i + 1 + j - 1 = i + j
    OBVIOUS
  <2>3. QED
    BY <1>1, <2>1, <2>2, SubSeqProperties
<1>3. t = <<LF, LF>> <=> n = 2 /\ t[1] = LF /\ t[2] = LF
  <2>1. PICK u : u = <<LF, LF>>
    OBVIOUS
  <2>2. u \in Seq(A \cup {LF, CR}) /\ Len(u) = 2 /\ u[1] = LF /\ u[2] = LF
    BY <2>1
  <2>3. t \in Seq(A \cup {LF, CR})
    BY <1>2
  <2>4. t = u <=> Len(t) = Len(u) /\ \A j \in 1..Len(t) : t[j] = u[j]
    BY <2>2, <2>3, SeqEqual
  <2>5. QED
    BY <1>2, <2>1, <2>2, <2>4
<1>4. t = <<LF, CR, LF>> <=> n = 3 /\ t[1] = LF /\ t[2] = CR /\ t[3] = LF
  <2>1. PICK u : u = <<LF, CR, LF>>
    OBVIOUS
  <2>2. u \in Seq(A \cup {LF, CR}) /\ Len(u) = 3 /\ u[1] = LF /\ u[2] = CR /\ u[3] = LF
    BY <2>1
  <2>3. t \in Seq(A \cup {LF, CR})
    BY <1>2
  <2>4. t = u <=> Len(t) = Len(u) /\ \A j \in 1..Len(t) : t[j] = u[j]
    BY <2>2, <2>3, SeqEqual
  <2>5. QED
    BY <1>2, <2>1, <2>2, <2>4
<1>5. t = <<CR, LF, CR, LF>> <=> n = 4 /\ t[1] = CR /\ t[2] = LF /\ t[3] = CR /\ t[4] = LF
  <2>1. PICK u : u = <<CR, LF, CR, LF>>
    OBVIOUS
  <2>2. u \in Seq(A \cup {LF, CR}) /\ Len(u) = 4 /\ u[1] = CR /\ u[2] = LF /\ u[3] = CR /\ u[4] = LF
    BY <2>1
  <2>3. t \in Seq(A \cup {LF, CR})
    BY <1>2
  <2>4. t = u <=> Len(t) = Len(u) /\ \A j \in 1..Len(t) : t[j] = u[j]
    BY <2>2, <2>3, SeqEqual
  <2>5. QED
    BY <1>2, <2>1, <2>2, <2>4
<1>6. /\ 1 \in 1..n /\ 2 \in 1..n /\ (n # 2 => 3 \in 1..n) /\ (n = 4 => 4 \in 1..n)
  OBVIOUS
<1>7. t \in Terminators <=> t = <<CR, LF, CR, LF>> \/ t = <<LF, CR, LF>> \/ t = <<LF, LF>>
  BY Zenon DEF Terminators
<1>8. CASE n = 2
  <2>1. t[1] = s[i + 1] /\ t[2] = s[i + 2]
    BY <1>2, <1>6
  <2>2. t \in Terminators <=> s[i + 1] = LF /\ s[i + 2] = LF
    BY <1>3, <1>4, <1>5, <1>7, <1>8, <2>1
  <2>3. QED
    BY <1>1, <1>8, <2>2 DEF IsBlank
<1>9. CASE n = 3
  <2>1. t[1] = s[i + 1] /\ t[2] = s[i + 2] /\ t[3] = s[i + 3]
    BY <1>2, <1>6, <1>9
  <2>2. t \in Terminators <=> s[i + 1] = LF /\ s[i + 2] = CR /\ s[i + 3] = LF
    BY <1>3, <1>4, <1>5, <1>7, <1>9, <2>1
  <2>3. QED
    BY <1>1, <1>9, <2>2 DEF IsBlank
<1>10. CASE n = 4
  <2>1. t[1] = s[i + 1] /\ t[2] = s[i + 2] /\ t[3] = s[i + 3] /\ t[4] = s[i + 4]
    BY <1>2, <1>6, <1>10
  <2>2. t \in Terminators <=> s[i + 1] = CR /\ s[i + 2] = LF /\ s[i + 3] = CR /\ s[i + 4] = LF
    BY <1>3, <1>4, <1>5, <1>7, <1>10, <2>1
  <2>3. QED
    BY <1>1, <1>10, <2>2 DEF IsBlank
<1>11. QED
  BY <1>8, <1>9, <1>10

LEMMA BlankLinesAre ==
  ASSUME NEW A, NEW s \in Seq(A), NEW f
  PROVE  f \in BlankLines(s) <=>
           /\ f \in (0..Len(s)) \X {2, 3, 4}
           /\ f[1] + f[2] <= Len(s) /\ IsBlank(s, f[1], f[2])
<1>1. f \in BlankLines(s) <=>
        /\ f \in (0..Len(s)) \X {2, 3, 4}
        /\ f[1] + f[2] <= Len(s) /\ SubSeq(s, f[1] + 1, f[1] + f[2]) \in Terminators
  BY TerminatorSizes, Zenon DEF BlankLines
<1>2. f \in (0..Len(s)) \X {2, 3, 4} => f[1] \in Nat /\ f[2] \in {2, 3, 4}
  OBVIOUS
<1>3. QED
  BY <1>1, <1>2, BlankIs

\* The end that find_event_end returns is the first of all ends.
LEMMA EndIsFirst ==
  ASSUME NEW A, NEW s \in Seq(A), NEW e \in EventEnds(s)
  PROVE  /\ e[1] \in Nat /\ e[2] \in Nat /\ 2 <= e[2] /\ e[1] + e[2] <= Len(s)
         /\ EndAt(s, e[1] + e[2])
         /\ \A q \in 0..(e[1] + e[2] - 1) : ~EndAt(s, q)
<1>1. e \in BlankLines(s) /\ \A g \in BlankLines(s) : e[1] < g[1] \/ (e[1] = g[1] /\ e[2] >= g[2])
  BY DEF EventEnds
<1>2. /\ e[1] \in 0..Len(s) /\ e[2] \in {2, 3, 4} /\ e[1] + e[2] <= Len(s)
      /\ IsBlank(s, e[1], e[2]) /\ Len(s) \in Nat
  BY <1>1, BlankLinesAre
<1>3. EndAt(s, e[1] + e[2])
  BY <1>2 DEF IsBlank, EndAt
<1>4. ASSUME NEW q \in 0..(e[1] + e[2] - 1), EndAt(s, q) PROVE FALSE
  <2>1. q \in Nat /\ 2 <= q /\ q < e[1] + e[2] /\ s[q] = LF /\ q <= Len(s)
    BY <1>2, <1>4 DEF EndAt
  <2>2. CASE s[q - 1] = LF
    <3>1. PICK f : f = <<q - 2, 2>>
      OBVIOUS
    <3>2. f \in BlankLines(s) /\ f[1] = q - 2
      <4>1. f \in (0..Len(s)) \X {2, 3, 4} /\ f[1] = q - 2 /\ f[2] = 2
        BY <1>2, <2>1, <3>1
      <4>2. q - 2 + 1 = q - 1 /\ q - 2 + 2 = q
        BY <2>1
      <4>3. IsBlank(s, q - 2, 2)
        BY <2>1, <2>2, <4>2 DEF IsBlank
      <4>4. QED
        BY <2>1, <4>1, <4>2, <4>3, BlankLinesAre
    <3>3. e[1] <= q - 2
      BY <1>1, <1>2, <2>1, <3>2, SMTT(30)
    <3>4. q = e[1] + 2 \/ q = e[1] + 3
      BY <1>2, <2>1, <3>3
    <3>5. QED
      BY <1>2, <2>1, <2>2, <3>4, UnitsAssumption DEF IsBlank
  <2>3. CASE 3 <= q /\ s[q - 1] = CR /\ s[q - 2] = LF
    <3>1. PICK f : f = <<q - 3, 3>>
      OBVIOUS
    <3>2. f \in BlankLines(s) /\ f[1] = q - 3
      <4>1. f \in (0..Len(s)) \X {2, 3, 4} /\ f[1] = q - 3 /\ f[2] = 3
        BY <1>2, <2>1, <2>3, <3>1
      <4>2. q - 3 + 1 = q - 2 /\ q - 3 + 2 = q - 1 /\ q - 3 + 3 = q
        BY <2>1
      <4>3. IsBlank(s, q - 3, 3)
        BY <2>1, <2>3, <4>2 DEF IsBlank
      <4>4. QED
        BY <2>1, <4>1, <4>2, <4>3, BlankLinesAre
    <3>3. e[1] <= q - 3
      BY <1>1, <1>2, <2>1, <3>2
    <3>4. QED
      BY <1>2, <2>1, <2>3, <3>3, UnitsAssumption, SMTT(30) DEF IsBlank
  <2>4. QED
    BY <1>4, <2>2, <2>3 DEF EndAt
<1>5. QED
  BY <1>2, <1>3, <1>4

\* It finds an end wherever there is one.
LEMMA EndIsFound ==
  ASSUME NEW A, NEW s \in Seq(A), NEW q \in Nat, EndAt(s, q)
  PROVE  EventEnds(s) # {}
<1>1. Len(s) \in Nat /\ 2 <= q /\ q <= Len(s) /\ s[q] = LF
  BY DEF EndAt
<1>2. BlankLines(s) # {}
  <2>1. CASE s[q - 1] = LF
    <3>1. PICK f : f = <<q - 2, 2>>
      OBVIOUS
    <3>2. f \in (0..Len(s)) \X {2, 3, 4} /\ f[1] = q - 2 /\ f[2] = 2
      BY <1>1, <3>1
    <3>3. q - 2 + 1 = q - 1 /\ q - 2 + 2 = q
      BY <1>1
    <3>4. f \in BlankLines(s)
      BY <1>1, <2>1, <3>2, <3>3, BlankLinesAre DEF IsBlank
    <3>5. QED
      BY <3>4
  <2>2. CASE 3 <= q /\ s[q - 1] = CR /\ s[q - 2] = LF
    <3>1. PICK f : f = <<q - 3, 3>>
      OBVIOUS
    <3>2. f \in (0..Len(s)) \X {2, 3, 4} /\ f[1] = q - 3 /\ f[2] = 3
      BY <1>1, <2>2, <3>1
    <3>3. q - 3 + 1 = q - 2 /\ q - 3 + 2 = q - 1 /\ q - 3 + 3 = q
      BY <1>1
    <3>4. f \in BlankLines(s)
      BY <1>1, <2>2, <3>2, <3>3, BlankLinesAre DEF IsBlank
    <3>5. QED
      BY <3>4
  <2>3. QED
    BY <2>1, <2>2 DEF EndAt
<1>3. PICK T : T = {f[1] : f \in BlankLines(s)}
  OBVIOUS
<1>4. T \subseteq Nat /\ T # {}
  BY <1>2, <1>3, BlankLinesAre
<1>5. PICK i \in T : \A j \in T : i <= j
  BY <1>4, LeastElement
<1>6. PICK e \in BlankLines(s) : e[1] = i
  BY <1>3, <1>5
<1>7. ASSUME NEW g \in BlankLines(s) PROVE e[1] < g[1] \/ (e[1] = g[1] /\ e[2] >= g[2])
  <2>1. e[1] <= g[1] /\ e[1] \in Nat /\ g[1] \in Nat
    BY <1>3, <1>4, <1>5, <1>6
  <2>2. e[1] = g[1] => e[2] = g[2]
    BY <2>1, BlankLinesAre, UnitsAssumption DEF IsBlank
  <2>3. e[2] \in {2, 3, 4}
    BY BlankLinesAre
  <2>4. QED
    BY <2>1, <2>2, <2>3
<1>8. e \in EventEnds(s)
  BY <1>6, <1>7 DEF EventEnds
<1>9. QED
  BY <1>8

-----------------------------------------------------------------------------
(* What is forwarded for an event. *)

LEMMA LeastIsMin ==
  ASSUME NEW T, T \subseteq Nat, T # {}
  PROVE  Min(T) \in T /\ \A y \in T : Min(T) <= y
<1>1. \E x \in T : \A y \in T : x <= y
  BY LeastElement
<1>2. QED
  BY <1>1, Zenon DEF Min

\* A rewritten event names this proxy.
LEMMA RewrittenIsLocal ==
  ASSUME NEW A, NEW s \in Seq(A), DataFields(s) # {}
  PROVE  LocalData \in Range(Rewritten(s))
<1> DEFINE first == FirstData(s)
           end   == Len(LineAt(s, first)) + first
           kept  == {i \in DOMAIN s : \/ ~DataLine(s, i)
                                      \/ i = first
                                      \/ i >= end /\ LF \notin Range(SubSeq(s, first, i - 1))}
           upto(i) == {j \in kept : j <= i}
           sent  == [k \in 1..Cardinality(kept) |->
                       LET i == CHOOSE i \in kept : Cardinality(upto(i)) = k
                       IN  IF i = first THEN LocalData ELSE s[i]]
<1>1. Rewritten(s) = sent
  BY Zenon DEF Rewritten
<1>2. first \in DOMAIN s
  <2>1. DataFields(s) \subseteq DOMAIN s /\ DataFields(s) \subseteq Nat
    BY DEF DataFields, LineStarts
  <2>2. QED
    BY <2>1, LeastIsMin DEF FirstData
<1> HIDE DEF first, end
<1>3. first \in kept /\ kept \subseteq 1..Len(s) /\ Len(s) \in Nat
  BY <1>2
<1> HIDE DEF kept
<1>4. IsFiniteSet(kept)
  <2>1. IsFiniteSet(1..Len(s))
    BY <1>3, FS_Interval
  <2>2. QED
    BY <1>3, <2>1, FS_Subset
<1>5. ASSUME NEW i \in kept PROVE IsFiniteSet(upto(i)) /\ Cardinality(upto(i)) <= Cardinality(kept)
  BY <1>4, FS_Subset
<1>6. Cardinality(upto(first)) \in 1..Cardinality(kept)
  <2>1. Cardinality(upto(first)) \in Nat /\ Cardinality(kept) \in Nat
    BY <1>3, <1>4, <1>5, FS_CardinalityType
  <2>2. upto(first) # {}
    BY <1>3
  <2>3. Cardinality(upto(first)) # 0
    BY <1>3, <1>5, <2>2, FS_EmptySet
  <2>4. QED
    BY <1>3, <1>5, <2>1, <2>3
<1>7. ASSUME NEW i \in kept, Cardinality(upto(i)) = Cardinality(upto(first)) PROVE i = first
  <2>1. i \in Nat /\ first \in Nat
    BY <1>3
  <2>2. CASE i <= first
    <3>1. upto(i) \subseteq upto(first)
      <4>1. \A j \in kept : j \in Nat /\ (j <= i => j <= first)
        BY <1>3, <2>1, <2>2
      <4>2. QED
        BY <4>1
    <3>2. upto(i) = upto(first)
      BY <1>3, <1>5, <1>7, <3>1, FS_Subset
    <3>3. first \in upto(first)
      BY <1>3
    <3>4. QED
      BY <2>1, <2>2, <3>2, <3>3
  <2>3. CASE first <= i
    <3>1. upto(first) \subseteq upto(i)
      <4>1. \A j \in kept : j \in Nat /\ (j <= first => j <= i)
        BY <1>3, <2>1, <2>3
      <4>2. QED
        BY <4>1
    <3>2. upto(i) = upto(first)
      BY <1>3, <1>5, <1>7, <3>1, FS_Subset
    <3>3. i \in upto(i)
      BY <1>3
    <3>4. QED
      BY <2>1, <2>3, <3>2, <3>3
  <2>4. QED
    BY <2>1, <2>2, <2>3
<1>8. (CHOOSE i \in kept : Cardinality(upto(i)) = Cardinality(upto(first))) = first
  BY <1>3, <1>7, Zenon
<1>9. sent[Cardinality(upto(first))] = LocalData
  BY <1>6, <1>8
<1>10. DOMAIN sent = 1..Cardinality(kept)
  OBVIOUS
<1>11. QED
  BY <1>1, <1>6, <1>9, <1>10, Zenon DEF Range

\* What is not forwarded as it came names this proxy.
LEMMA ForwardedIsLocal ==
  ASSUME NEW A, NEW raw \in Seq(A), NEW n \in 0..Len(raw),
         Forwarded(raw, SubSeq(raw, 1, n)) # raw
  PROVE  LocalData \in Range(Forwarded(raw, SubSeq(raw, 1, n)))
<1>1. PICK body : body = SubSeq(raw, 1, n)
  OBVIOUS
<1>2. body \in Seq(A) /\ Len(body) = n /\ DOMAIN body = 1..n /\ \A i \in 1..n : body[i] = raw[i]
  BY <1>1
<1>3. IsUri(body) /\ Forwarded(raw, body) = Rewritten(raw)
  BY <1>1 DEF Forwarded
<1>4. PICK T : T = {i \in DataFields(body) : body[i] = Data}
  OBVIOUS
<1>5. T # {}
  <2>1. Cardinality(T) = 1
    BY <1>3, <1>4 DEF IsUri
  <2>2. Cardinality({}) = 0
    BY FS_EmptySet
  <2>3. QED
    BY <2>1, <2>2
<1>6. PICK i \in DataFields(body) : TRUE
  BY <1>4, <1>5
<1>7. i \in LineStarts(body) /\ i <= n /\ body[i] \in {Data, NoData} /\ i \in 1..n
  BY <1>2, <1>6 DEF DataFields, LineStarts
<1>8. LineStarts(body) \subseteq LineStarts(raw)
  BY <1>2 DEF LineStarts
<1>9. i \in DataFields(raw)
  BY <1>2, <1>7, <1>8 DEF DataFields
<1>10. LocalData \in Range(Rewritten(raw))
  BY <1>9, RewrittenIsLocal
<1>11. QED
  BY <1>1, <1>3, <1>10

-----------------------------------------------------------------------------
(* Where everything is. *)

\* How much of the stream the pieces hold.
Pos == fed - Len(chunk) - Len(buf)

Types ==
  /\ stream \in Seq(StreamUnits) /\ fed \in 0..Len(stream)
  /\ chunk \in Seq(StreamUnits) /\ buf \in Seq(StreamUnits)
  /\ resyncing \in BOOLEAN /\ pc \in {"idle", "feed", "ended"}
  /\ pieces \in Seq(Range(pieces))
  /\ \A k \in 1..Len(pieces) : pieces[k].raw \in Seq(StreamUnits) /\ pieces[k].event \in BOOLEAN

\* Pieces, buffer and chunk are the stream, one behind the other.
PlaceInv ==
  /\ 0 <= Pos
  /\ \A i \in 1..Len(buf) : buf[i] = stream[Pos + i]
  /\ \A i \in 1..Len(chunk) : chunk[i] = stream[Pos + Len(buf) + i]
  /\ Units(Len(pieces)) = SubSeq(stream, 1, Pos)

\* The buffer is bounded, and while the parser resynchronises it holds no more
\* than what a cut terminator needs.
BufferInv ==
  /\ Len(buf) <= MaxEvent + 1
  /\ pc # "feed" => chunk = <<>>
  /\ pc = "ended" => buf = <<>>
  /\ resyncing /\ pc # "ended" => Len(buf) = Lookbehind

\* Only events are rewritten.
SentInv ==
  \A k \in 1..Len(pieces) :
    pieces[k].sent # pieces[k].raw => pieces[k].event /\ LocalData \in Range(pieces[k].sent)

KeptInv == Types /\ PlaceInv /\ BufferInv /\ SentInv

LEMMA UnitsTyped ==
  ASSUME Types, NEW n \in 0..Len(pieces)
  PROVE  [k \in 1..n |-> pieces[k].raw] \in Seq(Seq(StreamUnits)) /\ Units(n) \in Seq(StreamUnits)
<1>1. Len(pieces) \in Nat /\ n \in Nat
  BY DEF Types
<1>2. PICK s : s = [k \in 1..n |-> pieces[k].raw]
  OBVIOUS
<1>3. s \in Seq(Seq(StreamUnits))
  BY <1>1, <1>2 DEF Types
<1>4. FlattenSeq(s) \in Seq(StreamUnits)
  <2>1. <<>> \in Seq(StreamUnits)
    OBVIOUS
  <2>2. QED
    BY <1>3, <2>1, FlattenAppend
<1>5. QED
  BY <1>2, <1>3, <1>4 DEF Units

\* One piece more.
LEMMA UnitsGrow ==
  ASSUME Types, NEW p, p.raw \in Seq(StreamUnits), pieces' = Append(pieces, p)
  PROVE  /\ Len(pieces') = Len(pieces) + 1 /\ pieces'[Len(pieces) + 1] = p
         /\ \A k \in 1..Len(pieces) : pieces'[k] = pieces[k]
         /\ pieces' \in Seq(Range(pieces'))
         /\ \A n \in 0..Len(pieces) : Units(n)' = Units(n)
         /\ Units(Len(pieces))' = Units(Len(pieces)) \o p.raw
<1>1. pieces \in Seq(Range(pieces) \cup {p}) /\ Len(pieces) \in Nat
  BY DEF Types
<1>2. /\ pieces' \in Seq(Range(pieces) \cup {p})
      /\ Len(pieces') = Len(pieces) + 1 /\ pieces'[Len(pieces) + 1] = p
      /\ \A k \in 1..Len(pieces) : pieces'[k] = pieces[k]
  BY <1>1, AppendProperties
<1>3. pieces' \in Seq(Range(pieces'))
  BY <1>2, SeqOfRange
<1>4. ASSUME NEW n \in 0..Len(pieces) PROVE Units(n)' = Units(n)
  <2>1. \A k \in 1..n : pieces'[k].raw = pieces[k].raw
    BY <1>1, <1>2
  <2>2. [k \in 1..n |-> pieces'[k].raw] = [k \in 1..n |-> pieces[k].raw]
    BY <2>1
  <2>3. QED
    BY <2>2, Zenon DEF Units
<1>5. Units(Len(pieces))' = Units(Len(pieces)) \o p.raw
  <2>1. PICK n : n = Len(pieces)
    OBVIOUS
  <2>2. PICK s : s = [k \in 1..n |-> pieces[k].raw]
    OBVIOUS
  <2>3. s \in Seq(Seq(StreamUnits)) /\ Len(s) = n /\ n \in Nat
    BY <1>1, <2>1, <2>2, UnitsTyped
  <2>4. PICK t : t = [k \in 1..(n + 1) |-> pieces'[k].raw]
    OBVIOUS
  <2>5. t = Append(s, p.raw)
    <3>1. \A k \in 1..(n + 1) : t[k] = IF k = n + 1 THEN p.raw ELSE s[k]
      BY <1>2, <2>1, <2>2, <2>3, <2>4
    <3>2. t \in Seq(Seq(StreamUnits)) /\ Len(t) = n + 1
      <4>1. \A k \in 1..n : s[k] \in Seq(StreamUnits)
        BY <2>3
      <4>2. \A k \in 1..(n + 1) : t[k] \in Seq(StreamUnits)
        BY <2>3, <3>1, <4>1
      <4>3. PICK m : m = n + 1
        OBVIOUS
      <4>4. DOMAIN t = 1..m /\ t = [k \in 1..m |-> t[k]]
        BY <2>4, <4>3
      <4>5. t \in [1..m -> Seq(StreamUnits)]
        BY <4>2, <4>3, <4>4
      <4>6. QED
        BY <2>3, <4>3, <4>5
    <3>3. /\ Append(s, p.raw) \in Seq(Seq(StreamUnits)) /\ Len(Append(s, p.raw)) = n + 1
          /\ \A k \in 1..n : Append(s, p.raw)[k] = s[k]
          /\ Append(s, p.raw)[n + 1] = p.raw
      BY <2>3
    <3>4. \A k \in 1..(n + 1) : t[k] = Append(s, p.raw)[k]
      BY <2>3, <3>1, <3>3
    <3>5. QED
      BY <3>2, <3>3, <3>4, SeqEqual
  <2>6. FlattenSeq(t) = FlattenSeq(s) \o p.raw
    BY <2>3, <2>5, FlattenAppend
  <2>7. FlattenSeq(s) = Units(Len(pieces)) /\ FlattenSeq(t) = Units(Len(pieces))'
    <3>1. FlattenSeq(s) = Units(n)
      BY <2>2, Zenon DEF Units
    <3>2. n + 1 = Len(pieces')
      BY <1>2, <2>1
    <3>3. FlattenSeq(t) = Units(Len(pieces))'
      BY <2>4, <3>2, Zenon DEF Units
    <3>4. QED
      BY <2>1, <3>1, <3>3, Zenon
  <2>8. QED
    BY <2>6, <2>7
<1>6. QED
  BY <1>2, <1>3, <1>4, <1>5

\* What is in the buffer and what is put behind it is read off the stream.
LEMMA Gathered ==
  ASSUME Types, PlaceInv, NEW m \in 0..Len(chunk)
  PROVE  /\ buf \o SubSeq(chunk, 1, m) \in Seq(StreamUnits)
         /\ Len(buf \o SubSeq(chunk, 1, m)) = Len(buf) + m
         /\ \A i \in 1..(Len(buf) + m) : (buf \o SubSeq(chunk, 1, m))[i] = stream[Pos + i]
<1>1. Len(buf) \in Nat /\ Len(chunk) \in Nat /\ fed \in Nat /\ Pos \in Int
  BY DEF Types, Pos
<1>2. PICK t : t = SubSeq(chunk, 1, m)
  OBVIOUS
<1>3. t \in Seq(StreamUnits) /\ Len(t) = m /\ \A i \in 1..m : t[i] = chunk[i]
  <2>1. chunk \in Seq(StreamUnits) /\ m \in Int /\ \A i \in 1..m : chunk[i] \in StreamUnits
    BY <1>1 DEF Types
  <2>2. QED
    BY <1>2, <2>1, SubSeqProperties
<1>4. PICK s : s = buf \o t
  OBVIOUS
<1>5. /\ s \in Seq(StreamUnits) /\ Len(s) = Len(buf) + m
      /\ \A i \in 1..(Len(buf) + m) : s[i] = IF i <= Len(buf) THEN buf[i] ELSE t[i - Len(buf)]
  <2>1. buf \in Seq(StreamUnits)
    BY DEF Types
  <2>2. /\ buf \o t \in Seq(StreamUnits) /\ Len(buf \o t) = Len(buf) + Len(t)
        /\ \A i \in 1..Len(buf) + Len(t) :
             (buf \o t)[i] = IF i <= Len(buf) THEN buf[i] ELSE t[i - Len(buf)]
    BY <1>3, <2>1, ConcatProperties
  <2>3. QED
    BY <1>3, <1>4, <2>2
<1>6. ASSUME NEW i \in 1..(Len(buf) + m) PROVE s[i] = stream[Pos + i]
  <2>1. CASE i <= Len(buf)
    BY <1>1, <1>5, <2>1 DEF PlaceInv
  <2>2. CASE ~(i <= Len(buf))
    <3>1. i - Len(buf) \in 1..m /\ i - Len(buf) \in 1..Len(chunk)
      BY <1>1, <2>2
    <3>2. Pos + Len(buf) + (i - Len(buf)) = Pos + i
      BY <1>1
    <3>3. QED
      BY <1>3, <1>5, <2>2, <3>1, <3>2 DEF PlaceInv
  <2>3. QED
    BY <2>1, <2>2
<1>7. QED
  BY <1>2, <1>4, <1>5, <1>6

\* m units of the chunk are put behind the buffer, and n of these units handed
\* back as piece p.
Moves(m, n, p) ==
  LET s == buf \o SubSeq(chunk, 1, m)
  IN  /\ buf' = Drop(s, n) /\ chunk' = Drop(chunk, m)
      /\ UNCHANGED <<stream, fed>>
      /\ \/ n = 0 /\ pieces' = pieces
         \/ pieces' = Append(pieces, p) /\ p.raw = SubSeq(s, 1, n)

LEMMA DropIs ==
  ASSUME NEW A, NEW s \in Seq(A), NEW n \in 0..Len(s)
  PROVE  /\ Drop(s, n) \in Seq(A) /\ Len(Drop(s, n)) = Len(s) - n
         /\ \A i \in 1..(Len(s) - n) : Drop(s, n)[i] = s[n + i]
<1>1. Len(s) \in Nat /\ n + 1 \in Int /\ \A i \in (n + 1)..Len(s) : s[i] \in A
  OBVIOUS
<1>2. /\ SubSeq(s, n + 1, Len(s)) \in Seq(A)
      /\ Len(SubSeq(s, n + 1, Len(s))) = IF n + 1 <= Len(s) THEN Len(s) - (n + 1) + 1 ELSE 0
      /\ \A i \in 1..(Len(s) - (n + 1) + 1) : SubSeq(s, n + 1, Len(s))[i] = s[(n + 1) + i - 1]
  BY <1>1, SubSeqProperties
<1>3. Len(s) - (n + 1) + 1 = Len(s) - n /\ \A i \in 1..(Len(s) - n) : (n + 1) + i - 1 = n + i
  BY <1>1
<1>4. QED
  BY <1>1, <1>2, <1>3 DEF Drop

\* Every such move keeps all units in their places.
LEMMA MoveKeeps ==
  ASSUME Types, PlaceInv, NEW m \in 0..Len(chunk), NEW n \in 0..(Len(buf) + m), NEW p,
         Moves(m, n, p)
  PROVE  /\ Pos' = Pos + n /\ PlaceInv'
         /\ buf' \in Seq(StreamUnits) /\ chunk' \in Seq(StreamUnits)
         /\ Len(buf') = Len(buf) + m - n /\ Len(chunk') = Len(chunk) - m
         /\ pieces' # pieces => p.raw \in Seq(StreamUnits) /\ Len(p.raw) = n
<1>1. Len(buf) \in Nat /\ Len(chunk) \in Nat /\ fed \in Nat /\ Pos \in Nat /\ chunk \in Seq(StreamUnits)
  BY DEF Types, PlaceInv, Pos
<1>2. PICK s : s = buf \o SubSeq(chunk, 1, m)
  OBVIOUS
<1>3. s \in Seq(StreamUnits) /\ Len(s) = Len(buf) + m /\ \A i \in 1..Len(s) : s[i] = stream[Pos + i]
  BY <1>2, Gathered
<1>4. /\ buf' = Drop(s, n) /\ chunk' = Drop(chunk, m) /\ stream' = stream /\ fed' = fed
      /\ \/ n = 0 /\ pieces' = pieces
         \/ pieces' = Append(pieces, p) /\ p.raw = SubSeq(s, 1, n)
  BY <1>2 DEF Moves
<1>5. /\ buf' \in Seq(StreamUnits) /\ Len(buf') = Len(buf) + m - n
      /\ \A i \in 1..Len(buf') : buf'[i] = s[n + i]
  <2>1. n \in 0..Len(s)
    BY <1>3
  <2>2. /\ Drop(s, n) \in Seq(StreamUnits) /\ Len(Drop(s, n)) = Len(s) - n
        /\ \A i \in 1..(Len(s) - n) : Drop(s, n)[i] = s[n + i]
    BY <1>3, <2>1, DropIs
  <2>3. QED
    BY <1>3, <1>4, <2>2
<1>6. /\ chunk' \in Seq(StreamUnits) /\ Len(chunk') = Len(chunk) - m
      /\ \A i \in 1..Len(chunk') : chunk'[i] = chunk[m + i]
  BY <1>1, <1>4, DropIs
<1>7. Pos' = Pos + n
  BY <1>1, <1>4, <1>5, <1>6 DEF Pos
<1>8. \A i \in 1..Len(buf') : buf'[i] = stream'[Pos' + i]
  <2>1. ASSUME NEW i \in 1..Len(buf') PROVE buf'[i] = stream[Pos' + i]
    <3>1. n + i \in 1..Len(s) /\ Pos + (n + i) = Pos' + i
      BY <1>1, <1>3, <1>5, <1>7
    <3>2. QED
      BY <1>3, <1>5, <3>1
  <2>2. QED
    BY <1>4, <2>1
<1>9. \A i \in 1..Len(chunk') : chunk'[i] = stream'[Pos' + Len(buf') + i]
  <2>1. ASSUME NEW i \in 1..Len(chunk') PROVE chunk'[i] = stream[Pos' + Len(buf') + i]
    <3>1. m + i \in 1..Len(chunk) /\ Pos + Len(buf) + (m + i) = Pos' + Len(buf') + i
      BY <1>1, <1>5, <1>6, <1>7
    <3>2. QED
      BY <1>6, <3>1 DEF PlaceInv
  <2>2. QED
    BY <1>4, <2>1
<1>10. Pos + n \in 0..Len(stream)
  BY <1>1, <1>5, <1>6, <1>7, <1>4 DEF Types, Pos
<1>11. Units(Len(pieces))' = SubSeq(stream, 1, Pos + n)
  <2>1. CASE n = 0 /\ pieces' = pieces
    <3>1. Units(Len(pieces))' = Units(Len(pieces))
      BY <2>1 DEF Units
    <3>2. Pos + n = Pos
      BY <1>1, <2>1
    <3>3. QED
      BY <3>1, <3>2 DEF PlaceInv
  <2>2. CASE pieces' = Append(pieces, p) /\ p.raw = SubSeq(s, 1, n)
    <3>1. p.raw \in Seq(StreamUnits) /\ Len(p.raw) = n /\ \A i \in 1..n : p.raw[i] = s[i]
      <4>1. n \in Int /\ \A i \in 1..n : s[i] \in StreamUnits
        BY <1>3
      <4>2. QED
        BY <1>3, <2>2, <4>1, SubSeqProperties
    <3>2. Units(Len(pieces))' = Units(Len(pieces)) \o p.raw
      BY <2>2, <3>1, UnitsGrow
    <3>3. PICK t : t = SubSeq(stream, Pos + 1, Pos + n)
      OBVIOUS
    <3>4. t \in Seq(StreamUnits) /\ Len(t) = n /\ \A i \in 1..n : t[i] = stream[Pos + i]
      <4>1. Pos + 1 \in Int /\ Pos + n \in Int /\ \A i \in (Pos + 1)..(Pos + n) : stream[i] \in StreamUnits
        BY <1>1, <1>10 DEF Types
      <4>2. (Pos + n) - (Pos + 1) + 1 = n /\ \A i \in 1..n : (Pos + 1) + i - 1 = Pos + i
        BY <1>1
      <4>3. QED
        BY <1>1, <3>3, <4>1, <4>2, SubSeqProperties, SMTT(30)
    <3>5. p.raw = t
      BY <1>3, <3>1, <3>4, SeqEqual, SMTT(30)
    <3>6. SubSeq(stream, 1, Pos) \o SubSeq(stream, Pos + 1, Pos + n) = SubSeq(stream, 1, Pos + n)
      <4>1. Pos \in 0..Len(stream) /\ stream \in Seq(StreamUnits) /\ Pos + n \in Pos..Len(stream)
        BY <1>1, <1>10 DEF Types
      <4>2. 1 \in 1..(Len(stream) + 1) /\ 1 - 1 = 0
        BY <4>1
      <4>3. QED
        BY <4>1, <4>2, ConcatAdjacentSubSeq
    <3>7. QED
      BY <3>2, <3>3, <3>5, <3>6 DEF PlaceInv
  <2>3. QED
    BY <1>4, <2>1, <2>2
<1>12. PlaceInv'
  BY <1>1, <1>4, <1>7, <1>8, <1>9, <1>11 DEF PlaceInv
<1>13. pieces' # pieces => p.raw \in Seq(StreamUnits) /\ Len(p.raw) = n
  <2>1. n \in Int /\ \A i \in 1..n : s[i] \in StreamUnits
    BY <1>3
  <2>2. SubSeq(s, 1, n) \in Seq(StreamUnits) /\ Len(SubSeq(s, 1, n)) = n
    BY <2>1, SubSeqProperties
  <2>3. QED
    BY <1>4, <2>2
<1>14. QED
  BY <1>5, <1>6, <1>7, <1>12, <1>13

-----------------------------------------------------------------------------
(* Each turn of the loop is such a move. *)

LEMMA RoomIs ==
  ASSUME KeptInv
  PROVE  /\ Room \in 0..Len(chunk) /\ Len(buf) + Room <= MaxEvent + 1
         /\ Room = Len(chunk) \/ Len(buf) + Room = MaxEvent + 1
<1>1. /\ Len(buf) \in Nat /\ Len(chunk) \in Nat /\ MaxEvent \in Nat
      /\ Len(buf) <= MaxEvent + 1
  BY MaxEventAssumption DEF KeptInv, Types, BufferInv
<1>2. PICK T : T = {MaxEvent + 1 - Len(buf), Len(chunk)}
  OBVIOUS
<1>3. T \subseteq Nat /\ T # {}
  BY <1>1, <1>2
<1>4. Min(T) \in T /\ \A y \in T : Min(T) <= y
  BY <1>3, LeastIsMin
<1>5. QED
  BY <1>1, <1>2, <1>4 DEF Room

LEMMA KeptBackIs ==
  ASSUME NEW A, NEW s \in Seq(A)
  PROVE  /\ KeptBack(s) \in 0..Len(s) /\ KeptBack(s) <= 3
         /\ Len(s) >= 3 => KeptBack(s) = 3
<1>1. PICK T : T = {Lookbehind, Len(s)}
  OBVIOUS
<1>2. T \subseteq Nat /\ T # {} /\ T = {3, Len(s)} /\ Len(s) \in Nat
  BY <1>1 DEF Lookbehind
<1>3. Min(T) \in T /\ \A y \in T : Min(T) <= y
  BY <1>2, LeastIsMin
<1>4. QED
  BY <1>1, <1>2, <1>3 DEF KeptBack

\* Without units from the chunk.
LEMMA NoUnits ==
  ASSUME Types
  PROVE  /\ buf \o SubSeq(chunk, 1, 0) = buf /\ Drop(chunk, 0) = chunk
         /\ Drop(buf, 0) = buf /\ Drop(buf, Len(buf)) = <<>>
         /\ SubSeq(buf, 1, Len(buf)) = buf
<1>1. buf \in Seq(StreamUnits) /\ chunk \in Seq(StreamUnits)
  BY DEF Types
<1>2. SubSeq(chunk, 1, 0) = <<>>
  BY SubSeqEmpty
<1>3. ASSUME NEW s \in Seq(StreamUnits) PROVE Drop(s, 0) = s /\ SubSeq(s, 1, Len(s)) = s
  BY SubSeqFull DEF Drop
<1>4. Drop(buf, Len(buf)) = <<>>
  <2>1. Len(buf) + 1 \in Int /\ Len(buf) \in Int /\ Len(buf) < Len(buf) + 1
    BY <1>1
  <2>2. QED
    BY <2>1, SubSeqEmpty DEF Drop
<1>5. QED
  BY <1>1, <1>2, <1>3, <1>4, ConcatEmptySeq

\* What find_event_end returns is a place in the stream.
StreamEnd(b, q) ==
  /\ b + 2 <= q /\ stream[q] = LF
  /\ \/ stream[q - 1] = LF
     \/ b + 3 <= q /\ stream[q - 1] = CR /\ stream[q - 2] = LF

LEMMA EndInStream ==
  ASSUME NEW A, NEW s \in Seq(A), NEW b \in Nat, \A i \in 1..Len(s) : s[i] = stream[b + i],
         NEW q \in 0..Len(s)
  PROVE  EndAt(s, q) <=> StreamEnd(b, b + q)
<1>1. Len(s) \in Nat /\ (2 <= q <=> b + 2 <= b + q) /\ (3 <= q <=> b + 3 <= b + q)
  OBVIOUS
<1>2. 2 <= q => s[q] = stream[b + q] /\ s[q - 1] = stream[(b + q) - 1]
  <2>1. 2 <= q => q \in 1..Len(s) /\ q - 1 \in 1..Len(s) /\ b + (q - 1) = (b + q) - 1
    BY <1>1
  <2>2. QED
    BY <2>1
<1>3. 3 <= q => s[q - 2] = stream[(b + q) - 2]
  <2>1. 3 <= q => q - 2 \in 1..Len(s) /\ b + (q - 2) = (b + q) - 2
    BY <1>1
  <2>2. QED
    BY <2>1
<1>4. QED
  BY <1>1, <1>2, <1>3 DEF EndAt, StreamEnd

\* The units up to q hold no end of an event that begins behind b.
NoEnd(b, q) == \A x \in 0..q : ~StreamEnd(b, x)

\* The first end of an event that begins behind b is d.
First(b, d) == StreamEnd(b, d) /\ NoEnd(b, d - 1)

LEMMA EndsInStream ==
  ASSUME NEW A, NEW s \in Seq(A), NEW b \in Nat, \A i \in 1..Len(s) : s[i] = stream[b + i]
  PROVE  /\ EventEnds(s) = {} => NoEnd(b, b + Len(s))
         /\ \A e \in EventEnds(s) :
              /\ e[1] \in 0..Len(s) /\ e[1] + e[2] \in 2..Len(s) /\ First(b, b + (e[1] + e[2]))
<1>1. Len(s) \in Nat
  OBVIOUS
<1>2. ASSUME NEW q \in Nat, q <= b + 1 PROVE ~StreamEnd(b, q)
  BY <1>2 DEF StreamEnd
<1>3. ASSUME EventEnds(s) = {}, NEW x \in 0..(b + Len(s)), StreamEnd(b, x) PROVE FALSE
  <2>1. b + 2 <= x
    BY <1>3 DEF StreamEnd
  <2>2. PICK q \in 0..Len(s) : x = b + q
    <3>1. x - b \in 0..Len(s) /\ x = b + (x - b)
      BY <1>1, <2>1
    <3>2. QED
      BY <3>1
  <2>3. EndAt(s, q)
    BY <1>3, <2>2, EndInStream
  <2>4. QED
    BY <1>3, <2>3, EndIsFound
<1>4. ASSUME NEW e \in EventEnds(s)
      PROVE  /\ e[1] \in 0..Len(s) /\ e[1] + e[2] \in 2..Len(s)
             /\ First(b, b + (e[1] + e[2]))
  <2>1. /\ e[1] \in Nat /\ e[2] \in Nat /\ 2 <= e[2] /\ e[1] + e[2] <= Len(s)
        /\ EndAt(s, e[1] + e[2])
        /\ \A q \in 0..(e[1] + e[2] - 1) : ~EndAt(s, q)
    BY EndIsFirst
  <2>2. PICK n : n = e[1] + e[2]
    OBVIOUS
  <2>3. n \in 2..Len(s) /\ n \in 0..Len(s) /\ EndAt(s, n) /\ \A q \in 0..(n - 1) : ~EndAt(s, q)
    BY <1>1, <2>1, <2>2
  <2>4. StreamEnd(b, b + n)
    BY <2>3, EndInStream
  <2>5. ASSUME NEW x \in 0..((b + n) - 1), StreamEnd(b, x) PROVE FALSE
    <3>1. b + 2 <= x
      BY <2>5 DEF StreamEnd
    <3>2. PICK q \in 0..(n - 1) : x = b + q
      <4>1. x - b \in 0..(n - 1) /\ x = b + (x - b)
        BY <2>3, <3>1
      <4>2. QED
        BY <4>1
    <3>3. q \in 0..Len(s)
      BY <1>1, <2>3
    <3>4. EndAt(s, q)
      BY <2>5, <3>2, <3>3, EndInStream
    <3>5. QED
      BY <2>3, <3>4
  <2>6. First(b, b + n)
    <3>1. NoEnd(b, (b + n) - 1)
      BY <2>5, Zenon DEF NoEnd
    <3>2. QED
      BY <2>4, <3>1, Zenon DEF First
  <2>7. QED
    BY <1>1, <2>1, <2>2, <2>3, <2>6
<1>5. QED
  BY <1>3, <1>4 DEF NoEnd

\* What a move needs to keep: a piece that is not forwarded as it came is an
\* event's and names this proxy.
Fair(p) ==
  p.event \in BOOLEAN /\ (p.sent # p.raw => p.event /\ LocalData \in Range(p.sent))

\* feed, resyncing: either the first end behind the units so far is found, or
\* all but what a cut terminator needs is passed on.
LEMMA ResyncMoves ==
  ASSUME KeptInv, Resync
  PROVE  \E m, n, p :
           /\ m \in 0..Len(chunk)
           /\ n \in 0..(Len(buf) + m) /\ Moves(m, n, p) /\ Fair(p) /\ ~p.event
           /\ Len(buf) + m <= MaxEvent + 1
           /\ resyncing /\ pc = "feed"
           /\ \/ /\ pieces' = Append(pieces, p) /\ First(Pos, Pos + n)
                 /\ resyncing' = FALSE /\ pc' = "feed"
              \/ /\ NoEnd(Pos, Pos + (Len(buf) + m)) /\ n = Len(buf) + m - 3
                 /\ resyncing' = TRUE
                 /\ pc' = IF m = Len(chunk) THEN "idle" ELSE "feed"
<1>1. /\ Types /\ PlaceInv /\ Room \in 0..Len(chunk) /\ Len(buf) + Room <= MaxEvent + 1
      /\ Len(buf) = 3 /\ pc = "feed" /\ resyncing
      /\ Pos \in Nat
  BY RoomIs DEF KeptInv, BufferInv, Resync, Lookbehind, PlaceInv, Types, Pos
<1>2. PICK m : m = Room
  OBVIOUS
<1>3. PICK s : s = buf \o SubSeq(chunk, 1, m)
  OBVIOUS
<1>4. s \in Seq(StreamUnits) /\ Len(s) = Len(buf) + m /\ \A i \in 1..Len(s) : s[i] = stream[Pos + i]
  BY <1>1, <1>2, <1>3, Gathered
<1>5. /\ chunk' = Drop(chunk, m) /\ stream' = stream /\ fed' = fed
      /\ \/ \E e \in EventEnds(s) :
              /\ pieces' = Append(pieces, Passed(SubSeq(s, 1, e[1] + e[2])))
              /\ buf' = Drop(s, e[1] + e[2])
              /\ resyncing' = FALSE
              /\ pc' = pc
         \/ /\ EventEnds(s) = {}
            /\ PassOn(s, pieces)
            /\ pc' = IF m = Len(chunk) THEN "idle" ELSE "feed"
            /\ resyncing' = resyncing
  BY <1>2, <1>3, Zenon DEF Resync
<1>6. ASSUME NEW n PROVE Fair(Passed(SubSeq(s, 1, n))) /\ ~Passed(SubSeq(s, 1, n)).event
  BY DEF Fair, Passed
<1>7. CASE EventEnds(s) # {}
  <2>1. PICK e \in EventEnds(s) :
          /\ pieces' = Append(pieces, Passed(SubSeq(s, 1, e[1] + e[2])))
          /\ buf' = Drop(s, e[1] + e[2])
          /\ resyncing' = FALSE
          /\ pc' = pc
    BY <1>5, <1>7
  <2>2. PICK n : n = e[1] + e[2]
    OBVIOUS
  <2>3. n \in 0..(Len(buf) + m) /\ First(Pos, Pos + n)
    <3>1. e[1] + e[2] \in 2..Len(s) /\ First(Pos, Pos + (e[1] + e[2]))
      BY <1>1, <1>4, EndsInStream
    <3>2. QED
      BY <1>1, <1>4, <2>2, <3>1
  <2>4. PICK p : p = Passed(SubSeq(s, 1, n))
    OBVIOUS
  <2>5. p.raw = SubSeq(s, 1, n)
    BY <2>4 DEF Passed
  <2>6. Moves(m, n, p)
    BY <1>3, <1>5, <2>1, <2>2, <2>4, <2>5 DEF Moves
  <2>7. QED
    BY <1>1, <1>2, <1>6, <2>1, <2>2, <2>3, <2>4, <2>6
<1>8. CASE EventEnds(s) = {}
  <2>1. /\ PassOn(s, pieces)
        /\ pc' = IF m = Len(chunk) THEN "idle" ELSE "feed"
        /\ resyncing' = resyncing
    BY <1>5, <1>8
  <2>2. PICK n : n = Len(s) - KeptBack(s)
    OBVIOUS
  <2>3. n = Len(buf) + m - 3 /\ n \in 0..(Len(buf) + m)
    BY <1>1, <1>2, <1>4, <2>2, KeptBackIs
  <2>4. PICK p : p = Passed(SubSeq(s, 1, n))
    OBVIOUS
  <2>5. p.raw = SubSeq(s, 1, n)
    BY <2>4 DEF Passed
  <2>6. buf' = Drop(s, n) /\ pieces' = IF n = 0 THEN pieces ELSE Append(pieces, p)
    BY <2>1, <2>2, <2>4, Zenon DEF PassOn
  <2>7. Moves(m, n, p)
    BY <1>3, <1>5, <2>5, <2>6 DEF Moves
  <2>8. NoEnd(Pos, Pos + (Len(buf) + m))
    BY <1>1, <1>4, <1>8, EndsInStream
  <2>9. QED
    BY <1>1, <1>2, <1>6, <2>1, <2>3, <2>4, <2>7, <2>8
<1>9. QED
  BY <1>7, <1>8

LEMMA PrefixOfPrefix ==
  ASSUME NEW A, NEW s \in Seq(A), NEW n \in 0..Len(s), NEW k \in 0..n
  PROVE  SubSeq(SubSeq(s, 1, n), 1, k) = SubSeq(s, 1, k)
<1>1. Len(s) \in Nat /\ n \in Int /\ k \in Int /\ k <= n /\ \A i \in 1..n : s[i] \in A
  OBVIOUS
<1>2. PICK t : t = SubSeq(s, 1, n)
  OBVIOUS
<1>3. t \in Seq(A) /\ Len(t) = n /\ \A i \in 1..n : t[i] = s[i]
  BY <1>1, <1>2, SubSeqProperties
<1>4. PICK u : u = SubSeq(t, 1, k)
  OBVIOUS
<1>5. u \in Seq(A) /\ Len(u) = k /\ \A i \in 1..k : u[i] = t[i]
  <2>1. \A i \in 1..k : t[i] \in A
    BY <1>1, <1>3
  <2>2. QED
    BY <1>1, <1>4, <2>1, SubSeqProperties
<1>6. PICK v : v = SubSeq(s, 1, k)
  OBVIOUS
<1>7. v \in Seq(A) /\ Len(v) = k /\ \A i \in 1..k : v[i] = s[i]
  <2>1. \A i \in 1..k : s[i] \in A
    BY <1>1
  <2>2. QED
    BY <1>1, <1>6, <2>1, SubSeqProperties
<1>8. u = v
  <2>1. \A i \in 1..k : u[i] = v[i]
    BY <1>1, <1>3, <1>5, <1>7
  <2>2. QED
    BY <1>5, <1>7, <2>1, SeqEqual
<1>9. QED
  BY <1>2, <1>4, <1>6, <1>8

\* feed: a complete event is taken, and read unless it is over the cap.
LEMMA TakeMoves ==
  ASSUME KeptInv, TakeEvent
  PROVE  \E n, p :
           /\ n \in 2..Len(buf) /\ Moves(0, n, p) /\ Fair(p) /\ (p.event <=> n <= MaxEvent)
           /\ pieces' = Append(pieces, p) /\ First(Pos, Pos + n)
           /\ ~resyncing /\ pc = "feed" /\ resyncing' = resyncing /\ pc' = pc
<1>1. /\ Types /\ PlaceInv /\ Pos \in Nat /\ buf \in Seq(StreamUnits) /\ MaxEvent \in Nat
      /\ \A i \in 1..Len(buf) : buf[i] = stream[Pos + i]
  BY MaxEventAssumption DEF KeptInv, PlaceInv, Types, Pos
<1>2. PICK e \in EventEnds(buf) :
        /\ pieces' = Append(pieces, IF Oversized(SubSeq(buf, 1, e[1] + e[2]))
                                    THEN Passed(SubSeq(buf, 1, e[1] + e[2]))
                                    ELSE Event(SubSeq(buf, 1, e[1] + e[2]), SubSeq(buf, 1, e[1])))
        /\ buf' = Drop(buf, Len(SubSeq(buf, 1, e[1] + e[2])))
  BY Zenon DEF TakeEvent
<1>3. /\ e[1] \in 0..Len(buf) /\ e[1] + e[2] \in 2..Len(buf) /\ First(Pos, Pos + (e[1] + e[2]))
      /\ e[2] \in Nat
  BY <1>1, EndsInStream, EndIsFirst
<1>4. PICK n : n = e[1] + e[2]
  OBVIOUS
<1>5. PICK raw : raw = SubSeq(buf, 1, n)
  OBVIOUS
<1>6. n \in 2..Len(buf) /\ raw \in Seq(StreamUnits) /\ Len(raw) = n
  <2>1. n \in Int /\ \A i \in 1..n : buf[i] \in StreamUnits
    BY <1>1, <1>3, <1>4
  <2>2. QED
    BY <1>1, <1>3, <1>4, <1>5, <2>1, SubSeqProperties
<1>7. PICK p : p = IF Oversized(raw) THEN Passed(raw) ELSE Event(raw, SubSeq(buf, 1, e[1]))
  OBVIOUS
<1>8. pieces' = Append(pieces, p) /\ buf' = Drop(buf, n)
  BY <1>2, <1>4, <1>5, <1>6, <1>7
<1>9. p.raw = SubSeq(buf, 1, n) /\ (p.event <=> n <= MaxEvent)
  BY <1>1, <1>5, <1>6, <1>7 DEF Oversized, Passed, Event
<1>10. Fair(p)
  <2>1. SubSeq(buf, 1, e[1]) = SubSeq(raw, 1, e[1]) /\ e[1] \in 0..Len(raw)
    <3>1. e[1] \in 0..n /\ n \in 0..Len(buf)
      BY <1>3, <1>4, <1>6
    <3>2. QED
      BY <1>1, <1>5, <1>6, <3>1, PrefixOfPrefix
  <2>2. ASSUME Forwarded(raw, SubSeq(raw, 1, e[1])) # raw
        PROVE  LocalData \in Range(Forwarded(raw, SubSeq(raw, 1, e[1])))
    BY <1>6, <2>1, <2>2, ForwardedIsLocal
  <2>3. CASE Oversized(raw)
    BY <1>7, <2>3 DEF Fair, Passed
  <2>4. CASE ~Oversized(raw)
    BY <1>7, <2>1, <2>2, <2>4 DEF Fair, Event
  <2>5. QED
    BY <2>3, <2>4
<1>11. Moves(0, n, p)
  BY <1>1, <1>8, <1>9, NoUnits DEF Moves, TakeEvent
<1>12. QED
  BY <1>3, <1>4, <1>6, <1>8, <1>9, <1>10, <1>11 DEF TakeEvent

\* feed: an incomplete event outgrows the cap.
LEMMA OverflowMoves ==
  ASSUME KeptInv, Overflow
  PROVE  \E n, p :
           /\ n = Len(buf) - 3 /\ Len(buf) > MaxEvent /\ Moves(0, n, p) /\ Fair(p) /\ ~p.event
           /\ n \in 0..Len(buf) /\ NoEnd(Pos, Pos + Len(buf))
           /\ ~resyncing /\ pc = "feed" /\ resyncing' = TRUE /\ pc' = pc
<1>1. /\ Types /\ PlaceInv /\ Pos \in Nat /\ buf \in Seq(StreamUnits)
      /\ \A i \in 1..Len(buf) : buf[i] = stream[Pos + i]
      /\ MaxEvent \in Nat /\ MaxEvent >= 3 /\ Len(buf) \in Nat
  BY MaxEventAssumption DEF KeptInv, PlaceInv, Types, Pos, Lookbehind
<1>2. PICK n : n = Len(buf) - KeptBack(buf)
  OBVIOUS
<1>3. Len(buf) > MaxEvent /\ n = Len(buf) - 3 /\ n \in 0..Len(buf)
  BY <1>1, <1>2, KeptBackIs DEF Overflow
<1>4. PICK p : p = Passed(SubSeq(buf, 1, n))
  OBVIOUS
<1>5. p.raw = SubSeq(buf, 1, n) /\ Fair(p) /\ ~p.event
  BY <1>4 DEF Passed, Fair
<1>6. buf' = Drop(buf, n) /\ pieces' = IF n = 0 THEN pieces ELSE Append(pieces, p)
  BY <1>2, <1>4, Zenon DEF PassOn, Overflow
<1>7. Moves(0, n, p)
  BY <1>1, <1>5, <1>6, NoUnits DEF Moves, Overflow
<1>8. NoEnd(Pos, Pos + Len(buf))
  BY <1>1, EndsInStream DEF Overflow
<1>9. QED
  BY <1>3, <1>5, <1>7, <1>8 DEF Overflow

\* feed: more of the chunk is taken, or feed returns.
LEMMA FillMoves ==
  ASSUME KeptInv, Fill
  PROVE  \E m, p :
           /\ m \in 0..Len(chunk)
           /\ Moves(m, 0, p) /\ pieces' = pieces /\ m = Room
           /\ Len(buf) + m <= MaxEvent + 1
           /\ NoEnd(Pos, Pos + Len(buf))
           /\ ~resyncing /\ resyncing' = resyncing
           /\ \/ chunk = <<>> /\ pc' = "idle"
              \/ pc' = "feed"
<1>1. /\ Types /\ PlaceInv /\ Pos \in Nat /\ buf \in Seq(StreamUnits)
      /\ \A i \in 1..Len(buf) : buf[i] = stream[Pos + i]
      /\ Room \in 0..Len(chunk) /\ Len(buf) + Room <= MaxEvent + 1
  BY RoomIs DEF KeptInv, PlaceInv, Types, Pos
<1>2. PICK m : m = Room
  OBVIOUS
<1>3. PICK s : s = buf \o SubSeq(chunk, 1, m)
  OBVIOUS
<1>4. s \in Seq(StreamUnits)
  BY <1>1, <1>2, <1>3, Gathered
<1>5. Drop(s, 0) = s
  BY <1>4, SubSeqFull DEF Drop
<1>6. Moves(m, 0, s)
  BY <1>2, <1>3, <1>5 DEF Moves, Fill
<1>7. NoEnd(Pos, Pos + Len(buf))
  BY <1>1, EndsInStream DEF Fill
<1>8. QED
  BY <1>1, <1>2, <1>6, <1>7 DEF Fill

\* The end: what is left in the buffer is handed back.
LEMMA EndMoves ==
  ASSUME KeptInv, End
  PROVE  \E p : Moves(0, Len(buf), p) /\ Fair(p) /\ buf' = <<>> /\ chunk' = <<>> /\ pc' = "ended"
<1>1. Types /\ buf \in Seq(StreamUnits)
  BY DEF KeptInv, Types
<1>2. PICK p : p = Passed(buf)
  OBVIOUS
<1>3. p.raw = SubSeq(buf, 1, Len(buf)) /\ Fair(p)
  BY <1>1, <1>2, NoUnits DEF Passed, Fair
<1>4. buf = <<>> => Len(buf) = 0
  OBVIOUS
<1>5. buf' = Drop(buf, Len(buf)) /\ chunk' = Drop(chunk, 0)
  BY <1>1, NoUnits DEF End
<1>6. Moves(0, Len(buf), p)
  BY <1>1, <1>2, <1>3, <1>4, <1>5, NoUnits DEF Moves, End
<1>7. QED
  BY <1>3, <1>6 DEF End, KeptInv, BufferInv

-----------------------------------------------------------------------------
(* Every unit is kept. *)

\* A move that adds a fair piece, or none, keeps the pieces in order.
LEMMA PiecesKept ==
  ASSUME KeptInv, NEW m \in 0..Len(chunk), NEW n \in 0..(Len(buf) + m), NEW p,
         Moves(m, n, p), pieces' = pieces \/ Fair(p),
         resyncing' \in BOOLEAN, pc' \in {"idle", "feed", "ended"}
  PROVE  Types' /\ PlaceInv' /\ SentInv' /\ Pos' = Pos + n
         /\ Len(buf') = Len(buf) + m - n /\ Len(chunk') = Len(chunk) - m
<1>1. Types /\ PlaceInv /\ SentInv
  BY DEF KeptInv
<1>2. /\ Pos' = Pos + n /\ PlaceInv'
      /\ buf' \in Seq(StreamUnits) /\ chunk' \in Seq(StreamUnits)
      /\ Len(buf') = Len(buf) + m - n /\ Len(chunk') = Len(chunk) - m
      /\ pieces' # pieces => p.raw \in Seq(StreamUnits) /\ Len(p.raw) = n
  BY <1>1, MoveKeeps
<1>3. stream' = stream /\ fed' = fed /\ (pieces' = pieces \/ pieces' = Append(pieces, p))
  BY DEF Moves
<1>4. /\ pieces' \in Seq(Range(pieces'))
      /\ \A k \in 1..Len(pieces') : pieces'[k].raw \in Seq(StreamUnits) /\ pieces'[k].event \in BOOLEAN
      /\ SentInv'
  <2>1. CASE pieces' = pieces
    <3>1. SentInv'
      BY <1>1, <2>1 DEF SentInv
    <3>2. QED
      BY <1>1, <2>1, <3>1 DEF Types
  <2>2. CASE pieces' # pieces
    <3>1. pieces' = Append(pieces, p) /\ p.raw \in Seq(StreamUnits) /\ Fair(p)
      BY <1>2, <1>3, <2>2
    <3>2. /\ Len(pieces') = Len(pieces) + 1 /\ pieces'[Len(pieces) + 1] = p
          /\ \A k \in 1..Len(pieces) : pieces'[k] = pieces[k]
          /\ pieces' \in Seq(Range(pieces'))
      BY <1>1, <3>1, UnitsGrow
    <3>3. Len(pieces) \in Nat
      BY <1>1 DEF Types
    <3>4. \A k \in 1..Len(pieces') : k \in 1..Len(pieces) \/ k = Len(pieces) + 1
      BY <3>2, <3>3
    <3>5. \A k \in 1..Len(pieces') : pieces'[k].raw \in Seq(StreamUnits) /\ pieces'[k].event \in BOOLEAN
      BY <1>1, <3>1, <3>2, <3>4 DEF Types, Fair
    <3>6. SentInv'
      BY <1>1, <3>1, <3>2, <3>4 DEF SentInv, Fair
    <3>7. QED
      BY <3>2, <3>5, <3>6
  <2>3. QED
    BY <2>1, <2>2
<1>5. Types'
  BY <1>1, <1>2, <1>3, <1>4 DEF Types
<1>6. QED
  BY <1>2, <1>4, <1>5

LEMMA KeptInit == Init => KeptInv
<1> SUFFICES ASSUME Init PROVE KeptInv
  OBVIOUS
<1>1. stream \in Seq(StreamUnits)
  BY UnitsAssumption DEF Init, StreamUnits
<1>2. /\ fed = 0 /\ chunk = <<>> /\ buf = <<>> /\ resyncing = FALSE /\ pc = "idle" /\ pieces = <<>>
      /\ Len(<<>>) = 0 /\ Len(stream) \in Nat /\ MaxEvent \in Nat
  BY <1>1, MaxEventAssumption DEF Init
<1>3. Types
  <2>1. fed \in 0..Len(stream) /\ <<>> \in Seq(StreamUnits) /\ <<>> \in Seq(Range(pieces))
    BY <1>2
  <2>2. Len(pieces) = 0
    BY <1>2
  <2>3. pieces \in Seq(Range(pieces)) /\ chunk \in Seq(StreamUnits) /\ buf \in Seq(StreamUnits)
    BY <1>2, <2>1
  <2>4. resyncing \in BOOLEAN /\ pc \in {"idle", "feed", "ended"} /\ fed \in 0..Len(stream)
    BY <1>2, <2>1
  <2>5. QED
    BY <1>1, <2>2, <2>3, <2>4 DEF Types
<1>4. Pos = 0
  <2>1. Len(chunk) = 0 /\ Len(buf) = 0 /\ fed = 0
    BY <1>2
  <2>2. QED
    BY <2>1 DEF Pos
<1>5. Units(Len(pieces)) = SubSeq(stream, 1, Pos)
  <2>1. [k \in 1..0 |-> pieces[k].raw] = <<>>
    OBVIOUS
  <2>2. Units(Len(pieces)) = <<>>
    BY <1>2, <2>1, FlattenEmpty DEF Units
  <2>3. SubSeq(stream, 1, Pos) = <<>>
    BY <1>4, SubSeqEmpty
  <2>4. QED
    BY <2>2, <2>3
<1>6. PlaceInv
  BY <1>2, <1>4, <1>5 DEF PlaceInv
<1>7. BufferInv /\ SentInv
  BY <1>2 DEF BufferInv, SentInv
<1>8. QED
  BY <1>3, <1>6, <1>7 DEF KeptInv

LEMMA ChunkKept ==
  ASSUME KeptInv, NEW n \in 1..Len(stream), Chunk(n)
  PROVE  KeptInv' /\ Pos' = Pos
<1>1. /\ Types /\ PlaceInv /\ BufferInv /\ SentInv /\ chunk = <<>> /\ Len(chunk) = 0
      /\ n \in 1..(Len(stream) - fed)
      /\ chunk' = SubSeq(stream, fed + 1, fed + n) /\ fed' = fed + n /\ pc' = "feed"
      /\ stream' = stream /\ buf' = buf /\ resyncing' = resyncing /\ pieces' = pieces /\ pc = "idle"
  BY DEF KeptInv, BufferInv, Chunk
<1>2. fed \in Nat /\ Len(stream) \in Nat /\ stream \in Seq(StreamUnits) /\ Len(buf) \in Nat
  BY <1>1 DEF Types
<1>3. /\ chunk' \in Seq(StreamUnits) /\ Len(chunk') = n
      /\ \A i \in 1..n : chunk'[i] = stream[fed + i]
  <2>1. fed + 1 \in Int /\ fed + n \in Int /\ \A i \in (fed + 1)..(fed + n) : stream[i] \in StreamUnits
    BY <1>1, <1>2
  <2>2. (fed + n) - (fed + 1) + 1 = n /\ \A i \in 1..n : (fed + 1) + i - 1 = fed + i
    BY <1>1, <1>2
  <2>3. QED
    BY <1>1, <1>2, <2>1, <2>2, SubSeqProperties
<1>4. Pos' = Pos /\ Pos = fed - Len(buf) /\ Pos \in Nat
  <2>1. Pos = fed - Len(buf)
    BY <1>1, <1>2 DEF Pos
  <2>2. Pos' = (fed + n) - n - Len(buf)
    BY <1>1, <1>3 DEF Pos
  <2>3. Pos \in Int /\ 0 <= Pos
    BY <1>1, <1>2, <2>1 DEF PlaceInv
  <2>4. QED
    BY <1>1, <1>2, <2>1, <2>2, <2>3
<1>5. Units(Len(pieces))' = Units(Len(pieces))
  BY <1>1 DEF Units
<1>6. \A i \in 1..Len(chunk') : chunk'[i] = stream[Pos + Len(buf) + i]
  BY <1>2, <1>3, <1>4
<1>7. PlaceInv'
  BY <1>1, <1>4, <1>5, <1>6 DEF PlaceInv
<1>8. Types'
  BY <1>1, <1>2, <1>3 DEF Types
<1>9. BufferInv' /\ SentInv'
  BY <1>1 DEF BufferInv, SentInv
<1>10. QED
  BY <1>4, <1>7, <1>8, <1>9 DEF KeptInv

LEMMA EmptyIs ==
  ASSUME NEW A, NEW s \in Seq(A)
  PROVE  s = <<>> <=> Len(s) = 0
  OBVIOUS

LEMMA KeptStep == KeptInv /\ [Next]_vars => KeptInv'
<1> SUFFICES ASSUME KeptInv, [Next]_vars PROVE KeptInv'
  OBVIOUS
<1>1. Len(buf) \in Nat /\ Len(chunk) \in Nat /\ MaxEvent \in Nat /\ MaxEvent >= 3
      /\ Len(buf) <= MaxEvent + 1 /\ pc \in {"idle", "feed", "ended"} /\ resyncing \in BOOLEAN
  BY MaxEventAssumption DEF KeptInv, Types, BufferInv, Lookbehind
<1>2. ASSUME Types', Len(chunk') = 0 PROVE chunk' = <<>>
  BY <1>2, EmptyIs DEF Types
<1>3. ASSUME NEW n \in 1..Len(stream), Chunk(n) PROVE KeptInv'
  BY <1>3, ChunkKept
<1>4. CASE Resync
  <2>1. PICK m, n, p :
           /\ m \in 0..Len(chunk)
           /\ n \in 0..(Len(buf) + m) /\ Moves(m, n, p) /\ Fair(p)
           /\ Len(buf) + m <= MaxEvent + 1 /\ resyncing /\ pc = "feed"
           /\ \/ resyncing' = FALSE /\ pc' = "feed"
              \/ /\ n = Len(buf) + m - 3
                 /\ resyncing' = TRUE
                 /\ pc' = IF m = Len(chunk) THEN "idle" ELSE "feed"
    BY <1>4, ResyncMoves
  <2>2. /\ Types' /\ PlaceInv' /\ SentInv'
        /\ Len(buf') = Len(buf) + m - n /\ Len(chunk') = Len(chunk) - m
    BY <2>1, PiecesKept
  <2>3. Len(buf) + m <= MaxEvent + 1
    BY <2>1
  <2>4. pc' # "feed" => chunk' = <<>>
    BY <1>1, <1>2, <2>1, <2>2
  <2>5. BufferInv'
    BY <1>1, <2>1, <2>2, <2>3, <2>4 DEF BufferInv, Lookbehind
  <2>6. QED
    BY <2>2, <2>5 DEF KeptInv
<1>5. CASE TakeEvent
  <2>1. PICK n, p :
           /\ n \in 2..Len(buf) /\ Moves(0, n, p) /\ Fair(p)
           /\ ~resyncing /\ pc = "feed" /\ resyncing' = resyncing /\ pc' = pc
    BY <1>5, TakeMoves
  <2>2. 0 \in 0..Len(chunk) /\ n \in 0..(Len(buf) + 0)
    BY <1>1, <2>1
  <2>3. Types' /\ PlaceInv' /\ SentInv' /\ Len(buf') = Len(buf) + 0 - n
    BY <1>1, <2>1, <2>2, PiecesKept
  <2>4. BufferInv'
    BY <1>1, <2>1, <2>2, <2>3 DEF BufferInv
  <2>5. QED
    BY <2>3, <2>4 DEF KeptInv
<1>6. CASE Overflow
  <2>1. PICK n, p :
           /\ n = Len(buf) - 3 /\ Moves(0, n, p) /\ Fair(p) /\ n \in 0..Len(buf)
           /\ ~resyncing /\ pc = "feed" /\ resyncing' = TRUE /\ pc' = pc
    BY <1>6, OverflowMoves
  <2>2. 0 \in 0..Len(chunk) /\ n \in 0..(Len(buf) + 0)
    BY <1>1, <2>1
  <2>3. Types' /\ PlaceInv' /\ SentInv' /\ Len(buf') = Len(buf) + 0 - n
    BY <1>1, <2>1, <2>2, PiecesKept
  <2>4. BufferInv'
    BY <1>1, <2>1, <2>2, <2>3 DEF BufferInv, Lookbehind
  <2>5. QED
    BY <2>3, <2>4 DEF KeptInv
<1>7. CASE Fill
  <2>1. PICK m, p :
           /\ m \in 0..Len(chunk)
           /\ Moves(m, 0, p) /\ pieces' = pieces
           /\ Len(buf) + m <= MaxEvent + 1
           /\ ~resyncing /\ resyncing' = resyncing
           /\ \/ chunk = <<>> /\ pc' = "idle"
              \/ pc' = "feed"
    BY <1>7, FillMoves
  <2>2. 0 \in 0..(Len(buf) + m)
    BY <1>1, <2>1
  <2>3. /\ Types' /\ PlaceInv' /\ SentInv' /\ Len(buf') = Len(buf) + m - 0
        /\ Len(chunk') = Len(chunk) - m
    BY <1>1, <2>1, <2>2, PiecesKept
  <2>4. pc' # "feed" => chunk' = <<>>
    BY <1>1, <1>2, <2>1, <2>3
  <2>5. BufferInv'
    BY <1>1, <2>1, <2>3, <2>4 DEF BufferInv
  <2>6. QED
    BY <2>3, <2>5 DEF KeptInv
<1>8. CASE End
  <2>1. PICK p : Moves(0, Len(buf), p) /\ Fair(p) /\ buf' = <<>> /\ chunk' = <<>> /\ pc' = "ended"
    BY <1>8, EndMoves
  <2>2. 0 \in 0..Len(chunk) /\ Len(buf) \in 0..(Len(buf) + 0) /\ resyncing' = resyncing
    BY <1>1, <1>8 DEF End
  <2>3. Types' /\ PlaceInv' /\ SentInv'
    BY <1>1, <2>1, <2>2, PiecesKept
  <2>4. BufferInv'
    BY <1>1, <2>1 DEF BufferInv
  <2>5. QED
    BY <2>3, <2>4 DEF KeptInv
<1>9. CASE UNCHANGED vars
  <2>1. Units(Len(pieces))' = Units(Len(pieces)) /\ Pos' = Pos
    BY <1>9 DEF vars, Units, Pos
  <2>2. QED
    BY <1>9, <2>1 DEF vars, KeptInv, Types, PlaceInv, BufferInv, SentInv
<1>10. QED
  BY <1>3, <1>4, <1>5, <1>6, <1>7, <1>8, <1>9 DEF Next

LEMMA KeptHolds == Spec => []KeptInv
<1>1. Init => KeptInv
  BY KeptInit
<1>2. KeptInv /\ [Next]_vars => KeptInv'
  BY KeptStep
<1>3. QED
  BY <1>1, <1>2, PTL DEF Spec

LEMMA KeptMeansBytes == KeptInv => BytesAreKept
<1> SUFFICES ASSUME KeptInv PROVE BytesAreKept
  OBVIOUS
<1>1. /\ Types /\ PlaceInv /\ BufferInv /\ SentInv
  BY DEF KeptInv
<1>2. Len(buf) \in Nat /\ Len(chunk) \in Nat /\ fed \in Nat /\ Pos \in Nat
      /\ Pos + Len(buf) + Len(chunk) = fed /\ fed <= Len(stream) /\ Len(stream) \in Nat
  BY <1>1 DEF Types, PlaceInv, Pos
<1>3. PICK u : u = Units(Len(pieces)) \o buf
  OBVIOUS
<1>4. u \in Seq(StreamUnits) /\ Len(u) = Pos + Len(buf)
      /\ \A i \in 1..Len(u) : u[i] = stream[i]
  <2>1. PICK v : v = Units(Len(pieces))
    OBVIOUS
  <2>2. v \in Seq(StreamUnits) /\ Len(v) = Pos /\ \A i \in 1..Pos : v[i] = stream[i]
    <3>1. v = SubSeq(stream, 1, Pos) /\ Pos \in Int /\ \A i \in 1..Pos : stream[i] \in StreamUnits
      BY <1>1, <1>2, <2>1 DEF PlaceInv, Types
    <3>2. QED
      BY <1>2, <3>1, SubSeqProperties
  <2>3. /\ u \in Seq(StreamUnits) /\ Len(u) = Len(v) + Len(buf)
        /\ \A i \in 1..Len(v) + Len(buf) : u[i] = IF i <= Len(v) THEN v[i] ELSE buf[i - Len(v)]
    <3>1. buf \in Seq(StreamUnits)
      BY <1>1 DEF Types
    <3>2. QED
      BY <1>3, <2>1, <2>2, <3>1, ConcatProperties
  <2>4. ASSUME NEW i \in 1..Len(u) PROVE u[i] = stream[i]
    <3>1. i \in 1..Pos \/ (i - Pos \in 1..Len(buf) /\ Pos + (i - Pos) = i /\ ~(i <= Pos))
      BY <1>2, <2>2, <2>3
    <3>2. QED
      BY <1>1, <1>2, <2>2, <2>3, <3>1, SMTT(30) DEF PlaceInv
  <2>5. QED
    BY <2>2, <2>3, <2>4
<1>5. PICK w : w = u \o chunk
  OBVIOUS
<1>6. w \in Seq(StreamUnits) /\ Len(w) = fed /\ \A i \in 1..fed : w[i] = stream[i]
  <2>1. /\ w \in Seq(StreamUnits) /\ Len(w) = Len(u) + Len(chunk)
        /\ \A i \in 1..Len(u) + Len(chunk) :
             w[i] = IF i <= Len(u) THEN u[i] ELSE chunk[i - Len(u)]
    <3>1. chunk \in Seq(StreamUnits) /\ u \in Seq(StreamUnits)
      BY <1>1, <1>4 DEF Types
    <3>2. QED
      BY <1>5, <3>1, ConcatProperties
  <2>2. ASSUME NEW i \in 1..fed PROVE w[i] = stream[i]
    <3>1. i \in 1..Len(u)
          \/ (i - Len(u) \in 1..Len(chunk) /\ Pos + Len(buf) + (i - Len(u)) = i /\ ~(i <= Len(u)))
      BY <1>2, <1>4
    <3>2. CASE i \in 1..Len(u)
      <4>1. i <= Len(u) /\ i \in 1..Len(u) + Len(chunk)
        BY <1>2, <1>4, <3>2
      <4>2. QED
        BY <1>4, <2>1, <3>2, <4>1
    <3>3. CASE i - Len(u) \in 1..Len(chunk) /\ Pos + Len(buf) + (i - Len(u)) = i /\ ~(i <= Len(u))
      <4>1. i \in 1..Len(u) + Len(chunk)
        BY <1>2, <1>4
      <4>2. w[i] = chunk[i - Len(u)]
        BY <2>1, <3>3, <4>1
      <4>3. \A j \in 1..Len(chunk) : chunk[j] = stream[Pos + Len(buf) + j]
        BY <1>1 DEF PlaceInv
      <4>4. QED
        BY <3>3, <4>2, <4>3
    <3>4. QED
      BY <3>1, <3>2, <3>3
  <2>3. QED
    BY <1>2, <1>4, <2>1, <2>2
<1>7. w = SubSeq(stream, 1, fed)
  <2>1. PICK t : t = SubSeq(stream, 1, fed)
    OBVIOUS
  <2>2. t \in Seq(StreamUnits) /\ Len(t) = fed /\ \A i \in 1..fed : t[i] = stream[i]
    <3>1. fed \in Int /\ \A i \in 1..fed : stream[i] \in StreamUnits
      BY <1>1, <1>2 DEF Types
    <3>2. QED
      BY <1>2, <2>1, <3>1, SubSeqProperties
  <2>3. w = t
    BY <1>6, <2>2, SeqEqual
  <2>4. QED
    BY <2>1, <2>3
<1>8. DOMAIN pieces = 1..Len(pieces)
  BY <1>1, LenProperties DEF Types
<1>9. QED
  BY <1>1, <1>3, <1>5, <1>7, <1>8 DEF BytesAreKept, BufferInv, SentInv

\* However a stream is cut into chunks and however long its events are, what is
\* handed on is what came, in order and once, an unread piece is not touched,
\* and the parser holds at most one unit over its cap (SseParser::feed).
THEOREM UnitsAreKept == Spec => []BytesAreKept
  BY KeptHolds, KeptMeansBytes, PTL

-----------------------------------------------------------------------------
(* Which events are read. *)

Neighbours(C, c, d) == c \in C /\ d \in C /\ c < d /\ \A x \in C : x <= c \/ d <= x

\* Piece k is what the stream has between c and d.
Spans(k, c, d) == Before(k) = c /\ Before(k) + Len(pieces[k].raw) = d

\* C are the places where events of the stream ended so far, b the last of them:
\* the start of the event that the parser is in.
Chain(C, b) ==
  /\ C \subseteq 0..b /\ 0 \in C /\ b \in C
  /\ \A c \in C : c # b => \E d \in C : Neighbours(C, c, d) /\ First(c, d)

\* The events that were read are those between them.
Read(C) ==
  /\ \A k \in 1..Len(pieces) :
       pieces[k].event =>
         \E c, d \in C : Spans(k, c, d) /\ Neighbours(C, c, d) /\ d - c <= MaxEvent
  /\ \A c, d \in C :
       Neighbours(C, c, d) /\ d - c <= MaxEvent =>
         \E k \in 1..Len(pieces) : pieces[k].event /\ Spans(k, c, d)

\* The parser is at the start of an event, or in one that is over the cap.
Now(b) ==
  /\ b <= Pos
  /\ ~resyncing => b = Pos
  /\ resyncing => Pos + Len(buf) - b > MaxEvent /\ NoEnd(b, Pos + Len(buf))
  /\ pc = "idle" => NoEnd(b, fed)

Sections(C, b) == Chain(C, b) /\ Read(C) /\ Now(b)

SectionInv == pc # "ended" => \E b \in Nat : \E C \in SUBSET Nat : Sections(C, b)

SseInv == KeptInv /\ SectionInv

\* d is put behind the places C, whose last is b.
Grown(C, b, d) ==
  /\ \A x, y \in C : Neighbours(C \cup {d}, x, y) <=> Neighbours(C, x, y)
  /\ Neighbours(C \cup {d}, b, d)
  /\ \A x \in C : Neighbours(C \cup {d}, x, d) => x = b
  /\ \A y \in C : ~Neighbours(C \cup {d}, d, y)

LEMMA NeighboursGrow ==
  ASSUME NEW b \in Nat, NEW C \in SUBSET Nat, NEW d \in Nat, Chain(C, b), b < d
  PROVE  Grown(C, b, d)
<1>1. \A x \in C : x \in Nat /\ x <= b
  BY DEF Chain
<1>2. b \in C
  BY DEF Chain
<1>3. ASSUME NEW x \in C, NEW y \in C PROVE Neighbours(C \cup {d}, x, y) <=> Neighbours(C, x, y)
  <2>1. y <= d /\ x \in Nat /\ y \in Nat
    BY <1>1
  <2>2. QED
    BY <2>1 DEF Neighbours
<1>4. Neighbours(C \cup {d}, b, d)
  BY <1>1, <1>2 DEF Neighbours
<1>5. ASSUME NEW x \in C, Neighbours(C \cup {d}, x, d) PROVE x = b
  <2>1. b <= x \/ d <= b
    BY <1>2, <1>5 DEF Neighbours
  <2>2. x <= b /\ x \in Nat
    BY <1>1
  <2>3. QED
    BY <2>1, <2>2
<1>6. ASSUME NEW y \in C, Neighbours(C \cup {d}, d, y) PROVE FALSE
  BY <1>1, <1>6 DEF Neighbours
<1>7. QED
  BY <1>3, <1>4, <1>5, <1>6, Zenon DEF Grown

\* The stream stays as it is, and so do its ends.
LEMMA SameStream ==
  ASSUME stream' = stream
  PROVE  /\ \A b, q : NoEnd(b, q)' <=> NoEnd(b, q)
         /\ \A C, b : Chain(C, b)' <=> Chain(C, b)
<1>1. ASSUME NEW b, NEW q PROVE StreamEnd(b, q)' <=> StreamEnd(b, q)
  BY DEF StreamEnd
<1>2. ASSUME NEW b, NEW q PROVE NoEnd(b, q)' <=> NoEnd(b, q)
  BY <1>1, Zenon DEF NoEnd
<1>3. ASSUME NEW b, NEW q PROVE First(b, q)' <=> First(b, q)
  BY <1>1, <1>2, Zenon DEF First
<1>4. ASSUME NEW C, NEW b PROVE Chain(C, b)' <=> Chain(C, b)
  BY <1>3, Zenon DEF Chain, Neighbours
<1>5. QED
  BY <1>2, <1>4

\* The next end of an event is the next place.
LEMMA ChainGrows ==
  ASSUME NEW b \in Nat, NEW C \in SUBSET Nat, NEW d \in Nat, Chain(C, b), First(b, d)
  PROVE  b < d /\ Chain(C \cup {d}, d) /\ Grown(C, b, d)
<1>1. b < d
  BY DEF First, StreamEnd
<1>2. PICK D : D = C \cup {d}
  OBVIOUS
<1>3. /\ \A x, y \in C : Neighbours(D, x, y) <=> Neighbours(C, x, y)
      /\ Neighbours(D, b, d)
  <2>1. Grown(C, b, d)
    BY <1>1, NeighboursGrow
  <2>2. QED
    BY <1>2, <2>1, Zenon DEF Grown
<1>4. D \subseteq 0..d /\ 0 \in D /\ d \in D
  BY <1>1, <1>2 DEF Chain
<1>5. ASSUME NEW c \in D, c # d PROVE \E e \in D : Neighbours(D, c, e) /\ First(c, e)
  <2>1. CASE c = b
    BY <1>3, <1>4, <2>1
  <2>2. CASE c # b
    <3>1. c \in C
      BY <1>2, <1>5
    <3>2. PICK e \in C : Neighbours(C, c, e) /\ First(c, e)
      BY <2>2, <3>1 DEF Chain
    <3>3. e \in D
      BY <1>2
    <3>4. QED
      BY <1>3, <3>1, <3>2, <3>3
  <2>3. QED
    BY <2>1, <2>2
<1>6. Chain(D, d)
  BY <1>4, <1>5, Zenon DEF Chain
<1>7. QED
  BY <1>1, <1>2, <1>6, NeighboursGrow

\* What the pieces are stays, and a new one begins where the others end.
LEMMA SpansKept ==
  ASSUME KeptInv, NEW m \in 0..Len(chunk), NEW n \in 0..(Len(buf) + m), NEW p,
         Moves(m, n, p)
  PROVE  /\ \A k \in 1..Len(pieces) : /\ pieces'[k] = pieces[k]
                                      /\ \A c, d : Spans(k, c, d)' <=> Spans(k, c, d)
         /\ pieces' # pieces =>
              /\ Len(pieces') = Len(pieces) + 1 /\ pieces'[Len(pieces')] = p
              /\ \A k : k = Len(pieces) + 1 =>
                   \A c, d : Spans(k, c, d)' <=> c = Pos /\ d = Pos + n
<1>1. Types /\ PlaceInv /\ Len(pieces) \in Nat
  BY DEF KeptInv, Types
<1>2. pieces' # pieces => pieces' = Append(pieces, p) /\ p.raw \in Seq(StreamUnits) /\ Len(p.raw) = n
  BY <1>1, MoveKeeps DEF Moves
<1>3. CASE pieces' = pieces
  <2>1. ASSUME NEW k PROVE Before(k)' = Before(k)
    BY <1>3 DEF Before, Units
  <2>2. ASSUME NEW k, NEW c, NEW d PROVE Spans(k, c, d)' <=> Spans(k, c, d)
    BY <1>3, <2>1, Zenon DEF Spans
  <2>3. QED
    BY <1>3, <2>2
<1>4. CASE pieces' # pieces
  <2>1. /\ Len(pieces') = Len(pieces) + 1 /\ pieces'[Len(pieces) + 1] = p
        /\ \A k \in 1..Len(pieces) : pieces'[k] = pieces[k]
        /\ \A i \in 0..Len(pieces) : Units(i)' = Units(i)
    BY <1>1, <1>2, <1>4, UnitsGrow
  <2>2. ASSUME NEW k \in 1..(Len(pieces) + 1) PROVE Before(k)' = Before(k)
    <3>1. k - 1 \in 0..Len(pieces)
      BY <1>1
    <3>2. Units(k - 1)' = Units(k - 1)
      BY <2>1, <3>1
    <3>3. QED
      BY <3>2, Zenon DEF Before
  <2>3. ASSUME NEW k \in 1..Len(pieces), NEW c, NEW d PROVE Spans(k, c, d)' <=> Spans(k, c, d)
    <3>1. k \in 1..(Len(pieces) + 1)
      BY <1>1
    <3>2. QED
      BY <2>1, <2>2, <3>1, Zenon DEF Spans
  <2>4. ASSUME NEW k, k = Len(pieces) + 1 PROVE Before(k)' = Pos /\ pieces'[k] = p
    <3>1. k - 1 = Len(pieces) /\ k \in 1..(Len(pieces) + 1)
      BY <1>1, <2>4
    <3>2. Before(k) = Len(SubSeq(stream, 1, Pos))
      BY <1>1, <3>1, Zenon DEF Before, PlaceInv
    <3>3. Len(SubSeq(stream, 1, Pos)) = Pos
      <4>1. Pos \in Nat /\ Pos <= Len(stream) /\ stream \in Seq(StreamUnits) /\ Len(stream) \in Nat
        BY <1>1 DEF Types, PlaceInv, Pos
      <4>2. \A i \in 1..Pos : stream[i] \in StreamUnits
        BY <4>1
      <4>3. QED
        BY <4>1, <4>2, SubSeqProperties
    <3>4. QED
      BY <2>1, <2>2, <2>4, <3>1, <3>2, <3>3
  <2>5. ASSUME NEW k, k = Len(pieces) + 1, NEW c, NEW d
        PROVE  Spans(k, c, d)' <=> c = Pos /\ d = Pos + n
    <3>1. Spans(k, c, d)' <=> Pos = c /\ Pos + n = d
      BY <1>2, <1>4, <2>4, <2>5, Zenon DEF Spans
    <3>2. QED
      BY <3>1
  <2>6. QED
    BY <2>1, <2>3, <2>5
<1>5. QED
  BY <1>3, <1>4

LEMMA AppendIsMore ==
  ASSUME Types, NEW p, pieces' = Append(pieces, p)
  PROVE  pieces' # pieces
<1>1. pieces \in Seq(Range(pieces) \cup {p}) /\ Len(pieces) \in Nat
  BY DEF Types
<1>2. Len(pieces') = Len(pieces) + 1
  BY <1>1, AppendProperties
<1>3. QED
  BY <1>1, <1>2

\* A move that hands back no event leaves the events that were read.
LEMMA ReadStays ==
  ASSUME KeptInv, NEW m \in 0..Len(chunk), NEW n \in 0..(Len(buf) + m), NEW p,
         Moves(m, n, p), pieces' = pieces \/ ~p.event, NEW C \in SUBSET Nat, Read(C)
  PROVE  Read(C)'
<1>1. Len(pieces) \in Nat
  BY DEF KeptInv, Types
<1>2. \A k \in 1..Len(pieces) : /\ pieces'[k] = pieces[k]
                                /\ \A c, d : Spans(k, c, d)' <=> Spans(k, c, d)
  BY SpansKept
<1>3. \A k \in 1..Len(pieces') : k \in 1..Len(pieces) \/ ~pieces'[k].event
  <2>1. CASE pieces' = pieces
    BY <2>1
  <2>2. CASE pieces' # pieces
    <3>1. Len(pieces') = Len(pieces) + 1 /\ pieces'[Len(pieces')] = p /\ ~p.event
      BY <2>2, SpansKept
    <3>2. \A k \in 1..Len(pieces') : k \in 1..Len(pieces) \/ k = Len(pieces')
      BY <1>1, <3>1
    <3>3. QED
      BY <3>1, <3>2
  <2>3. QED
    BY <2>1, <2>2
<1>4. \A k \in 1..Len(pieces) : k \in 1..Len(pieces')
  <2>1. CASE pieces' = pieces
    BY <2>1
  <2>2. CASE pieces' # pieces
    BY <1>1, <2>2, SpansKept
  <2>3. QED
    BY <2>1, <2>2
<1>5. ASSUME NEW k \in 1..Len(pieces'), pieces'[k].event
      PROVE  \E c, d \in C : Spans(k, c, d)' /\ Neighbours(C, c, d) /\ d - c <= MaxEvent
  BY <1>2, <1>3, <1>5 DEF Read
<1>6. ASSUME NEW c \in C, NEW d \in C, Neighbours(C, c, d), d - c <= MaxEvent
      PROVE  \E k \in 1..Len(pieces') : pieces'[k].event /\ Spans(k, c, d)'
  <2>1. PICK k \in 1..Len(pieces) : pieces[k].event /\ Spans(k, c, d)
    BY <1>6 DEF Read
  <2>2. QED
    BY <1>2, <1>4, <2>1
<1>7. QED
  BY <1>5, <1>6, Zenon DEF Read

\* The end of an event is found: it is read just when it is within the cap.
LEMMA ReadGrows ==
  ASSUME KeptInv, NEW m \in 0..Len(chunk), NEW n \in 0..(Len(buf) + m), NEW p,
         Moves(m, n, p), pieces' = Append(pieces, p),
         NEW b \in Nat, NEW C \in SUBSET Nat, Chain(C, b), Read(C),
         NEW d \in Nat, d = Pos + n, Grown(C, b, d),
         IF p.event THEN b = Pos /\ n <= MaxEvent ELSE d - b > MaxEvent
  PROVE  Read(C \cup {d})'
<1>1. Len(pieces) \in Nat /\ MaxEvent \in Nat /\ Pos \in Nat /\ Types
  BY MaxEventAssumption DEF KeptInv, Types, PlaceInv, Pos
<1>2. \A k \in 1..Len(pieces) : /\ pieces'[k] = pieces[k]
                                /\ \A x, y : Spans(k, x, y)' <=> Spans(k, x, y)
  BY SpansKept
<1>3. pieces' # pieces
  BY <1>1, AppendIsMore
<1>4. PICK l : l = Len(pieces) + 1
  OBVIOUS
<1>5. Len(pieces') = l /\ pieces'[l] = p /\ \A x, y : Spans(l, x, y)' <=> x = Pos /\ y = d
  BY <1>3, <1>4, SpansKept
<1>6. PICK D : D = C \cup {d}
  OBVIOUS
<1>7. /\ \A x, y \in C : Neighbours(D, x, y) <=> Neighbours(C, x, y)
      /\ Neighbours(D, b, d)
      /\ \A x \in C : Neighbours(D, x, d) => x = b
      /\ \A y \in C : ~Neighbours(D, d, y)
  BY <1>6, Zenon DEF Grown
<1>8. b \in D /\ d \in D /\ C \subseteq D /\ b \in C /\ ~Neighbours(D, d, d)
  BY <1>6 DEF Chain, Neighbours
<1>9. \A k \in 1..l : k \in 1..Len(pieces) \/ k = l
  BY <1>1, <1>4
<1>10. l \in 1..l /\ \A k \in 1..Len(pieces) : k \in 1..l
  BY <1>1, <1>4
<1>11. ASSUME NEW k \in 1..l, pieces'[k].event
       PROVE  \E x, y \in D : Spans(k, x, y)' /\ Neighbours(D, x, y) /\ y - x <= MaxEvent
  <2>1. CASE k \in 1..Len(pieces)
    <3>1. PICK x \in C, y \in C : Spans(k, x, y) /\ Neighbours(C, x, y) /\ y - x <= MaxEvent
      BY <1>2, <1>11, <2>1 DEF Read
    <3>2. QED
      BY <1>2, <1>7, <1>8, <2>1, <3>1
  <2>2. CASE k = l
    <3>1. b = Pos /\ n <= MaxEvent
      BY <1>5, <1>11, <2>2
    <3>2. d - b <= MaxEvent
      <4>1. n \in Nat
        BY <1>1 DEF Types
      <4>2. QED
        BY <1>1, <3>1, <4>1
    <3>3. Spans(l, b, d)'
      BY <1>5, <3>1
    <3>4. QED
      BY <1>7, <1>8, <2>2, <3>2, <3>3
  <2>3. QED
    BY <1>9, <2>1, <2>2
<1>12. ASSUME NEW x \in D, NEW y \in D, Neighbours(D, x, y), y - x <= MaxEvent
       PROVE  \E k \in 1..l : pieces'[k].event /\ Spans(k, x, y)'
  <2>1. CASE x \in C /\ y \in C
    <3>1. PICK k \in 1..Len(pieces) : pieces[k].event /\ Spans(k, x, y)
      BY <1>7, <1>12, <2>1 DEF Read
    <3>2. QED
      BY <1>2, <1>10, <3>1
  <2>2. CASE y = d
    <3>1. x = b
      BY <1>6, <1>7, <1>8, <1>12, <2>2
    <3>2. p.event /\ b = Pos
      BY <1>1, <1>12, <2>2, <3>1
    <3>3. QED
      BY <1>5, <1>10, <2>2, <3>1, <3>2
  <2>3. x # d \/ y = d
    BY <1>6, <1>7, <1>12
  <2>4. QED
    BY <1>6, <2>1, <2>2, <2>3
<1>13. Read(D)'
  BY <1>5, <1>11, <1>12, Zenon DEF Read
<1>14. QED
  BY <1>6, <1>13

\* An end behind an earlier unit than Pos is an end behind Pos, but for those that
\* the last three units can belong to.
LEMMA EndsAgree ==
  ASSUME NEW b \in Nat, NEW p \in Nat, NEW q \in Nat, b <= p
  PROVE  /\ StreamEnd(p, q) => StreamEnd(b, q)
         /\ StreamEnd(b, q) /\ p + 3 <= q => StreamEnd(p, q)
  BY DEF StreamEnd

\* While the parser resynchronises, it finds the first end of the event that
\* was too large.
LEMMA ResyncFinds ==
  ASSUME NEW b \in Nat, NEW p \in Nat, NEW q \in Nat, b <= p, NoEnd(b, p + 3), First(p, q)
  PROVE  First(b, q) /\ p + 3 < q
<1>1. StreamEnd(p, q) /\ NoEnd(p, q - 1) /\ q \in 0..q
  BY DEF First
<1>2. StreamEnd(b, q)
  BY <1>1, EndsAgree
<1>3. p + 3 < q
  BY <1>2 DEF NoEnd
<1>4. ASSUME NEW x \in 0..(q - 1), StreamEnd(b, x) PROVE FALSE
  <2>1. ~(x <= p + 3) /\ x \in Nat
    BY <1>4 DEF NoEnd
  <2>2. StreamEnd(p, x)
    BY <1>4, <2>1, EndsAgree
  <2>3. QED
    BY <1>1, <2>2 DEF NoEnd
<1>5. QED
  BY <1>2, <1>3, <1>4, Zenon DEF First, NoEnd

LEMMA ResyncMisses ==
  ASSUME NEW b \in Nat, NEW p \in Nat, NEW q \in Nat, b <= p, NoEnd(b, p + 3), NoEnd(p, q)
  PROVE  NoEnd(b, q)
<1>1. ASSUME NEW x \in 0..q, StreamEnd(b, x) PROVE FALSE
  <2>1. ~(x <= p + 3) /\ x \in Nat
    BY <1>1 DEF NoEnd
  <2>2. StreamEnd(p, x)
    BY <1>1, <2>1, EndsAgree
  <2>3. QED
    BY <1>1, <2>2 DEF NoEnd
<1>2. QED
  BY <1>1, Zenon DEF NoEnd

LEMMA SectionInit == Init => SectionInv
<1> SUFFICES ASSUME Init PROVE SectionInv
  OBVIOUS
<1>1. Len(chunk) = 0 /\ Len(buf) = 0 /\ fed = 0
  BY DEF Init
<1>2. Len(pieces) = 0 /\ resyncing = FALSE
  BY DEF Init
<1>3. Pos = 0
  BY <1>1 DEF Pos
<1>4. PICK C : C = {0}
  OBVIOUS
<1>5. Chain(C, 0) /\ C \in SUBSET Nat
  BY <1>4 DEF Chain
<1>6. Read(C)
  BY <1>2, <1>4 DEF Read, Neighbours
<1>7. NoEnd(0, fed)
  BY <1>1 DEF NoEnd, StreamEnd
<1>8. Now(0)
  BY <1>2, <1>3, <1>7 DEF Now
<1>9. Sections(C, 0) /\ 0 \in Nat
  BY <1>5, <1>6, <1>8 DEF Sections
<1>10. QED
  BY <1>5, <1>9 DEF SectionInv

LEMMA SamePieces ==
  ASSUME pieces' = pieces, NEW C
  PROVE  Read(C)' <=> Read(C)
<1>1. ASSUME NEW k PROVE Before(k)' = Before(k)
  BY DEF Before, Units
<1>2. ASSUME NEW k, NEW c, NEW d PROVE Spans(k, c, d)' <=> Spans(k, c, d)
  BY <1>1, Zenon DEF Spans
<1>3. QED
  BY <1>2, Zenon DEF Read

LEMMA SectionStep == KeptInv /\ KeptInv' /\ SectionInv /\ [Next]_vars => SectionInv'
<1> SUFFICES ASSUME KeptInv, KeptInv', SectionInv, [Next]_vars, pc' # "ended" PROVE SectionInv'
  BY DEF SectionInv
<1>1. /\ Len(buf) \in Nat /\ Len(chunk) \in Nat /\ MaxEvent \in Nat /\ MaxEvent >= 3 /\ Pos \in Nat
      /\ Len(buf) <= MaxEvent + 1 /\ pc \in {"idle", "feed", "ended"} /\ resyncing \in BOOLEAN
      /\ fed = Pos + Len(buf) + Len(chunk)
  BY MaxEventAssumption, SMTT(30) DEF KeptInv, Types, BufferInv, PlaceInv, Pos, Lookbehind
<1>2. SUFFICES ASSUME pc # "ended" \/ UNCHANGED vars
               PROVE  \E b \in Nat : \E C \in SUBSET Nat : (Chain(C, b) /\ Read(C) /\ Now(b))'
  <2>1. pc # "ended" \/ UNCHANGED vars
    BY DEF Next, Chunk, Resync, TakeEvent, Overflow, Fill, End
  <2>2. \E b \in Nat : \E C \in SUBSET Nat : (Chain(C, b) /\ Read(C) /\ Now(b))'
    BY <1>2, <2>1
  <2>3. QED
    BY <2>2 DEF SectionInv, Sections
<1>3. pc # "ended"
  BY <1>2 DEF vars
<1>4. PICK b \in Nat, C \in SUBSET Nat : Chain(C, b) /\ Read(C) /\ Now(b)
  BY <1>3 DEF SectionInv, Sections
<1>5. /\ b <= Pos /\ (~resyncing => b = Pos)
      /\ resyncing => Pos + Len(buf) - b > MaxEvent /\ NoEnd(b, Pos + Len(buf))
  BY <1>4 DEF Now
<1>6. ASSUME stream' = stream
      PROVE  /\ \A x, q : NoEnd(x, q)' <=> NoEnd(x, q)
             /\ \A D, x : Chain(D, x)' <=> Chain(D, x)
  BY <1>6, SameStream
<1>7. ASSUME NEW n \in 1..Len(stream), Chunk(n)
      PROVE  (Chain(C, b) /\ Read(C) /\ Now(b))'
  <2>1. /\ Pos' = Pos /\ pieces' = pieces /\ stream' = stream /\ buf' = buf
        /\ resyncing' = resyncing /\ pc' = "feed"
    BY <1>7, ChunkKept DEF Chunk
  <2>2. Read(C)' /\ Chain(C, b)'
    BY <1>4, <1>6, <2>1, SamePieces
  <2>3. Now(b)'
    BY <1>5, <1>6, <2>1 DEF Now
  <2>4. QED
    BY <2>2, <2>3
<1>8. CASE Resync
  <2>1. PICK m, n, p :
           /\ m \in 0..Len(chunk)
           /\ n \in 0..(Len(buf) + m) /\ Moves(m, n, p) /\ Fair(p) /\ ~p.event
           /\ resyncing /\ pc = "feed"
           /\ \/ /\ pieces' = Append(pieces, p) /\ First(Pos, Pos + n)
                 /\ resyncing' = FALSE /\ pc' = "feed"
              \/ /\ NoEnd(Pos, Pos + (Len(buf) + m)) /\ n = Len(buf) + m - 3
                 /\ resyncing' = TRUE
                 /\ pc' = IF m = Len(chunk) THEN "idle" ELSE "feed"
    BY <1>8, ResyncMoves
  <2>2. /\ Pos' = Pos + n
        /\ Len(buf') = Len(buf) + m - n /\ Len(chunk') = Len(chunk) - m
    BY <1>1, <2>1, PiecesKept
  <2>3. stream' = stream /\ fed' = fed /\ Len(buf) = 3
    BY <2>1 DEF Moves, KeptInv, BufferInv, Lookbehind
  <2>4. NoEnd(b, Pos + 3) /\ Pos + 3 - b > MaxEvent
    BY <1>5, <2>1, <2>3
  <2>5. CASE pieces' = Append(pieces, p) /\ First(Pos, Pos + n) /\ resyncing' = FALSE /\ pc' = "feed"
    <3>1. PICK d \in Nat : d = Pos + n
      BY <1>1, <2>1
    <3>2. First(b, d) /\ Pos + 3 < d
      BY <1>1, <1>5, <2>4, <2>5, <3>1, ResyncFinds
    <3>3. Chain(C \cup {d}, d) /\ Grown(C, b, d)
      BY <1>4, <3>2, ChainGrows
    <3>4. d - b > MaxEvent
      BY <1>1, <2>4, <3>2
    <3>5. Read(C \cup {d})'
      BY <1>4, <2>1, <2>5, <3>1, <3>3, <3>4, ReadGrows
    <3>6. Now(d)'
      BY <2>2, <2>5, <3>1 DEF Now
    <3>7. Chain(C \cup {d}, d)'
      BY <1>6, <2>3, <3>3
    <3>8. QED
      BY <3>5, <3>6, <3>7
  <2>6. CASE /\ NoEnd(Pos, Pos + (Len(buf) + m)) /\ n = Len(buf) + m - 3
             /\ resyncing' = TRUE
             /\ pc' = IF m = Len(chunk) THEN "idle" ELSE "feed"
    <3>1. PICK q \in Nat : q = Pos + (Len(buf) + m)
      BY <1>1, <2>1
    <3>2. NoEnd(b, q)
      BY <1>1, <1>5, <2>4, <2>6, <3>1, ResyncMisses
    <3>3. Pos' + Len(buf') = q /\ q - b > MaxEvent /\ b <= Pos'
      BY <1>1, <1>5, <2>1, <2>2, <2>3, <2>4, <3>1
    <3>4. pc' = "idle" => q = fed'
      BY <1>1, <2>1, <2>3, <2>6, <3>1
    <3>5. Now(b)'
      <4>1. NoEnd(b, q)'
        BY <1>6, <2>3, <3>2
      <4>2. NoEnd(b, Pos + Len(buf))' /\ (pc' = "idle" => NoEnd(b, fed)')
        BY <3>3, <3>4, <4>1
      <4>3. b <= Pos' /\ resyncing' = TRUE /\ Pos' + Len(buf') - b > MaxEvent
        <5>1. Pos' \in Int /\ Len(buf') \in Int
          BY <1>1, <2>1, <2>2
        <5>2. QED
          BY <1>1, <2>6, <3>1, <3>3, <5>1
      <4>4. QED
        BY <4>2, <4>3 DEF Now
    <3>6. Read(C)'
      BY <1>4, <2>1, ReadStays
    <3>7. Chain(C, b)'
      BY <1>4, <1>6, <2>3
    <3>8. QED
      BY <3>5, <3>6, <3>7
  <2>7. QED
    BY <2>1, <2>5, <2>6
<1>9. CASE TakeEvent
  <2>1. PICK n, p :
           /\ n \in 2..Len(buf) /\ Moves(0, n, p) /\ Fair(p) /\ (p.event <=> n <= MaxEvent)
           /\ pieces' = Append(pieces, p) /\ First(Pos, Pos + n)
           /\ ~resyncing /\ pc = "feed" /\ resyncing' = resyncing /\ pc' = pc
    BY <1>9, TakeMoves
  <2>2. 0 \in 0..Len(chunk) /\ n \in 0..(Len(buf) + 0) /\ b = Pos /\ n \in Nat
    BY <1>1, <1>5, <2>1
  <2>3. Pos' = Pos + n /\ stream' = stream
    BY <1>1, <2>1, <2>2, PiecesKept DEF Moves
  <2>4. PICK d \in Nat : d = Pos + n
    BY <1>1, <2>2
  <2>5. Chain(C \cup {d}, d) /\ Grown(C, b, d)
    BY <1>4, <2>1, <2>2, <2>4, ChainGrows
  <2>6. IF p.event THEN b = Pos /\ n <= MaxEvent ELSE d - b > MaxEvent
    BY <1>1, <2>1, <2>2, <2>4
  <2>7. Read(C \cup {d})'
    BY <1>4, <2>1, <2>2, <2>4, <2>5, <2>6, ReadGrows
  <2>8. Now(d)'
    BY <2>1, <2>3, <2>4 DEF Now
  <2>9. Chain(C \cup {d}, d)'
    BY <1>6, <2>3, <2>5
  <2>10. QED
    BY <2>7, <2>8, <2>9
<1>10. CASE Overflow
  <2>1. PICK n, p :
           /\ n = Len(buf) - 3 /\ Len(buf) > MaxEvent /\ Moves(0, n, p) /\ Fair(p) /\ ~p.event
           /\ n \in 0..Len(buf) /\ NoEnd(Pos, Pos + Len(buf))
           /\ ~resyncing /\ pc = "feed" /\ resyncing' = TRUE /\ pc' = pc
    BY <1>10, OverflowMoves
  <2>2. 0 \in 0..Len(chunk) /\ n \in 0..(Len(buf) + 0) /\ b = Pos
    BY <1>1, <1>5, <2>1
  <2>3. Pos' = Pos + n /\ Len(buf') = Len(buf) + 0 - n /\ stream' = stream
    BY <1>1, <2>1, <2>2, PiecesKept DEF Moves
  <2>4. Pos' + Len(buf') = Pos + Len(buf) /\ b <= Pos' /\ Pos' + Len(buf') - b > MaxEvent
    BY <1>1, <2>1, <2>2, <2>3
  <2>5. Now(b)'
    BY <1>6, <2>1, <2>2, <2>3, <2>4 DEF Now
  <2>6. Read(C)'
    BY <1>4, <2>1, <2>2, ReadStays
  <2>7. Chain(C, b)'
    BY <1>4, <1>6, <2>3
  <2>8. QED
    BY <2>5, <2>6, <2>7
<1>11. CASE Fill
  <2>1. PICK m, p :
           /\ m \in 0..Len(chunk)
           /\ Moves(m, 0, p) /\ pieces' = pieces
           /\ NoEnd(Pos, Pos + Len(buf))
           /\ ~resyncing /\ resyncing' = resyncing
           /\ \/ chunk = <<>> /\ pc' = "idle"
              \/ pc' = "feed"
    BY <1>11, FillMoves
  <2>2. 0 \in 0..(Len(buf) + m) /\ b = Pos
    BY <1>1, <1>5, <2>1
  <2>3. Pos' = Pos + 0 /\ stream' = stream /\ fed' = fed
    BY <1>1, <2>1, <2>2, PiecesKept DEF Moves
  <2>4. chunk = <<>> => fed = Pos + Len(buf)
    BY <1>1
  <2>5. Now(b)'
    BY <1>1, <1>6, <2>1, <2>2, <2>3, <2>4 DEF Now
  <2>6. Read(C)' /\ Chain(C, b)'
    BY <1>4, <1>6, <2>1, <2>3, SamePieces
  <2>7. QED
    BY <2>5, <2>6
<1>12. CASE UNCHANGED vars
  <2>1. Pos' = Pos /\ pieces' = pieces /\ stream' = stream /\ Now(b)'
    BY <1>4, <1>6, <1>12 DEF vars, Pos, Now
  <2>2. QED
    BY <1>4, <1>6, <2>1, SamePieces
<1>13. QED
  BY <1>7, <1>8, <1>9, <1>10, <1>11, <1>12 DEF Next, End

-----------------------------------------------------------------------------
(* The cuts of a stream. *)

\* f has at each place what can be reached from there by ends of events.
Reaches(f, s) ==
  f = [p \in 0..Len(s) |->
         {p} \cup UNION {f[p + e[1] + e[2]] : e \in EventEnds(Drop(s, p))}]

\* The recursion of Cuts has a solution: what every closed set holds.
LEMMA ReachExists ==
  ASSUME NEW A, NEW s \in Seq(A)
  PROVE  \E f : Reaches(f, s)
<1> DEFINE n == Len(s)
           Ends(c) == {c + e[1] + e[2] : e \in EventEnds(Drop(s, c))}
           Closed(K) == \A c \in K : Ends(c) \subseteq K
           Of(p) == {x \in 0..n : \A K \in SUBSET (0..n) : Closed(K) /\ p \in K => x \in K}
<1>1. ASSUME NEW c \in 0..n PROVE Ends(c) \subseteq 0..n
  <2>1. Drop(s, c) \in Seq(A) /\ Len(Drop(s, c)) = n - c
    BY DropIs
  <2>2. ASSUME NEW e \in EventEnds(Drop(s, c)) PROVE c + e[1] + e[2] \in 0..n
    <3>1. e[1] \in Nat /\ e[2] \in Nat /\ e[1] + e[2] <= n - c /\ n \in Nat
      BY <2>1, EndIsFirst
    <3>2. QED
      BY <3>1
  <2>3. QED
    BY <2>2
<1> HIDE DEF Ends, n
<1>2. ASSUME NEW p \in 0..n PROVE p \in Of(p) /\ Of(p) \in SUBSET (0..n) /\ Closed(Of(p))
  <2>1. p \in Of(p) /\ Of(p) \in SUBSET (0..n)
    OBVIOUS
  <2>2. ASSUME NEW c \in Of(p), NEW x \in Ends(c) PROVE x \in Of(p)
    <3>1. x \in 0..n
      BY <1>1
    <3>2. ASSUME NEW K \in SUBSET (0..n), Closed(K), p \in K PROVE x \in K
      BY <3>2
    <3>3. QED
      BY <3>1, <3>2
  <2>3. QED
    BY <2>1, <2>2
<1>3. ASSUME NEW p \in 0..n PROVE Of(p) = {p} \cup UNION {Of(q) : q \in Ends(p)}
  <2>1. PICK K : K = {p} \cup UNION {Of(q) : q \in Ends(p)}
    OBVIOUS
  <2>2. K \in SUBSET (0..n) /\ p \in K
    BY <1>1, <1>2, <2>1
  <2>3. Closed(K)
    <3>1. ASSUME NEW c \in K PROVE Ends(c) \subseteq K
      <4>1. CASE c = p
        <5>1. ASSUME NEW x \in Ends(p) PROVE x \in K
          <6>1. x \in Of(x)
            BY <1>1, <1>2
          <6>2. QED
            BY <2>1, <6>1
        <5>2. QED
          BY <4>1, <5>1
      <4>2. CASE c # p
        <5>1. PICK q \in Ends(p) : c \in Of(q)
          BY <2>1, <4>2
        <5>2. q \in 0..n
          BY <1>1
        <5>3. Ends(c) \subseteq Of(q)
          BY <1>2, <5>1, <5>2
        <5>4. QED
          BY <2>1, <5>1, <5>3
      <4>3. QED
        BY <4>1, <4>2
    <3>2. QED
      BY <3>1
  <2>4. Of(p) \subseteq K
    BY <2>2, <2>3
  <2>5. ASSUME NEW q \in Ends(p) PROVE Of(q) \subseteq Of(p)
    <3>1. ASSUME NEW x \in Of(q), NEW M \in SUBSET (0..n), Closed(M), p \in M PROVE x \in M
      <4>1. q \in M
        BY <3>1
      <4>2. QED
        BY <3>1, <4>1
    <3>2. QED
      BY <3>1
  <2>6. K \subseteq Of(p)
    BY <1>2, <2>1, <2>5
  <2>7. QED
    BY <2>1, <2>4, <2>6
<1> HIDE DEF Of
<1>4. PICK f : f = [p \in 0..n |-> Of(p)]
  OBVIOUS
<1>5. ASSUME NEW p \in 0..n
      PROVE  f[p] = {p} \cup UNION {f[p + e[1] + e[2]] : e \in EventEnds(Drop(s, p))}
  <2>1. \A e \in EventEnds(Drop(s, p)) : p + e[1] + e[2] \in 0..n
    BY <1>1 DEF Ends
  <2>2. \A e \in EventEnds(Drop(s, p)) : f[p + e[1] + e[2]] = Of(p + e[1] + e[2])
    BY <1>4, <2>1
  <2>3. {f[p + e[1] + e[2]] : e \in EventEnds(Drop(s, p))} = {Of(q) : q \in Ends(p)}
    BY <2>2, Zenon DEF Ends
  <2>4. f[p] = Of(p)
    BY <1>4
  <2>5. QED
    BY <1>3, <2>3, <2>4
<1>6. f = [p \in 0..n |-> {p} \cup UNION {f[p + e[1] + e[2]] : e \in EventEnds(Drop(s, p))}]
  BY <1>4, <1>5
<1>7. QED
  BY <1>6, Zenon DEF Reaches, n

LEMMA CutsAre ==
  ASSUME NEW A, NEW s \in Seq(A)
  PROVE  \E f : Cuts(s) = f[0] /\ Reaches(f, s)
<1> DEFINE next == CHOOSE f : f = [p \in 0..Len(s) |->
                                     {p} \cup UNION {f[p + e[1] + e[2]] : e \in EventEnds(Drop(s, p))}]
<1>1. PICK f : Reaches(f, s)
  BY ReachExists
<1>2. next = [p \in 0..Len(s) |->
                {p} \cup UNION {next[p + e[1] + e[2]] : e \in EventEnds(Drop(s, p))}]
  BY <1>1, Zenon DEF Reaches
<1>3. Cuts(s) = next[0]
  BY Zenon DEF Cuts
<1>4. Reaches(next, s)
  BY <1>2, Zenon DEF Reaches
<1>5. QED
  BY <1>3, <1>4

LEMMA ArrivedIs ==
  ASSUME Types
  PROVE  /\ SubSeq(stream, 1, fed) \in Seq(StreamUnits) /\ Len(SubSeq(stream, 1, fed)) = fed
         /\ \A i \in 1..fed : SubSeq(stream, 1, fed)[i] = stream[i]
<1>1. fed \in Int /\ fed \in Nat /\ \A i \in 1..fed : stream[i] \in StreamUnits
  BY DEF Types
<1>2. QED
  BY <1>1, SubSeqProperties

\* From every place but the last, the next one is found; from the last, none.
LEMMA NextIsFound ==
  ASSUME Types, NEW s, s = SubSeq(stream, 1, fed),
         NEW b \in Nat, NEW C \in SUBSET Nat, Chain(C, b), b <= fed, NoEnd(b, fed),
         NEW c \in C
  PROVE  /\ c = b => EventEnds(Drop(s, c)) = {}
         /\ \A d \in C : First(c, d) =>
              {c + e[1] + e[2] : e \in EventEnds(Drop(s, c))} = {d}
<1>1. fed \in Nat /\ c \in 0..b /\ c \in 0..fed /\ c \in Nat
  BY DEF Types, Chain
<1>2. s \in Seq(StreamUnits) /\ Len(s) = fed /\ \A i \in 1..fed : s[i] = stream[i]
  BY ArrivedIs
<1>3. PICK u : u = Drop(s, c)
  OBVIOUS
<1>4. u \in Seq(StreamUnits) /\ Len(u) = fed - c /\ \A i \in 1..Len(u) : u[i] = stream[c + i]
  <2>1. u \in Seq(StreamUnits) /\ Len(u) = fed - c /\ \A i \in 1..(fed - c) : u[i] = s[c + i]
    <3>1. c \in 0..Len(s)
      BY <1>1, <1>2
    <3>2. /\ Drop(s, c) \in Seq(StreamUnits) /\ Len(Drop(s, c)) = Len(s) - c
          /\ \A i \in 1..(Len(s) - c) : Drop(s, c)[i] = s[c + i]
      BY <1>2, <3>1, DropIs
    <3>3. QED
      BY <1>2, <1>3, <3>2
  <2>2. \A i \in 1..(fed - c) : c + i \in 1..fed
    BY <1>1
  <2>3. QED
    BY <1>2, <2>1, <2>2
<1>5. /\ EventEnds(u) = {} => NoEnd(c, c + Len(u))
      /\ \A e \in EventEnds(u) :
           /\ e[1] \in 0..Len(u) /\ e[1] + e[2] \in 2..Len(u) /\ First(c, c + (e[1] + e[2]))
  BY <1>1, <1>4, EndsInStream
<1>6. c + Len(u) = fed
  BY <1>1, <1>4
<1>7. ASSUME NEW e \in EventEnds(u)
      PROVE  /\ c + e[1] + e[2] \in c..fed /\ First(c, c + e[1] + e[2])
  <2>1. e[1] \in Nat /\ e[2] \in Nat
    BY <1>4, EndIsFirst
  <2>2. c + e[1] + e[2] = c + (e[1] + e[2]) /\ c + e[1] + e[2] \in c..fed
    <3>1. e[1] + e[2] \in 2..Len(u) /\ Len(u) \in Nat
      BY <1>4, <1>5
    <3>2. QED
      BY <1>1, <1>6, <2>1, <3>1
  <2>3. QED
    BY <1>5, <2>2
<1>8. ASSUME c = b PROVE EventEnds(u) = {}
  <2>1. ASSUME NEW e \in EventEnds(u) PROVE FALSE
    <3>1. PICK x \in Nat : x = c + e[1] + e[2] /\ x <= fed /\ First(b, x)
      BY <1>1, <1>7, <1>8
    <3>2. QED
      BY <1>1, <3>1 DEF First, NoEnd
  <2>2. QED
    BY <2>1
<1>9. ASSUME NEW d \in C, First(c, d)
      PROVE  {c + e[1] + e[2] : e \in EventEnds(u)} = {d}
  <2>1. d \in Nat /\ d <= fed
    BY <1>1 DEF Chain
  <2>2. EventEnds(u) # {}
    <3>1. ASSUME NoEnd(c, fed) PROVE FALSE
      BY <1>1, <1>9, <2>1, <3>1 DEF First, NoEnd
    <3>2. QED
      BY <1>5, <1>6, <3>1
  <2>3. ASSUME NEW e \in EventEnds(u) PROVE c + e[1] + e[2] = d
    <3>1. PICK x \in Nat : x = c + e[1] + e[2] /\ First(c, x)
      BY <1>1, <1>7
    <3>2. ~(x < d)
      <4>1. x < d => x \in 0..(d - 1)
        BY <2>1
      <4>2. QED
        BY <1>9, <3>1, <4>1 DEF First, NoEnd
    <3>3. ~(d < x)
      <4>1. d < x => d \in 0..(x - 1)
        BY <2>1
      <4>2. QED
        BY <1>9, <3>1, <4>1 DEF First, NoEnd
    <3>4. QED
      BY <2>1, <3>1, <3>2, <3>3
  <2>4. QED
    BY <2>2, <2>3
<1>10. QED
  BY <1>3, <1>8, <1>9, Zenon

\* The cuts of what has arrived are the places where its events ended.
LEMMA CutsFound ==
  ASSUME Types, NEW s, s = SubSeq(stream, 1, fed),
         NEW b \in Nat, NEW C \in SUBSET Nat, Chain(C, b), b <= fed, NoEnd(b, fed)
  PROVE  Cuts(s) = C
<1>1. s \in Seq(StreamUnits) /\ Len(s) = fed /\ fed \in Nat
  BY ArrivedIs DEF Types
<1>2. PICK f : Cuts(s) = f[0] /\ Reaches(f, s)
  BY <1>1, CutsAre
<1>3. ASSUME NEW p \in 0..fed
      PROVE  f[p] = {p} \cup UNION {f[p + e[1] + e[2]] : e \in EventEnds(Drop(s, p))}
  BY <1>1, <1>2 DEF Reaches
<1>4. \A c \in C : c \in 0..b /\ c \in 0..fed /\ c \in Nat
  BY <1>1 DEF Chain
<1> DEFINE From(c) == {x \in C : c <= x}
           T == {m \in 0..b : b - m \in C /\ f[b - m] # From(b - m)}
<1>5. ASSUME T # {} PROVE FALSE
  <2>1. PICK m \in T : \A y \in T : m <= y
    <3>1. T \subseteq Nat
      OBVIOUS
    <3>2. QED
      BY <1>5, <3>1, LeastElement
  <2>2. PICK c \in C : c = b - m /\ f[c] # From(c)
    BY <2>1
  <2>3. f[c] = {c} \cup UNION {f[c + e[1] + e[2]] : e \in EventEnds(Drop(s, c))}
    BY <1>3, <1>4
  <2>4. CASE c = b
    <3>1. EventEnds(Drop(s, c)) = {}
      BY <2>4, NextIsFound
    <3>2. f[c] = {c}
      BY <2>3, <3>1
    <3>3. \A x \in C : x \in Nat /\ c \in Nat /\ (c <= x <=> x = c)
      BY <1>4, <2>4
    <3>4. From(c) = {c}
      BY <3>3, Zenon
    <3>5. QED
      BY <2>2, <3>2, <3>4
  <2>5. CASE c # b
    <3>1. PICK d \in C : Neighbours(C, c, d) /\ First(c, d)
      BY <2>5 DEF Chain
    <3>2. {c + e[1] + e[2] : e \in EventEnds(Drop(s, c))} = {d}
      BY <3>1, NextIsFound
    <3>3. UNION {f[c + e[1] + e[2]] : e \in EventEnds(Drop(s, c))} = f[d]
      BY <3>2
    <3>4. f[d] = From(d)
      <4>1. b - d \in 0..b /\ b - (b - d) = d /\ b - d < m
        BY <1>4, <2>2, <3>1 DEF Neighbours
      <4>2. b - d \notin T
        BY <2>1, <4>1
      <4>3. QED
        BY <4>1, <4>2
    <3>5. From(c) = {c} \cup From(d)
      <4>1. \A x \in C : c <= x <=> x = c \/ d <= x
        <5>1. ASSUME NEW x \in C PROVE c <= x <=> x = c \/ d <= x
          <6>1. x \in Nat /\ c \in Nat /\ d \in Nat /\ c < d /\ (x <= c \/ d <= x)
            BY <1>4, <3>1 DEF Neighbours
          <6>2. QED
            BY <6>1
        <5>2. QED
          BY <5>1
      <4>2. QED
        BY <4>1, Zenon
    <3>6. QED
      BY <2>2, <2>3, <3>3, <3>4, <3>5
  <2>6. QED
    BY <2>4, <2>5
<1>6. f[0] = From(0)
  <2>1. 0 \in C /\ b \in 0..b /\ b - b = 0
    BY DEF Chain
  <2>2. b \notin T
    BY <1>5
  <2>3. QED
    BY <2>1, <2>2
<1>7. From(0) = C
  <2>1. \A x \in C : 0 <= x
    BY <1>4
  <2>2. QED
    BY <2>1, Zenon
<1>8. QED
  BY <1>2, <1>6, <1>7

LEMMA SectionHolds == Spec => []SseInv
<1>1. Init => SseInv
  BY KeptInit, SectionInit DEF SseInv
<1>2. SseInv /\ [Next]_vars => SseInv'
  BY KeptStep, SectionStep DEF SseInv
<1>3. QED
  BY <1>1, <1>2, PTL DEF Spec

LEMMA SectionsMeanEvents == SseInv => EventsAreTheStreams
<1> SUFFICES ASSUME KeptInv, SectionInv, pc = "idle" PROVE EventsAreTheStreams
  BY DEF SseInv, EventsAreTheStreams
<1>1. Types /\ chunk = <<>>
  BY DEF KeptInv, BufferInv
<1>2. PICK b \in Nat, C \in SUBSET Nat : Chain(C, b) /\ Read(C) /\ Now(b)
  BY DEF SectionInv, Sections
<1>3. NoEnd(b, fed) /\ b <= fed
  <2>1. fed \in Nat /\ Len(buf) \in Nat /\ Len(chunk) \in Nat
    BY <1>1 DEF Types
  <2>2. b <= Pos /\ Pos <= fed /\ Pos \in Int
    BY <1>2, <2>1 DEF Now, Pos
  <2>3. QED
    BY <1>2, <2>1, <2>2 DEF Now
<1>4. PICK s : s = SubSeq(stream, 1, fed)
  OBVIOUS
<1>5. Cuts(s) = C
  BY <1>1, <1>2, <1>3, <1>4, CutsFound
<1> DEFINE read == {<<Before(k), Before(k) + Len(pieces[k].raw)>> :
                      k \in {j \in DOMAIN pieces : pieces[j].event}}
           want == {e \in C \X C :
                      /\ e[1] < e[2]
                      /\ e[2] - e[1] <= MaxEvent
                      /\ ~\E c \in C : e[1] < c /\ c < e[2]}
<1>6. DOMAIN pieces = 1..Len(pieces)
  BY <1>1, LenProperties DEF Types
<1>7. ASSUME NEW c \in C, NEW d \in C
      PROVE  Neighbours(C, c, d) <=> c < d /\ ~\E x \in C : c < x /\ x < d
  <2>1. \A x \in C : x \in Nat /\ c \in Nat /\ d \in Nat /\ ((x <= c \/ d <= x) <=> ~(c < x /\ x < d))
    OBVIOUS
  <2>2. QED
    BY <2>1 DEF Neighbours
<1>8. ASSUME NEW e \in read PROVE e \in want
  <2>1. PICK k \in 1..Len(pieces) :
          pieces[k].event /\ e = <<Before(k), Before(k) + Len(pieces[k].raw)>>
    BY <1>6
  <2>2. PICK c \in C, d \in C : Spans(k, c, d) /\ Neighbours(C, c, d) /\ d - c <= MaxEvent
    BY <1>2, <2>1 DEF Read
  <2>3. e = <<c, d>>
    BY <2>1, <2>2 DEF Spans
  <2>4. QED
    BY <1>7, <2>2, <2>3
<1>9. ASSUME NEW e \in want PROVE e \in read
  <2>1. PICK c \in C, d \in C : e = <<c, d>>
    <3>1. e \in C \X C
      OBVIOUS
    <3>2. e[1] \in C /\ e[2] \in C /\ e = <<e[1], e[2]>>
      BY <3>1
    <3>3. QED
      BY <3>2, Zenon
  <2>2. Neighbours(C, c, d) /\ d - c <= MaxEvent
    BY <1>7, <2>1
  <2>3. PICK k \in 1..Len(pieces) : pieces[k].event /\ Spans(k, c, d)
    BY <1>2, <2>2 DEF Read
  <2>4. QED
    BY <1>6, <2>1, <2>3 DEF Spans
<1>10. read = want
  BY <1>8, <1>9
<1>11. QED
  BY <1>4, <1>5, <1>10, Zenon DEF EventsAreTheStreams

\* Wherever the transport cuts the stream, feed reads exactly the events that lie
\* between two blank lines of the whole stream and are within the cap, and after
\* one over the cap it finds the next (SseParser::feed, find_event_end).
THEOREM EventsAreFound == Spec => []EventsAreTheStreams
  BY SectionHolds, SectionsMeanEvents, PTL

-----------------------------------------------------------------------------
(* Endpoint events are rewritten. *)

\* A field of s begins a line and is alone on it, but for carriage returns.
Fielded(s) ==
  \A i \in 1..Len(s) :
    s[i] \in {Endpoint, Message, Data, NoData} =>
      /\ i > 1 => s[i - 1] = LF
      /\ \A j \in (i + 1)..Len(s) : (\A h \in i..(j - 1) : s[h] # LF) => s[j] \in {CR, LF}

\* Every number up to the size of a set is the rank of one of its elements.
LEMMA RankExists ==
  ASSUME NEW n \in Nat, NEW S, S \subseteq 1..n, NEW k \in 1..Cardinality(S)
  PROVE  \E i \in S : Cardinality({j \in S : j <= i}) = k
<1> DEFINE upto(i) == {j \in S : j <= i}
<1>1. IsFiniteSet(S) /\ Cardinality(S) \in Nat
  <2>1. IsFiniteSet(1..n)
    BY FS_Interval
  <2>2. IsFiniteSet(S)
    BY <2>1, FS_Subset
  <2>3. QED
    BY <2>2, FS_CardinalityType
<1>2. PICK m \in Nat : m = Cardinality(S)
  BY <1>1
<1>3. ASSUME NEW i \in S
      PROVE  IsFiniteSet(upto(i)) /\ Cardinality(upto(i)) \in 1..m
  <2>1. IsFiniteSet(upto(i)) /\ Cardinality(upto(i)) <= m
    BY <1>1, <1>2, FS_Subset
  <2>2. i \in upto(i)
    OBVIOUS
  <2>3. Cardinality(upto(i)) # 0
    BY <2>1, <2>2, FS_EmptySet
  <2>4. Cardinality(upto(i)) \in Nat
    BY <2>1, FS_CardinalityType
  <2>5. QED
    BY <2>1, <2>3, <2>4
<1>4. ASSUME NEW i \in S, NEW j \in S, i < j PROVE Cardinality(upto(i)) # Cardinality(upto(j))
  <2>1. upto(i) \subseteq upto(j)
    <3>1. \A x \in S : x \in Nat /\ i \in Nat /\ j \in Nat /\ (x <= i => x <= j)
      BY <1>4
    <3>2. QED
      BY <3>1
  <2>2. j \in upto(j) /\ j \notin upto(i)
    BY <1>4
  <2>3. QED
    BY <1>3, <2>1, <2>2, FS_Subset
<1> HIDE DEF upto
<1>5. PICK r : r = [i \in S |-> Cardinality(upto(i))]
  OBVIOUS
<1>6. r \in [S -> 1..m] /\ \A i \in S : r[i] = Cardinality(upto(i))
  BY <1>3, <1>5
<1>7. \A i, j \in S : r[i] = r[j] => i = j
  <2>1. ASSUME NEW i \in S, NEW j \in S, r[i] = r[j] PROVE i = j
    <3>1. ~(i < j) /\ ~(j < i)
      BY <1>4, <1>6, <2>1
    <3>2. i \in Nat /\ j \in Nat
      OBVIOUS
    <3>3. QED
      BY <3>1, <3>2
  <2>2. QED
    BY <2>1
<1>8. r \in Injection(S, 1..m)
  BY <1>6, <1>7, Zenon DEF Injection, IsInjective
<1>9. IsFiniteSet(1..m) /\ Cardinality(1..m) = m
  BY FS_Interval
<1>10. r \in Surjection(S, 1..m)
  BY <1>2, <1>8, <1>9, FS_Injection
<1>11. PICK i \in S : r[i] = k
  BY <1>2, <1>10 DEF Surjection
<1>12. QED
  BY <1>6, <1>11 DEF upto

\* No rewritten event holds the field with the upstream's URI.
LEMMA RewrittenHidesData ==
  ASSUME NEW A, NEW s \in Seq(A), Fielded(s), DataFields(s) # {}
  PROVE  Data \notin Range(Rewritten(s))
<1> DEFINE first == FirstData(s)
           end   == Len(LineAt(s, first)) + first
           kept  == {i \in DOMAIN s : \/ ~DataLine(s, i)
                                      \/ i = first
                                      \/ i >= end /\ LF \notin Range(SubSeq(s, first, i - 1))}
           sent  == [k \in 1..Cardinality(kept) |->
                       LET i == CHOOSE i \in kept : Cardinality({j \in kept : j <= i}) = k
                       IN  IF i = first THEN LocalData ELSE s[i]]
<1>1. Rewritten(s) = sent
  BY Zenon DEF Rewritten
<1>2. first \in DOMAIN s /\ \A i \in DataFields(s) : first <= i
  <2>1. DataFields(s) \subseteq DOMAIN s /\ DataFields(s) \subseteq Nat
    BY DEF DataFields, LineStarts
  <2>2. QED
    BY <2>1, LeastIsMin DEF FirstData
<1>3. first \in Nat /\ first >= 1 /\ Len(s) \in Nat /\ kept \subseteq 1..Len(s)
  BY <1>2
<1>4. ASSUME NEW i \in kept, i # first, s[i] = Data PROVE FALSE
  <2>1. i \in 1..Len(s)
    BY <1>3
  <2>2. i \in DataFields(s)
    <3>1. i \in LineStarts(s)
      BY <1>4, <2>1 DEF Fielded, LineStarts
    <3>2. QED
      BY <1>3, <1>4, <2>1, <3>1 DEF DataFields
  <2>3. QED
    <3>1. first < i /\ i \in LineStarts(s)
      BY <1>2, <1>3, <1>4, <2>1, <2>2 DEF DataFields
    <3>2. i - 1 \in 1..Len(s) /\ s[i - 1] = LF
      BY <1>3, <2>1, <3>1 DEF LineStarts
    <3>3. DataLine(s, i)
      <4>1. SubSeq(s, i, i - 1) = <<>>
        BY <2>1, SubSeqEmpty
      <4>2. LF \notin Range(<<>>)
        BY DEF Range
      <4>3. i <= i
        BY <2>1
      <4>4. QED
        BY <2>2, <4>1, <4>2, <4>3, Zenon DEF DataLine
    <3>4. LF \notin Range(SubSeq(s, first, i - 1))
      BY <1>4, <3>3
    <3>5. LF \in Range(SubSeq(s, first, i - 1))
      <4>1. PICK t : t = SubSeq(s, first, i - 1)
        OBVIOUS
      <4>2. i - 1 \in Int /\ first \in Int /\ first <= i - 1 /\ \A h \in first..(i - 1) : s[h] \in A
        BY <1>3, <2>1, <3>1
      <4>3. /\ t \in Seq(A) /\ Len(t) = (i - 1) - first + 1
            /\ \A h \in 1..(i - 1) - first + 1 : t[h] = s[first + h - 1]
        BY <4>1, <4>2, SubSeqProperties
      <4>4. PICK h : h = i - first
        OBVIOUS
      <4>5. h \in 1..Len(t) /\ h \in 1..(i - 1) - first + 1 /\ first + h - 1 = i - 1
        BY <1>3, <2>1, <3>1, <4>3, <4>4
      <4>6. t[h] = LF /\ h \in DOMAIN t
        BY <3>2, <4>3, <4>5
      <4>7. QED
        BY <4>1, <4>6, Zenon DEF Range
    <3>6. QED
      BY <3>4, <3>5
<1> HIDE DEF kept, first
<1>5. ASSUME NEW k \in 1..Cardinality(kept) PROVE sent[k] # Data
  <2>1. \E i \in kept : Cardinality({j \in kept : j <= i}) = k
    <3>1. kept \subseteq 1..Len(s) /\ Len(s) \in Nat
      BY <1>3
    <3>2. QED
      BY <3>1, <1>5, RankExists, ZenonT(30)
  <2>2. PICK i : i = CHOOSE x \in kept : Cardinality({j \in kept : j <= x}) = k
    OBVIOUS
  <2>3. i \in kept
    BY <2>1, <2>2, Zenon
  <2>4. sent[k] = IF i = first THEN LocalData ELSE s[i]
    BY <2>2
  <2>5. QED
    BY <1>4, <2>3, <2>4, FieldsAssumption
<1>6. DOMAIN sent = 1..Cardinality(kept)
  OBVIOUS
<1>7. QED
  BY <1>1, <1>5, <1>6, Zenon DEF Range

LEMMA GreatestIsMax ==
  ASSUME NEW n \in Nat, NEW T, T \subseteq 1..n, T # {}
  PROVE  Max(T) \in T
<1>1. PICK R : R = {n - x : x \in T}
  OBVIOUS
<1>2. R \subseteq Nat /\ R # {}
  <2>1. \A x \in T : x \in 1..n /\ n - x \in Nat
    OBVIOUS
  <2>2. QED
    BY <1>1, <2>1
<1>3. PICK y \in R : \A z \in R : y <= z
  BY <1>2, LeastElement
<1>4. PICK x \in T : y = n - x
  BY <1>1, <1>3
<1>5. ASSUME NEW z \in T PROVE x >= z
  <2>1. n - z \in R /\ z \in 1..n /\ x \in 1..n
    BY <1>1
  <2>2. QED
    BY <1>3, <1>4, <2>1
<1>6. QED
  BY <1>5, Zenon DEF Max

LEMMA LineStartIs ==
  ASSUME NEW A, NEW s \in Seq(A), NEW i \in Nat
  PROVE  i \in LineStarts(s) <=> i = 1 \/ (i - 1 \in 1..Len(s) /\ s[i - 1] = LF)
<1>1. i \in LineStarts(s) <=> i = 1 \/ \E j \in 1..Len(s) : s[j] = LF /\ i = j + 1
  BY DEF LineStarts
<1>2. \A j \in 1..Len(s) : i = j + 1 <=> j = i - 1
  OBVIOUS
<1>3. QED
  BY <1>1, <1>2

\* A line that begins with a field or text goes up to q, which is the end of s or
\* has a line feed behind it, with or without a carriage return.
LineEnd(s, i, q) ==
  /\ \A h \in i..q : s[h] # LF
  /\ \/ q = Len(s)
     \/ q < Len(s) /\ s[q + 1] = LF /\ s[q] # CR
     \/ q + 1 < Len(s) /\ s[q + 1] = CR /\ s[q + 2] = LF

LEMMA LineIs ==
  ASSUME NEW A, NEW s \in Seq(A), NEW i \in 1..Len(s), s[i] \notin {LF, CR}
  PROVE  \E q \in i..Len(s) : LineAt(s, i) = SubSeq(s, i, q) /\ LineEnd(s, i, q)
<1> DEFINE ends == {j \in i..Len(s) : s[j] = LF}
<1>1. Len(s) \in Nat /\ i \in Nat /\ 1 <= i /\ i <= Len(s)
  OBVIOUS
<1>2. CASE ends = {}
  <2>1. LineAt(s, i) = SubSeq(s, i, Len(s))
    BY <1>2, Zenon DEF LineAt
  <2>2. Len(s) \in i..Len(s) /\ \A h \in i..Len(s) : s[h] # LF
    BY <1>1, <1>2
  <2>3. LineEnd(s, i, Len(s))
    BY <2>2 DEF LineEnd
  <2>4. QED
    BY <2>1, <2>2, <2>3
<1>3. CASE ends # {}
  <2>1. PICK d : d = Min(ends)
    OBVIOUS
  <2>2. d \in ends /\ \A y \in ends : d <= y
    <3>1. ends \subseteq Nat
      BY <1>1
    <3>2. QED
      BY <1>3, <2>1, <3>1, LeastIsMin
  <2>3. d \in i..Len(s) /\ s[d] = LF /\ d # i /\ \A h \in i..(d - 1) : s[h] # LF
    <3>1. ASSUME NEW h \in i..(d - 1), s[h] = LF PROVE FALSE
      <4>1. h \in i..Len(s) /\ h < d /\ h \in Nat /\ d \in Nat
        BY <1>1, <2>2
      <4>2. h \in ends
        BY <3>1, <4>1
      <4>3. d <= h
        BY <2>2, <4>2
      <4>4. QED
        BY <4>1, <4>3
    <3>2. QED
      BY <2>2, <3>1
  <2>4. PICK l : l = d - 1
    OBVIOUS
  <2>5. LineAt(s, i) = IF l >= i /\ s[l] = CR THEN SubSeq(s, i, l - 1) ELSE SubSeq(s, i, l)
    BY <1>3, <2>1, <2>4, Zenon DEF LineAt
  <2>6. l \in i..Len(s) /\ l < Len(s) /\ l + 1 = d /\ l >= i /\ \A h \in i..l : s[h] # LF
    BY <1>1, <2>3, <2>4
  <2>7. CASE s[l] = CR
    <3>1. l # i /\ l - 1 \in i..Len(s) /\ (l - 1) + 1 = l /\ (l - 1) + 2 = d /\ (l - 1) + 1 < Len(s)
          /\ \A h \in i..(l - 1) : h \in i..l
      BY <1>1, <2>6, <2>7
    <3>2. LineEnd(s, i, l - 1)
      BY <2>3, <2>6, <2>7, <3>1 DEF LineEnd
    <3>3. QED
      BY <2>5, <2>6, <2>7, <3>1, <3>2
  <2>8. CASE s[l] # CR
    <3>1. LineEnd(s, i, l)
      BY <2>3, <2>6, <2>8 DEF LineEnd
    <3>2. QED
      BY <2>5, <2>6, <2>8, <3>1
  <2>9. QED
    BY <2>7, <2>8
<1>4. QED
  BY <1>2, <1>3

\* raw is an event whose blank line is all behind unit n, and that takes in a
\* carriage return before a line feed unless another line feed follows.
Framed(raw, n) ==
  /\ n + 2 <= Len(raw)
  /\ \A i \in (n + 1)..Len(raw) : raw[i] \in {LF, CR}
  /\ 1 <= n /\ raw[n] = CR /\ raw[n + 1] = LF => Len(raw) = n + 2 /\ raw[n + 2] = LF

Named(s) == {i \in LineStarts(s) : i <= Len(s) /\ s[i] \in {Endpoint, Message}}

LEMMA PrefixIs ==
  ASSUME NEW A, NEW s \in Seq(A), NEW n \in 0..Len(s)
  PROVE  /\ SubSeq(s, 1, n) \in Seq(A) /\ Len(SubSeq(s, 1, n)) = n
         /\ \A i \in 1..n : SubSeq(s, 1, n)[i] = s[i]
<1>1. n \in Nat /\ \A i \in 1..n : s[i] \in A
  OBVIOUS
<1>2. QED
  BY <1>1, SubSeqProperties

\* The event's name is found in what is before the blank line.
LEMMA NamedBefore ==
  ASSUME NEW A, NEW raw \in Seq(A), NEW n \in 0..Len(raw), Framed(raw, n)
  PROVE  Named(SubSeq(raw, 1, n)) = Named(raw) /\ Named(raw) \subseteq 1..n
<1>1. PICK body : body = SubSeq(raw, 1, n)
  OBVIOUS
<1>2. body \in Seq(A) /\ Len(body) = n /\ (\A i \in 1..n : body[i] = raw[i]) /\ Len(raw) \in Nat /\ n \in Nat
  BY <1>1, PrefixIs
<1>3. \A i \in LineStarts(raw) \cup LineStarts(body) : i \in Nat /\ i >= 1
  BY <1>2 DEF LineStarts
<1>4. ASSUME NEW i \in 1..n
      PROVE  i \in LineStarts(body) <=> i \in LineStarts(raw)
  BY <1>2, LineStartIs
<1>5. ASSUME NEW i \in Named(raw) PROVE i \in 1..n
  <2>1. i \in 1..Len(raw) /\ raw[i] \in {Endpoint, Message}
    BY <1>3 DEF Named
  <2>2. i \notin (n + 1)..Len(raw)
    BY <2>1, FieldsAssumption DEF Framed
  <2>3. QED
    BY <1>2, <2>1, <2>2
<1>6. ASSUME NEW i \in Named(body) PROVE i \in 1..n
  BY <1>2, <1>3, <1>6 DEF Named
<1>7. ASSUME NEW i \in 1..n PROVE i \in Named(body) <=> i \in Named(raw)
  <2>1. i <= Len(raw) /\ i <= Len(body)
    BY <1>2
  <2>2. QED
    BY <1>2, <1>4, <2>1 DEF Named
<1>8. QED
  BY <1>1, <1>5, <1>6, <1>7

\* An event that ends with this name, CR LF and another line feed.
Odd == <<Endpoint, CR, LF, LF>>

LEMMA OddIsSuffix ==
  ASSUME NEW A, NEW s \in Seq(A), NEW n \in Nat, n >= 1, Len(s) = n + 3,
         s[n] = Endpoint, s[n + 1] = CR, s[n + 2] = LF, s[n + 3] = LF
  PROVE  IsSuffix(Odd, s)
<1>1. PICK t : t = Reverse(s)
  OBVIOUS
<1>2. PICK u : u = Reverse(Odd)
  OBVIOUS
<1>3. Len(Odd) = 4 /\ Odd[1] = Endpoint /\ Odd[2] = CR /\ Odd[3] = LF /\ Odd[4] = LF
  BY DEF Odd
<1>4. PICK B : B = A \cup {Endpoint, CR, LF}
  OBVIOUS
<1>5. u \in Seq(B) /\ Len(u) = 4 /\ u[1] = LF /\ u[2] = LF /\ u[3] = CR /\ u[4] = Endpoint
  <2>1. u = [i \in 1..4 |-> Odd[(4 - i) + 1]]
    BY <1>2, <1>3 DEF Reverse
  <2>2. \A i \in 1..4 : Odd[(4 - i) + 1] \in B
    BY <1>3, <1>4
  <2>3. QED
    BY <1>3, <2>1, <2>2
<1>6. t \in Seq(B) /\ Len(t) = n + 3 /\ t[1] = LF /\ t[2] = LF /\ t[3] = CR /\ t[4] = Endpoint
  <2>1. t = [i \in 1..(n + 3) |-> s[((n + 3) - i) + 1]]
    BY <1>1 DEF Reverse
  <2>2. \A i \in 1..(n + 3) : s[((n + 3) - i) + 1] \in B
    BY <1>4
  <2>3. /\ ((n + 3) - 1) + 1 = n + 3 /\ ((n + 3) - 2) + 1 = n + 2
        /\ ((n + 3) - 3) + 1 = n + 1 /\ ((n + 3) - 4) + 1 = n
        /\ 1 \in 1..(n + 3) /\ 2 \in 1..(n + 3) /\ 3 \in 1..(n + 3) /\ 4 \in 1..(n + 3)
    OBVIOUS
  <2>4. t \in Seq(B) /\ Len(t) = n + 3
    <3>1. PICK m \in Nat : m = n + 3
      OBVIOUS
    <3>2. t \in [1..m -> B]
      BY <2>1, <2>2, <3>1
    <3>3. QED
      BY <3>1, <3>2
  <2>5. QED
    BY <2>1, <2>3, <2>4
<1>7. PICK v : v = SubSeq(t, 1, 4)
  OBVIOUS
<1>8. v \in Seq(B) /\ Len(v) = 4 /\ \A i \in 1..4 : v[i] = t[i]
  <2>1. 4 \in 0..Len(t)
    BY <1>6
  <2>2. QED
    BY <1>6, <1>7, <2>1, PrefixIs
<1>9. u = v
  <2>1. \A i \in 1..4 : i = 1 \/ i = 2 \/ i = 3 \/ i = 4
    OBVIOUS
  <2>2. \A i \in 1..Len(u) : u[i] = v[i]
    BY <1>5, <1>6, <1>8, <2>1
  <2>3. QED
    BY <1>5, <1>8, <2>2, SeqEqual
<1>10. SubSeq(u, 1, 4) = u
  BY <1>5, SubSeqFull
<1>11. Len(u) <= Len(t) /\ SubSeq(u, 1, Len(u)) = SubSeq(t, 1, Len(u))
  BY <1>5, <1>6, <1>7, <1>9, <1>10
<1>12. QED
  BY <1>1, <1>2, <1>11 DEF IsSuffix, IsPrefix

LEMMA OneUnit ==
  ASSUME NEW A, NEW s \in Seq(A), NEW i \in 1..Len(s), NEW q \in i..Len(s)
  PROVE  /\ SubSeq(s, i, q) \in Seq(A) /\ Len(SubSeq(s, i, q)) = (q - i) + 1
         /\ \A h \in 1..((q - i) + 1) : SubSeq(s, i, q)[h] = s[i + h - 1]
<1>1. i \in Int /\ q \in Int /\ i <= q /\ \A h \in i..q : s[h] \in A
  OBVIOUS
<1>2. QED
  BY <1>1, SubSeqProperties

\* field: without the blank line the name is the same, but for the odd one.
LEMMA NameIsEndpoint ==
  ASSUME NEW A, NEW raw \in Seq(A), NEW n \in 0..Len(raw), Framed(raw, n), ~IsSuffix(Odd, raw),
         Named(raw) # {}, LineAt(raw, Max(Named(raw))) = <<Endpoint>>
  PROVE  Name(SubSeq(raw, 1, n)) = <<Endpoint>>
<1>1. PICK body : body = SubSeq(raw, 1, n)
  OBVIOUS
<1>2. body \in Seq(A) /\ Len(body) = n /\ (\A i \in 1..n : body[i] = raw[i]) /\ Len(raw) \in Nat /\ n \in Nat
  BY <1>1, PrefixIs
<1>3. Named(body) = Named(raw) /\ Named(raw) \subseteq 1..n
  BY <1>1, NamedBefore
<1>4. PICK m : m = Max(Named(raw))
  OBVIOUS
<1>5. m \in Named(raw) /\ m \in 1..n
  BY <1>2, <1>3, <1>4, GreatestIsMax
<1>6. raw[m] \in {Endpoint, Message} /\ raw[m] \notin {LF, CR} /\ body[m] = raw[m]
  BY <1>2, <1>5, FieldsAssumption DEF Named
<1>7. PICK q \in m..Len(raw) : LineAt(raw, m) = SubSeq(raw, m, q) /\ LineEnd(raw, m, q)
  <2>1. m \in 1..Len(raw)
    BY <1>2, <1>5
  <2>2. QED
    BY <1>6, <2>1, LineIs
<1>8. q = m /\ raw[m] = Endpoint
  <2>1. /\ Len(SubSeq(raw, m, q)) = (q - m) + 1
        /\ \A h \in 1..((q - m) + 1) : SubSeq(raw, m, q)[h] = raw[m + h - 1]
    BY <1>2, <1>5, OneUnit
  <2>2. SubSeq(raw, m, q) = <<Endpoint>>
    BY <1>4, <1>7
  <2>3. Len(<<Endpoint>>) = 1 /\ <<Endpoint>>[1] = Endpoint
    OBVIOUS
  <2>4. (q - m) + 1 = 1
    BY <2>1, <2>2, <2>3
  <2>5. 1 \in 1..((q - m) + 1) /\ m + 1 - 1 = m
    BY <1>5, <2>4
  <2>6. QED
    BY <1>2, <1>5, <2>1, <2>2, <2>3, <2>4, <2>5
<1>9. m + 2 <= Len(raw) /\ (raw[m + 1] = LF \/ (raw[m + 1] = CR /\ raw[m + 2] = LF))
  <2>1. n + 2 <= Len(raw)
    BY DEF Framed
  <2>2. m + 2 <= Len(raw) /\ m # Len(raw) /\ m \in Nat /\ Len(raw) \in Nat
    BY <1>2, <1>5, <2>1
  <2>3. LineEnd(raw, m, m)
    BY <1>7, <1>8
  <2>4. \/ m = Len(raw)
        \/ m < Len(raw) /\ raw[m + 1] = LF /\ raw[m] # CR
        \/ m + 1 < Len(raw) /\ raw[m + 1] = CR /\ raw[m + 2] = LF
    BY <2>3, Zenon DEF LineEnd
  <2>5. QED
    BY <2>2, <2>4
<1>10. PICK p \in m..n : LineAt(body, m) = SubSeq(body, m, p) /\ LineEnd(body, m, p)
  <2>1. m \in 1..Len(body) /\ body[m] \notin {LF, CR}
    BY <1>2, <1>5, <1>6
  <2>2. QED
    BY <1>2, <2>1, LineIs
<1>11. ASSUME p # m PROVE FALSE
  <2>1. m + 1 \in m..p /\ m + 1 \in 1..n
    BY <1>2, <1>5, <1>11
  <2>2. raw[m + 1] = CR /\ raw[m + 2] = LF
    BY <1>2, <1>9, <1>10, <2>1 DEF LineEnd
  <2>3. p = m + 1
    <3>1. ASSUME m + 2 \in m..p PROVE FALSE
      <4>1. m + 2 \in 1..n
        BY <1>2, <1>5, <3>1
      <4>2. QED
        BY <1>2, <1>10, <2>2, <3>1, <4>1 DEF LineEnd
    <3>2. QED
      BY <1>2, <1>5, <1>11, <3>1
  <2>4. CASE p = n
    <3>1. n = m + 1 /\ 1 <= n /\ raw[n] = CR /\ raw[n + 1] = LF
      BY <1>2, <1>5, <2>2, <2>3, <2>4
    <3>2. Len(raw) = n + 2 /\ raw[n + 2] = LF
      BY <3>1 DEF Framed
    <3>3. /\ m \in Nat /\ m >= 1 /\ Len(raw) = m + 3 /\ raw[m] = Endpoint
          /\ raw[m + 1] = CR /\ raw[m + 2] = LF /\ raw[m + 3] = LF
      BY <1>2, <1>5, <1>8, <2>2, <3>1, <3>2
    <3>4. QED
      BY <3>3, OddIsSuffix
  <2>5. CASE p < n /\ body[p + 1] = LF /\ body[p] # CR
    BY <1>2, <2>1, <2>2, <2>3, <2>5
  <2>6. CASE p + 1 < n /\ body[p + 1] = CR /\ body[p + 2] = LF
    <3>1. p + 1 = m + 2 /\ m + 2 \in 1..n
      BY <1>2, <1>5, <2>3, <2>6
    <3>2. body[p + 1] = LF
      BY <1>2, <2>2, <3>1
    <3>3. QED
      BY <2>6, <3>2, UnitsAssumption
  <2>7. QED
    BY <1>2, <1>10, <2>4, <2>5, <2>6 DEF LineEnd
<1>12. LineAt(body, m) = <<Endpoint>>
  <2>1. LineAt(body, m) = SubSeq(body, m, m) /\ LineAt(raw, m) = SubSeq(raw, m, m)
    BY <1>7, <1>8, <1>10, <1>11
  <2>2. SubSeq(body, m, m) = SubSeq(raw, m, m)
    <3>1. /\ SubSeq(body, m, m) \in Seq(A) /\ Len(SubSeq(body, m, m)) = (m - m) + 1
          /\ \A h \in 1..((m - m) + 1) : SubSeq(body, m, m)[h] = body[m + h - 1]
      BY <1>2, <1>5, OneUnit
    <3>2. /\ SubSeq(raw, m, m) \in Seq(A) /\ Len(SubSeq(raw, m, m)) = (m - m) + 1
          /\ \A h \in 1..((m - m) + 1) : SubSeq(raw, m, m)[h] = raw[m + h - 1]
      BY <1>2, <1>5, OneUnit
    <3>3. (m - m) + 1 = 1 /\ \A h \in 1..1 : m + h - 1 = m
      BY <1>5
    <3>4. \A h \in 1..1 : SubSeq(body, m, m)[h] = SubSeq(raw, m, m)[h]
      BY <1>6, <3>1, <3>2, <3>3
    <3>5. QED
      BY <3>1, <3>2, <3>3, <3>4, SeqEqual
  <2>3. QED
    BY <1>4, <2>1, <2>2
<1>13. QED
  <2>1. Name(body) = IF Named(body) = {} THEN <<>> ELSE LineAt(body, Max(Named(body)))
    BY Zenon DEF Name, Named
  <2>2. QED
    BY <1>1, <1>3, <1>4, <1>12, <2>1

\* What feed holds is a part of the stream, so its fields are alone on their lines.
LEMMA BufferIsFielded ==
  ASSUME stream \in Streams, Types, PlaceInv, NEW n \in 0..Len(buf)
  PROVE  Fielded(SubSeq(buf, 1, n))
<1>1. /\ buf \in Seq(StreamUnits) /\ Len(buf) \in Nat /\ n \in Nat /\ Pos \in Nat
      /\ Pos + Len(buf) <= Len(stream) /\ Len(stream) \in Nat /\ DOMAIN stream = 1..Len(stream)
  BY DEF Types, PlaceInv, Pos
<1>2. PICK raw : raw = SubSeq(buf, 1, n)
  OBVIOUS
<1>3. Len(raw) = n /\ \A i \in 1..n : raw[i] = stream[Pos + i]
  <2>1. Len(raw) = n /\ \A i \in 1..n : raw[i] = buf[i]
    BY <1>1, <1>2, PrefixIs
  <2>2. \A i \in 1..n : buf[i] = stream[Pos + i]
    BY <1>1 DEF PlaceInv
  <2>3. QED
    BY <2>1, <2>2
<1>4. ASSUME NEW i \in 1..n, raw[i] \in {Endpoint, Message, Data, NoData}
      PROVE  /\ i > 1 => raw[i - 1] = LF
             /\ \A j \in (i + 1)..n : (\A h \in i..(j - 1) : raw[h] # LF) => raw[j] \in {CR, LF}
  <2>1. PICK k : k = Pos + i
    OBVIOUS
  <2>2. k \in DOMAIN stream /\ stream[k] \in {Endpoint, Message, Data, NoData}
    BY <1>1, <1>3, <1>4, <2>1
  <2>3. /\ k > 1 => stream[k - 1] = LF
        /\ \A j \in (k + 1)..Len(stream) :
             (\A h \in k..(j - 1) : stream[h] # LF) => stream[j] \in {CR, LF}
    BY <2>2, FieldsAssumption
  <2>4. i > 1 => raw[i - 1] = LF
    <3>1. i > 1 => k > 1 /\ i - 1 \in 1..n /\ Pos + (i - 1) = k - 1
      BY <1>1, <2>1
    <3>2. QED
      BY <1>3, <2>3, <3>1
  <2>5. ASSUME NEW j \in (i + 1)..n, \A h \in i..(j - 1) : raw[h] # LF
        PROVE  raw[j] \in {CR, LF}
    <3>1. Pos + j \in (k + 1)..Len(stream) /\ j \in 1..n
      BY <1>1, <2>1
    <3>2. ASSUME NEW g \in k..((Pos + j) - 1) PROVE stream[g] # LF
      <4>1. g - Pos \in i..(j - 1) /\ g - Pos \in 1..n /\ Pos + (g - Pos) = g
        BY <1>1, <2>1
      <4>2. QED
        BY <1>3, <2>5, <4>1
    <3>3. stream[Pos + j] \in {CR, LF}
      BY <2>3, <3>1, <3>2
    <3>4. QED
      BY <1>3, <3>1, <3>3
  <2>6. QED
    BY <2>4, <2>5
<1>5. QED
  BY <1>2, <1>3, <1>4 DEF Fielded

\* find_event_end returns the longest blank line at the first place.
LEMMA EventIsFramed ==
  ASSUME NEW A, NEW s \in Seq(A), NEW e \in EventEnds(s)
  PROVE  /\ e[1] \in Nat /\ e[1] + e[2] \in 2..Len(s) /\ e[1] <= e[1] + e[2]
         /\ Framed(SubSeq(s, 1, e[1] + e[2]), e[1])
<1>1. e \in BlankLines(s) /\ \A g \in BlankLines(s) : e[1] < g[1] \/ (e[1] = g[1] /\ e[2] >= g[2])
  BY DEF EventEnds
<1>2. PICK n, t : n = e[1] /\ t = e[2]
  OBVIOUS
<1>3. n \in 0..Len(s) /\ t \in {2, 3, 4} /\ n + t <= Len(s) /\ IsBlank(s, n, t) /\ Len(s) \in Nat
  BY <1>1, <1>2, BlankLinesAre
<1>4. PICK raw : raw = SubSeq(s, 1, n + t)
  OBVIOUS
<1>5. Len(raw) = n + t /\ \A i \in 1..(n + t) : raw[i] = s[i]
  <2>1. n + t \in 0..Len(s)
    BY <1>3
  <2>2. QED
    BY <1>4, <2>1, PrefixIs
<1>6. ASSUME NEW i \in (n + 1)..(n + t) PROVE s[i] \in {LF, CR}
  <2>1. i = n + 1 \/ i = n + 2 \/ (i = n + 3 /\ t # 2) \/ (i = n + 4 /\ t = 4)
    BY <1>3
  <2>2. QED
    BY <1>3, <2>1 DEF IsBlank
<1>7. ASSUME 1 <= n, s[n] = CR, s[n + 1] = LF PROVE t = 2 /\ s[n + 2] = LF
  <2>1. CASE t = 2
    BY <1>3, <2>1 DEF IsBlank
  <2>2. CASE t = 3
    <3>1. s[n + 2] = CR /\ s[n + 3] = LF
      BY <1>3, <2>2 DEF IsBlank
    <3>2. PICK f : f = <<n - 1, 4>>
      OBVIOUS
    <3>3. /\ f \in (0..Len(s)) \X {2, 3, 4} /\ f[1] = n - 1 /\ f[2] = 4 /\ (n - 1) + 4 <= Len(s)
          /\ (n - 1) + 1 = n /\ (n - 1) + 2 = n + 1 /\ (n - 1) + 3 = n + 2 /\ (n - 1) + 4 = n + 3
      BY <1>3, <1>7, <2>2, <3>2
    <3>4. IsBlank(s, n - 1, 4)
      BY <1>7, <3>1, <3>3 DEF IsBlank
    <3>5. f \in BlankLines(s)
      BY <3>3, <3>4, BlankLinesAre
    <3>6. n < n - 1 \/ n = n - 1
      BY <1>1, <1>2, <3>3, <3>5
    <3>7. QED
      BY <1>3, <3>6
  <2>3. CASE t = 4
    <3>1. s[n + 1] = CR
      BY <1>3, <2>3 DEF IsBlank
    <3>2. QED
      BY <1>7, <3>1, UnitsAssumption
  <2>4. QED
    BY <1>3, <2>1, <2>2, <2>3
<1>8. Framed(raw, n)
  <2>1. n + 2 <= Len(raw) /\ \A i \in (n + 1)..Len(raw) : raw[i] \in {LF, CR}
    BY <1>3, <1>5, <1>6
  <2>2. ASSUME 1 <= n, raw[n] = CR, raw[n + 1] = LF PROVE Len(raw) = n + 2 /\ raw[n + 2] = LF
    <3>1. n \in 1..(n + t) /\ n + 1 \in 1..(n + t) /\ n + 2 \in 1..(n + t)
      BY <1>3, <2>2
    <3>2. s[n] = CR /\ s[n + 1] = LF
      BY <1>5, <2>2, <3>1
    <3>3. QED
      BY <1>5, <1>7, <2>2, <3>1, <3>2
  <2>3. QED
    BY <2>1, <2>2 DEF Framed
<1>9. QED
  BY <1>2, <1>3, <1>4, <1>8

\* data_payload, rewrite_endpoint_uri: one data line that says anything is a URI,
\* whatever empty ones are beside it.
LEMMA BodyIsUri ==
  ASSUME NEW A, NEW raw \in Seq(A), NEW n \in 0..Len(raw), Framed(raw, n), Fielded(raw),
         Cardinality({i \in DOMAIN raw : raw[i] = Data}) = 1
  PROVE  IsUri(SubSeq(raw, 1, n)) /\ DataFields(raw) # {}
<1>1. PICK body : body = SubSeq(raw, 1, n)
  OBVIOUS
<1>2. /\ body \in Seq(A) /\ Len(body) = n /\ (\A i \in 1..n : body[i] = raw[i]) /\ Len(raw) \in Nat
      /\ n \in Nat /\ DOMAIN raw = 1..Len(raw)
  BY <1>1, PrefixIs
<1>3. PICK D : D = {i \in DOMAIN raw : raw[i] = Data}
  OBVIOUS
<1>4. D # {}
  <2>1. SUFFICES ASSUME D = {} PROVE FALSE
    OBVIOUS
  <2>2. Cardinality(D) = 1
    BY <1>3
  <2>3. Cardinality(D) = 0
    BY <2>1, FS_EmptySet, Zenon
  <2>4. QED
    BY <2>2, <2>3
<1>5. ASSUME NEW i \in 1..Len(raw), raw[i] \in {Data, NoData}
      PROVE  i \in 1..n /\ (i = 1 \/ (i - 1 \in 1..n /\ raw[i - 1] = LF))
  <2>1. i \notin (n + 1)..Len(raw)
    BY <1>5, FieldsAssumption DEF Framed
  <2>2. i \in 1..n
    BY <1>2, <2>1
  <2>3. i > 1 => raw[i - 1] = LF
    BY <1>5 DEF Fielded
  <2>4. QED
    BY <1>2, <2>2, <2>3
<1>6. ASSUME NEW i \in 1..n, raw[i] \in {Data, NoData}
      PROVE  i \in DataFields(body) /\ i \in DataFields(raw)
  <2>1. i \in 1..Len(raw) /\ i \in Nat /\ i <= n /\ i <= Len(raw)
    BY <1>2
  <2>2. i = 1 \/ (i - 1 \in 1..n /\ i - 1 \in 1..Len(raw) /\ raw[i - 1] = LF)
    BY <1>2, <1>5, <1>6, <2>1
  <2>3. i \in LineStarts(body) /\ i \in LineStarts(raw)
    BY <1>2, <2>1, <2>2, LineStartIs
  <2>4. QED
    BY <1>2, <1>6, <2>1, <2>3 DEF DataFields
<1>7. ASSUME NEW i \in DataFields(body)
      PROVE  i \in 1..n /\ raw[i] = body[i] /\ raw[i] \in {Data, NoData}
  <2>1. i \in Nat /\ i >= 1 /\ i <= n /\ body[i] \in {Data, NoData}
    BY <1>2 DEF DataFields, LineStarts
  <2>2. QED
    BY <1>2, <2>1
<1>8. {i \in DataFields(body) : body[i] = Data} = D
  <2>1. ASSUME NEW i \in D PROVE i \in DataFields(body) /\ body[i] = Data
    <3>1. i \in 1..Len(raw) /\ raw[i] = Data
      BY <1>2, <1>3
    <3>2. i \in 1..n
      BY <1>5, <3>1
    <3>3. QED
      BY <1>2, <1>6, <3>1, <3>2
  <2>2. ASSUME NEW i \in DataFields(body), body[i] = Data PROVE i \in D
    BY <1>2, <1>3, <1>7, <2>2
  <2>3. QED
    BY <2>1, <2>2
<1>9. ASSUME NEW i \in DataFields(body) PROVE Range(Tail(LineAt(body, i))) \subseteq {CR}
  <2>1. i \in 1..n /\ i \in 1..Len(raw) /\ raw[i] = body[i] /\ raw[i] \in {Data, NoData}
    BY <1>2, <1>7
  <2>2. PICK q \in i..n : LineAt(body, i) = SubSeq(body, i, q) /\ LineEnd(body, i, q)
    <3>1. body[i] \notin {LF, CR} /\ i \in 1..Len(body)
      BY <1>2, <2>1, FieldsAssumption
    <3>2. QED
      BY <1>2, <3>1, LineIs
  <2>3. PICK l : l = SubSeq(body, i, q)
    OBVIOUS
  <2>4. l \in Seq(A) /\ Len(l) = (q - i) + 1 /\ \A h \in 1..((q - i) + 1) : l[h] = body[i + h - 1]
    BY <1>2, <2>1, <2>3, OneUnit
  <2>5. l # <<>> /\ Len(l) \in Nat \ {0}
    <3>1. Len(l) \in Nat \ {0}
      BY <1>2, <2>1, <2>4
    <3>2. QED
      BY <2>4, <3>1, EmptyIs
  <2>6. Tail(l) \in Seq(A) /\ Len(Tail(l)) = Len(l) - 1 /\ \A h \in 1..Len(Tail(l)) : Tail(l)[h] = l[h + 1]
    BY <2>4, <2>5, HeadTailProperties
  <2>7. ASSUME NEW h \in 1..Len(Tail(l)) PROVE Tail(l)[h] = CR
    <3>1. PICK j : j = i + h
      OBVIOUS
    <3>2. /\ h + 1 \in 1..((q - i) + 1) /\ i + (h + 1) - 1 = j
          /\ j \in (i + 1)..Len(raw) /\ j \in i..q /\ j \in 1..n
      BY <1>2, <2>1, <2>4, <2>6, <3>1
    <3>3. Tail(l)[h] = raw[j]
      BY <1>2, <2>4, <2>6, <3>2
    <3>4. ASSUME NEW g \in i..j PROVE raw[g] # LF
      <4>1. g \in i..q /\ g \in 1..n
        BY <1>2, <2>1, <3>2
      <4>2. QED
        BY <1>2, <2>2, <4>1 DEF LineEnd
    <3>5. \A g \in i..(j - 1) : raw[g] # LF
      <4>1. \A g \in i..(j - 1) : g \in i..j
        BY <2>1, <3>2
      <4>2. QED
        BY <3>4, <4>1
    <3>6. raw[j] \in {CR, LF}
      BY <2>1, <3>2, <3>5 DEF Fielded
    <3>7. raw[j] # LF
      <4>1. j \in i..j
        BY <2>1, <3>2
      <4>2. QED
        BY <3>4, <4>1
    <3>8. QED
      BY <3>3, <3>6, <3>7
  <2>8. DOMAIN Tail(l) = 1..Len(Tail(l))
    BY <2>6
  <2>9. Range(Tail(l)) \subseteq {CR}
    BY <2>7, <2>8 DEF Range
  <2>10. QED
    BY <2>2, <2>3, <2>9
<1>10. DataFields(raw) # {}
  <2>1. PICK i : i \in D
    BY <1>4
  <2>2. i \in 1..Len(raw) /\ raw[i] = Data
    BY <1>2, <1>3, <2>1
  <2>3. i \in 1..n
    BY <1>5, <2>2
  <2>4. QED
    BY <1>6, <2>2, <2>3
<1>11. QED
  BY <1>1, <1>3, <1>8, <1>9, <1>10 DEF IsUri

\* A piece that is an endpoint event, with one URI, is forwarded with this
\* proxy's.
Pointed(p) ==
  LET raw   == p.raw
      named == {i \in DOMAIN raw : raw[i] \in {Endpoint, Message} /\ i \in LineStarts(raw)}
  IN  (/\ p.event
       /\ named # {} /\ LineAt(raw, Max(named)) = <<Endpoint>>
       /\ ~IsSuffix(<<Endpoint, CR, LF, LF>>, raw)
       /\ Cardinality({i \in DOMAIN raw : raw[i] = Data}) = 1)
        => /\ Data \notin Range(p.sent)
           /\ LocalData \in Range(p.sent)

PointedInv == stream \in Streams /\ \A k \in 1..Len(pieces) : Pointed(pieces[k])

LEMMA EventIsPointed ==
  ASSUME KeptInv, stream \in Streams, NEW e \in EventEnds(buf)
  PROVE  Pointed(Event(SubSeq(buf, 1, e[1] + e[2]), SubSeq(buf, 1, e[1])))
<1>1. Types /\ PlaceInv /\ buf \in Seq(StreamUnits)
  BY DEF KeptInv, Types
<1>2. PICK n, m : n = e[1] /\ m = e[1] + e[2]
  OBVIOUS
<1>3. PICK raw : raw = SubSeq(buf, 1, m)
  OBVIOUS
<1>4. n \in Nat /\ m \in 2..Len(buf) /\ n <= m /\ Framed(raw, n)
  BY <1>1, <1>2, <1>3, EventIsFramed
<1>5. raw \in Seq(StreamUnits) /\ Len(raw) = m /\ n \in 0..Len(raw) /\ Fielded(raw)
  <2>1. m \in 0..Len(buf)
    BY <1>1, <1>4
  <2>2. QED
    BY <1>1, <1>3, <1>4, <2>1, PrefixIs, BufferIsFielded
<1>6. SubSeq(buf, 1, n) = SubSeq(raw, 1, n)
  <2>1. m \in 0..Len(buf) /\ n \in 0..m
    BY <1>1, <1>4
  <2>2. QED
    BY <1>1, <1>3, <2>1, PrefixOfPrefix
<1>7. {i \in DOMAIN raw : raw[i] \in {Endpoint, Message} /\ i \in LineStarts(raw)} = Named(raw)
  <2>1. DOMAIN raw = 1..Len(raw) /\ Len(raw) \in Nat
    BY <1>5
  <2>2. \A i \in LineStarts(raw) : i \in Nat /\ i >= 1
    BY <2>1 DEF LineStarts
  <2>3. QED
    BY <2>1, <2>2 DEF Named
<1>8. ASSUME Named(raw) # {}, LineAt(raw, Max(Named(raw))) = <<Endpoint>>,
             ~IsSuffix(<<Endpoint, CR, LF, LF>>, raw),
             Cardinality({i \in DOMAIN raw : raw[i] = Data}) = 1
      PROVE  LET sent == Forwarded(raw, SubSeq(raw, 1, n))
             IN  Data \notin Range(sent) /\ LocalData \in Range(sent)
  <2>1. ~IsSuffix(Odd, raw)
    BY <1>8, Zenon DEF Odd
  <2>2. Name(SubSeq(raw, 1, n)) = <<Endpoint>>
    BY <1>4, <1>5, <1>8, <2>1, NameIsEndpoint
  <2>3. IsUri(SubSeq(raw, 1, n)) /\ DataFields(raw) # {}
    BY <1>4, <1>5, <1>8, BodyIsUri
  <2>4. Forwarded(raw, SubSeq(raw, 1, n)) = Rewritten(raw)
    BY <2>2, <2>3 DEF Forwarded
  <2>5. Data \notin Range(Rewritten(raw)) /\ LocalData \in Range(Rewritten(raw))
    BY <1>5, <2>3, RewrittenHidesData, RewrittenIsLocal
  <2>6. QED
    BY <2>4, <2>5
<1>9. PICK p : p = Event(raw, SubSeq(raw, 1, n))
  OBVIOUS
<1>10. p.raw = raw /\ p.sent = Forwarded(raw, SubSeq(raw, 1, n))
  BY <1>9 DEF Event
<1>11. Pointed(p)
  BY <1>7, <1>8, <1>10, Zenon DEF Pointed
<1>12. QED
  BY <1>2, <1>3, <1>6, <1>9, <1>11

LEMMA PointedInit == Init => PointedInv
<1> SUFFICES ASSUME Init PROVE PointedInv
  OBVIOUS
<1>1. stream \in Streams /\ Len(pieces) = 0
  BY DEF Init
<1>2. QED
  BY <1>1 DEF PointedInv

\* What is not read as an event adds nothing.
LEMMA PointedStep == KeptInv /\ PointedInv /\ [Next]_vars => PointedInv'
<1> SUFFICES ASSUME KeptInv, PointedInv, [Next]_vars PROVE PointedInv'
  OBVIOUS
<1>1. pieces \in Seq(Range(pieces)) /\ Len(pieces) \in Nat
  BY DEF KeptInv, Types
<1>2. stream' = stream /\ stream \in Streams
  BY DEF PointedInv, Next, vars, Chunk, Resync, TakeEvent, Overflow, Fill, End
<1>3. ASSUME NEW p, pieces' = Append(pieces, p), Pointed(p) PROVE PointedInv'
  <2>1. /\ Len(pieces') = Len(pieces) + 1 /\ pieces'[Len(pieces) + 1] = p
        /\ \A k \in 1..Len(pieces) : pieces'[k] = pieces[k]
    <3>1. pieces \in Seq(Range(pieces) \cup {p})
      BY <1>1
    <3>2. QED
      BY <1>3, <3>1, AppendProperties
  <2>2. ASSUME NEW k \in 1..Len(pieces') PROVE Pointed(pieces'[k])
    <3>1. k \in 1..Len(pieces) \/ k = Len(pieces) + 1
      BY <1>1, <2>1
    <3>2. QED
      BY <1>3, <2>1, <3>1 DEF PointedInv
  <2>3. QED
    BY <1>2, <2>2 DEF PointedInv
<1>4. ASSUME pieces' = pieces PROVE PointedInv'
  BY <1>2, <1>4 DEF PointedInv
<1>5. ASSUME NEW s PROVE Pointed(Passed(s))
  <2>1. ~Passed(s).event
    BY DEF Passed
  <2>2. QED
    BY <2>1, Zenon DEF Pointed
<1>6. ASSUME NEW s, PassOn(s, pieces) PROVE PointedInv'
  <2>1. \/ pieces' = pieces
        \/ \E u : pieces' = Append(pieces, Passed(u))
    BY <1>6, Zenon DEF PassOn
  <2>2. QED
    BY <1>3, <1>4, <1>5, <2>1
<1>7. CASE Resync
  <2>1. \/ \E u : pieces' = Append(pieces, Passed(u))
        \/ \E u : PassOn(u, pieces)
    BY <1>7, Zenon DEF Resync
  <2>2. QED
    BY <1>3, <1>5, <1>6, <2>1
<1>8. CASE TakeEvent
  <2>1. PICK e \in EventEnds(buf) :
          pieces' = Append(pieces, IF Oversized(SubSeq(buf, 1, e[1] + e[2]))
                                   THEN Passed(SubSeq(buf, 1, e[1] + e[2]))
                                   ELSE Event(SubSeq(buf, 1, e[1] + e[2]), SubSeq(buf, 1, e[1])))
    BY <1>8, Zenon DEF TakeEvent
  <2>2. Pointed(Event(SubSeq(buf, 1, e[1] + e[2]), SubSeq(buf, 1, e[1])))
    BY <1>2, EventIsPointed
  <2>3. CASE Oversized(SubSeq(buf, 1, e[1] + e[2]))
    BY <1>3, <1>5, <2>1, <2>3
  <2>4. CASE ~Oversized(SubSeq(buf, 1, e[1] + e[2]))
    BY <1>3, <2>1, <2>2, <2>4
  <2>5. QED
    BY <2>3, <2>4
<1>9. CASE Overflow
  BY <1>6, <1>9 DEF Overflow
<1>10. CASE End
  <2>1. pieces' = pieces \/ pieces' = Append(pieces, Passed(buf))
    BY <1>10 DEF End
  <2>2. QED
    BY <1>3, <1>4, <1>5, <2>1
<1>11. CASE (\E n \in 1..Len(stream) : Chunk(n)) \/ Fill \/ UNCHANGED vars
  BY <1>4, <1>11 DEF Chunk, Fill, vars
<1>12. QED
  BY <1>7, <1>8, <1>9, <1>10, <1>11 DEF Next

LEMMA PointedMeansRewritten == KeptInv /\ PointedInv => EndpointIsRewritten
<1> SUFFICES ASSUME KeptInv, PointedInv PROVE EndpointIsRewritten
  OBVIOUS
<1>1. DOMAIN pieces = 1..Len(pieces)
  BY LenProperties DEF KeptInv, Types
<1>2. \A k \in DOMAIN pieces : Pointed(pieces[k])
  BY <1>1 DEF PointedInv
<1>3. QED
  BY <1>2, Zenon DEF Pointed, EndpointIsRewritten

\* No endpoint event within the cap takes the upstream's URI to the client, for
\* any streams in which a field has a line of its own (Tee::handle_event,
\* rewrite_endpoint_uri, replace_event_data).
THEOREM EndpointsAreRewritten == Spec => []EndpointIsRewritten
<1>1. Init => PointedInv
  BY PointedInit
<1>2. KeptInv /\ PointedInv /\ [Next]_vars => PointedInv'
  BY PointedStep
<1>3. KeptInv /\ PointedInv => EndpointIsRewritten
  BY PointedMeansRewritten
<1>4. QED
  BY <1>1, <1>2, <1>3, KeptHolds, PTL DEF Spec

-----------------------------------------------------------------------------
(* What is built step by step, and what joined sequences hold. *)

\* f is the recursive function up to n that begins with base and goes on by G.
Recurs(f, base, G, n) == f[0] = base /\ \A i \in 1..n : f[i] = G[i][f[i - 1]]

LEMMA Recursion ==
  ASSUME NEW V, NEW base \in V, NEW n \in Nat, NEW G \in [1..n -> [V -> V]]
  PROVE  \E f \in [0..n -> V] : Recurs(f, base, G, n)
<1> DEFINE Ok(m) == \E f \in [0..m -> V] : Recurs(f, base, G, m)
           T == {m \in 0..n : Ok(m)}
<1>1. Ok(0)
  <2>1. PICK f : f = [i \in 0..0 |-> base]
    OBVIOUS
  <2>2. f \in [0..0 -> V] /\ f[0] = base
    BY <2>1
  <2>3. Recurs(f, base, G, 0)
    BY <2>2 DEF Recurs
  <2>4. QED
    BY <2>2, <2>3, Zenon
<1>2. ASSUME NEW m \in 1..n, Ok(m - 1) PROVE Ok(m)
  <2>1. PICK f \in [0..(m - 1) -> V] : Recurs(f, base, G, m - 1)
    BY <1>2
  <2>2. f[m - 1] \in V
    OBVIOUS
  <2>3. PICK x \in V : x = G[m][f[m - 1]]
    BY <2>2
  <2>4. PICK g : g = [i \in 0..m |-> IF i = m THEN x ELSE f[i]]
    OBVIOUS
  <2>5. g \in [0..m -> V]
    BY <2>3, <2>4
  <2>6. g[0] = base
    BY <2>1, <2>4 DEF Recurs
  <2>7. ASSUME NEW i \in 1..m PROVE g[i] = G[i][g[i - 1]]
    <3>1. g[i - 1] = f[i - 1]
      BY <2>4
    <3>2. CASE i = m
      <4>1. g[i] = x
        BY <2>4, <3>2
      <4>2. QED
        BY <2>3, <3>1, <3>2, <4>1
    <3>3. CASE i # m
      <4>1. g[i] = f[i] /\ i \in 1..(m - 1)
        BY <2>4, <3>3
      <4>2. f[i] = G[i][f[i - 1]]
        BY <2>1, <4>1 DEF Recurs
      <4>3. QED
        BY <3>1, <4>1, <4>2
    <3>4. QED
      BY <3>2, <3>3
  <2>8. Recurs(g, base, G, m)
    BY <2>6, <2>7 DEF Recurs
  <2>9. QED
    BY <2>5, <2>8, Zenon
<1> HIDE DEF Ok
<1>3. 0 \in T /\ \A m \in 1..n : m - 1 \in T => m \in T
  BY <1>1, <1>2
<1> HIDE DEF T
<1>4. n \in T
  <2>1. 0..n \subseteq T
    BY <1>3, CountUp
  <2>2. QED
    BY <2>1
<1>5. QED
  BY <1>4 DEF T, Ok

\* What is in joined sequences.
LEMMA FlattenFirst ==
  ASSUME NEW A, NEW s \in Seq(Seq(A)), NEW m \in 1..Len(s)
  PROVE  /\ SubSeq(s, 1, m - 1) \in Seq(Seq(A)) /\ s[m] \in Seq(A)
         /\ FlattenSeq(SubSeq(s, 1, m - 1)) \in Seq(A)
         /\ FlattenSeq(SubSeq(s, 1, m)) = FlattenSeq(SubSeq(s, 1, m - 1)) \o s[m]
<1>1. PICK t : t = SubSeq(s, 1, m - 1)
  OBVIOUS
<1>2. t \in Seq(Seq(A)) /\ s[m] \in Seq(A) /\ Len(t) = m - 1
  BY <1>1
<1>3. SubSeq(s, 1, m) = Append(t, s[m])
  <2>1. SubSeq(s, 1, m) \in Seq(Seq(A)) /\ Len(SubSeq(s, 1, m)) = m
    OBVIOUS
  <2>2. Append(t, s[m]) \in Seq(Seq(A)) /\ Len(Append(t, s[m])) = m
    BY <1>2
  <2>3. \A i \in 1..m : SubSeq(s, 1, m)[i] = Append(t, s[m])[i]
    BY <1>1, <1>2
  <2>4. QED
    BY <2>1, <2>2, <2>3, SeqEqual
<1>4. QED
  BY <1>1, <1>2, <1>3, FlattenAppend

LEMMA FlattenAll ==
  ASSUME NEW A, NEW s \in Seq(Seq(A))
  PROVE  SubSeq(s, 1, Len(s)) = s /\ SubSeq(s, 1, 0) = <<>> /\ FlattenSeq(s) \in Seq(A)
<1>1. SubSeq(s, 1, Len(s)) = s /\ SubSeq(s, 1, 0) = <<>>
  OBVIOUS
<1>2. FlattenSeq(s) \in Seq(A)
  BY FlattenIs, FlattenEmpty
<1>3. QED
  BY <1>1, <1>2

LEMMA ConcatElements ==
  ASSUME NEW A, NEW a \in Seq(A), NEW b \in Seq(A)
  PROVE  ToSet(a \o b) = ToSet(a) \cup ToSet(b)
<1>1. PICK c : c = a \o b
  OBVIOUS
<1>2. /\ c \in Seq(A) /\ Len(c) = Len(a) + Len(b) /\ Len(a) \in Nat /\ Len(b) \in Nat
      /\ \A i \in 1..Len(a) : c[i] = a[i]
      /\ \A i \in 1..Len(b) : c[Len(a) + i] = b[i]
  BY <1>1
<1>3. DOMAIN a = 1..Len(a) /\ DOMAIN b = 1..Len(b) /\ DOMAIN c = 1..Len(c)
  BY <1>2, LenProperties
<1>4. ASSUME NEW i \in DOMAIN c PROVE c[i] \in ToSet(a) \cup ToSet(b)
  <2>1. CASE i \in 1..Len(a)
    BY <1>2, <1>3, <2>1 DEF ToSet
  <2>2. CASE i \notin 1..Len(a)
    <3>1. i - Len(a) \in 1..Len(b) /\ Len(a) + (i - Len(a)) = i
      BY <1>2, <1>3, <2>2
    <3>2. c[i] = b[i - Len(a)]
      BY <1>2, <3>1
    <3>3. QED
      BY <1>3, <3>1, <3>2 DEF ToSet
  <2>3. QED
    BY <2>1, <2>2
<1>5. ASSUME NEW i \in DOMAIN a PROVE a[i] \in ToSet(c)
  <2>1. i \in DOMAIN c /\ c[i] = a[i]
    BY <1>2, <1>3
  <2>2. QED
    BY <2>1 DEF ToSet
<1>6. ASSUME NEW i \in DOMAIN b PROVE b[i] \in ToSet(c)
  <2>1. Len(a) + i \in DOMAIN c /\ c[Len(a) + i] = b[i]
    BY <1>2, <1>3
  <2>2. QED
    BY <2>1 DEF ToSet
<1>7. ToSet(c) = ToSet(a) \cup ToSet(b)
  BY <1>4, <1>5, <1>6 DEF ToSet
<1>8. QED
  BY <1>1, <1>7

\* The elements of joined sequences are those of each.
LEMMA FlattenElements ==
  ASSUME NEW A, NEW s \in Seq(Seq(A))
  PROVE  ToSet(FlattenSeq(s)) = UNION {ToSet(s[k]) : k \in DOMAIN s}
<1> DEFINE F(m) == FlattenSeq(SubSeq(s, 1, m))
           T == {m \in 0..Len(s) : ToSet(F(m)) = UNION {ToSet(s[k]) : k \in 1..m}}
<1>1. 0 \in T
  <2>1. F(0) = <<>>
    BY FlattenAll, FlattenEmpty
  <2>2. ToSet(<<>>) = {}
    BY DEF ToSet
  <2>3. UNION {ToSet(s[k]) : k \in 1..0} = {}
    OBVIOUS
  <2>4. QED
    BY <2>1, <2>2, <2>3, LenProperties
<1>2. ASSUME NEW m \in 1..Len(s), m - 1 \in T PROVE m \in T
  <2>1. F(m) = F(m - 1) \o s[m] /\ F(m - 1) \in Seq(A) /\ s[m] \in Seq(A)
    BY FlattenFirst
  <2>2. ToSet(F(m - 1) \o s[m]) = ToSet(F(m - 1)) \cup ToSet(s[m])
    BY <2>1, ConcatElements
  <2>3. ToSet(F(m - 1)) = UNION {ToSet(s[k]) : k \in 1..(m - 1)}
    BY <1>2
  <2>4. 1..m = (1..(m - 1)) \cup {m}
    OBVIOUS
  <2> HIDE DEF F
  <2>5. ToSet(F(m)) = UNION {ToSet(s[k]) : k \in 1..m}
    BY <2>1, <2>2, <2>3, <2>4
  <2>6. QED
    BY <2>5
<1> HIDE DEF F, T
<1>3. 0..Len(s) \subseteq T
  BY <1>1, <1>2, CountUp, LenProperties
<1>4. Len(s) \in T /\ DOMAIN s = 1..Len(s)
  BY <1>3, LenProperties
<1>5. QED
  BY <1>4, FlattenAll DEF T, F


\* Joined sequences are in order when each is behind the one before it.
LEMMA FlattenInOrder ==
  ASSUME NEW A, NEW s \in Seq(Seq(A)), NEW key \in [A -> Nat],
         \A k \in DOMAIN s : \A x \in ToSet(s[k]) : key[x] = k
  PROVE  \A i, j \in DOMAIN FlattenSeq(s) : i <= j => key[FlattenSeq(s)[i]] <= key[FlattenSeq(s)[j]]
<1> DEFINE F(m) == FlattenSeq(SubSeq(s, 1, m))
           InOrder(m) == \A i, j \in 1..Len(F(m)) :
                           i <= j => key[F(m)[i]] <= key[F(m)[j]] /\ key[F(m)[j]] <= m
           T == {m \in 0..Len(s) : InOrder(m)}
<1>0. DOMAIN s = 1..Len(s) /\ Len(s) \in Nat
  BY LenProperties
<1>1. 0 \in T
  <2>1. F(0) = <<>>
    BY FlattenAll, FlattenEmpty
  <2>2. 1..Len(F(0)) = {}
    BY <2>1
  <2>3. InOrder(0)
    BY <2>2
  <2>4. QED
    BY <1>0, <2>3
<1>2. ASSUME NEW m \in 1..Len(s), m - 1 \in T PROVE m \in T
  <2>1. F(m) = F(m - 1) \o s[m] /\ F(m - 1) \in Seq(A) /\ s[m] \in Seq(A)
    BY FlattenFirst
  <2>2. InOrder(m - 1)
    BY <1>2
  <2>3. PICK a, b, c : a = F(m - 1) /\ b = s[m] /\ c = F(m)
    OBVIOUS
  <2> HIDE DEF F
  <2>4. /\ a \in Seq(A) /\ b \in Seq(A) /\ c = a \o b
        /\ \A i, j \in 1..Len(a) : i <= j => key[a[i]] <= key[a[j]] /\ key[a[j]] <= m - 1
    BY <2>1, <2>2, <2>3
  <2>5. \A i \in 1..Len(b) : key[b[i]] = m
    <3>1. DOMAIN b = 1..Len(b) /\ m \in DOMAIN s
      BY <1>0, <2>4, LenProperties
    <3>2. \A i \in 1..Len(b) : b[i] \in ToSet(s[m])
      BY <2>3, <3>1 DEF ToSet
    <3>3. QED
      BY <3>1, <3>2
  <2>6. /\ Len(c) = Len(a) + Len(b) /\ Len(a) \in Nat /\ Len(b) \in Nat
        /\ \A i \in 1..Len(c) : c[i] = IF i <= Len(a) THEN a[i] ELSE b[i - Len(a)]
    BY <2>4
  <2>7. \A i \in 1..Len(c) : IF i <= Len(a) THEN key[c[i]] = key[a[i]] ELSE key[c[i]] = m
    <3>1. TAKE i \in 1..Len(c)
    <3>2. CASE i <= Len(a)
      BY <2>6, <3>2
    <3>3. CASE ~(i <= Len(a))
      <4>1. i - Len(a) \in 1..Len(b) /\ c[i] = b[i - Len(a)]
        BY <2>6, <3>3
      <4>2. key[b[i - Len(a)]] = m
        BY <2>5, <4>1
      <4>3. QED
        BY <3>3, <4>1, <4>2
    <3>4. QED
      BY <3>2, <3>3
  <2>8. \A i \in 1..Len(a) : key[a[i]] \in Nat
    BY <2>4
  <2>9. ASSUME NEW i \in 1..Len(c), NEW j \in 1..Len(c), i <= j
        PROVE  key[c[i]] <= key[c[j]] /\ key[c[j]] <= m
    <3>1. i <= Len(a) => i \in 1..Len(a)
      BY <2>6
    <3>2. j <= Len(a) => j \in 1..Len(a) /\ i <= Len(a)
      BY <2>6, <2>9
    <3>3. CASE j <= Len(a)
      BY <2>4, <2>7, <2>8, <2>9, <3>1, <3>2, <3>3
    <3>4. CASE ~(j <= Len(a)) /\ i <= Len(a)
      <4>1. key[a[i]] <= m - 1 /\ key[a[i]] \in Nat
        BY <2>4, <2>8, <3>1, <3>4
      <4>2. key[c[i]] = key[a[i]] /\ key[c[j]] = m
        BY <2>7, <3>4
      <4>3. QED
        BY <4>1, <4>2
    <3>5. CASE ~(j <= Len(a)) /\ ~(i <= Len(a))
      BY <2>7, <3>5
    <3>6. QED
      BY <3>3, <3>4, <3>5
  <2>10. InOrder(m)
    BY <2>3, <2>9
  <2>11. QED
    BY <1>0, <2>10
<1> HIDE DEF T
<1>3. Len(s) \in T
  <2>1. 0..Len(s) \subseteq T
    BY <1>0, <1>1, <1>2, CountUp
  <2>2. QED
    BY <1>0, <2>1
<1>4. InOrder(Len(s)) /\ F(Len(s)) = FlattenSeq(s)
  BY <1>3, FlattenAll DEF T
<1>5. DOMAIN FlattenSeq(s) = 1..Len(FlattenSeq(s))
  BY FlattenAll, LenProperties
<1> HIDE DEF F
<1>6. QED
  BY <1>4, <1>5

-----------------------------------------------------------------------------
(* What is found in a text. *)

\* The hits of patterns, anywhere.
HitRecords == [pattern : DOMAIN Patterns, from : Nat, to : Nat]

LEMMA StartsIn ==
  ASSUME NEW A, NEW text \in Seq(A), NEW word
  PROVE  Starts(text, word) \subseteq DOMAIN text
<1> DEFINE n == Len(text)
           V == SUBSET (1..n)
           Takes(i, t) == /\ i + Len(word) - 1 <= Len(text)
                          /\ SubSeq(text, i, i + Len(word) - 1) = word
                          /\ \A j \in t : j + Len(word) <= i
           G == [i \in 1..n |-> [t \in V |-> IF Takes(i, t) THEN t \cup {i} ELSE t]]
           taken == CHOOSE f : f = [i \in 0..n |-> IF i = 0 THEN {}
                                      ELSE IF Takes(i, f[i - 1]) THEN f[i - 1] \cup {i} ELSE f[i - 1]]
<1>1. Starts(text, word) = taken[n]
  BY Zenon DEF Starts
<1>2. n \in Nat /\ DOMAIN text = 1..n
  BY LenProperties
<1> HIDE DEF n, Takes
<1>3. PICK W, g : W = V /\ g = G
  OBVIOUS
<1>4. {} \in W /\ g \in [1..n -> [W -> W]]
  BY <1>3
<1> HIDE DEF V, G
<1>5. PICK f \in [0..n -> W] : Recurs(f, {}, g, n)
  BY <1>2, <1>4, Recursion
<1>6. ASSUME NEW i \in 1..n
      PROVE f[i] = IF Takes(i, f[i - 1]) THEN f[i - 1] \cup {i} ELSE f[i - 1]
  <2>1. i - 1 \in 0..n
    BY <1>2
  <2>2. PICK y \in W : y = f[i - 1]
    BY <2>1
  <2>3. g[i][y] = IF Takes(i, y) THEN y \cup {i} ELSE y
    BY <1>3 DEF G
  <2>4. QED
    BY <1>5, <2>2, <2>3 DEF Recurs
<1>7. f = [i \in 0..n |-> IF i = 0 THEN {}
                            ELSE IF Takes(i, f[i - 1]) THEN f[i - 1] \cup {i} ELSE f[i - 1]]
  <2>1. \A i \in 0..n : i = 0 \/ i \in 1..n
    BY <1>2
  <2>2. \A i \in 0..n : f[i] = IF i = 0 THEN {}
                                 ELSE IF Takes(i, f[i - 1]) THEN f[i - 1] \cup {i} ELSE f[i - 1]
    BY <1>5, <1>6, <2>1 DEF Recurs
  <2>3. QED
    BY <2>2
<1>8. taken = [i \in 0..n |-> IF i = 0 THEN {}
                ELSE IF Takes(i, taken[i - 1]) THEN taken[i - 1] \cup {i} ELSE taken[i - 1]]
  BY <1>7, Zenon
<1> HIDE DEF taken
<1> DEFINE T == {m \in 0..n : taken[m] \subseteq 1..n}
<1>9. 0 \in T
  <2>1. 0 \in 0..n
    BY <1>2
  <2>2. taken[0] = {}
    BY <1>8, <2>1
  <2>3. QED
    BY <2>1, <2>2
<1>10. ASSUME NEW m \in 1..n, m - 1 \in T PROVE m \in T
  <2>1. m \in 0..n /\ m # 0
    BY <1>2
  <2>2. taken[m] = IF Takes(m, taken[m - 1]) THEN taken[m - 1] \cup {m} ELSE taken[m - 1]
    BY <1>8, <2>1
  <2>3. taken[m - 1] \subseteq 1..n
    BY <1>10
  <2>4. QED
    BY <2>1, <2>2, <2>3
<1> HIDE DEF T
<1>11. n \in T
  BY <1>2, <1>9, <1>10, CountUp
<1>12. QED
  BY <1>1, <1>2, <1>11 DEF T

\* A match is of a pattern, and begins in the text.
LEMMA MatchesAre ==
  ASSUME NEW A, NEW text \in Seq(A), NEW context
  PROVE  \A h \in Matches(text, context) :
           \E i \in DOMAIN text : \E p \in DOMAIN Patterns : h = HitAt(i, p)
<1> SUFFICES ASSUME NEW h \in Matches(text, context)
             PROVE  \E i \in DOMAIN text : \E p \in DOMAIN Patterns : h = HitAt(i, p)
  OBVIOUS
<1>1. PICK p \in DOMAIN Patterns : h \in {HitAt(i, p) : i \in Starts(text, Patterns[p].word)}
  BY DEF Matches
<1>2. PICK i \in Starts(text, Patterns[p].word) : h = HitAt(i, p)
  BY <1>1
<1>3. i \in DOMAIN text
  BY StartsIn
<1>4. QED
  BY <1>2, <1>3

LEMMA HitAtIs ==
  ASSUME NEW i \in Nat, NEW p \in DOMAIN Patterns
  PROVE  /\ HitAt(i, p) \in HitRecords
         /\ HitAt(i, p).from = i /\ HitAt(i, p).pattern = p /\ i <= HitAt(i, p).to
<1>1. Len(Patterns[p].word) \in Nat /\ Len(Patterns[p].word) # 0
  <2>1. Patterns[p].word \in Seq(Range(Patterns[p].word)) /\ Patterns[p].word # <<>>
    BY PatternsAssumption
  <2>2. QED
    BY <2>1
<1>2. PICK n \in Nat \ {0} : n = Len(Patterns[p].word)
  BY <1>1
<1>3. HitAt(i, p) = [pattern |-> p, from |-> i, to |-> i + n - 1]
  BY <1>2 DEF HitAt
<1>4. i + n - 1 \in Nat /\ i <= i + n - 1
  OBVIOUS
<1>5. QED
  BY <1>3, <1>4 DEF HitRecords

LEMMA PatternsAreNumbered == Len(Patterns) \in Nat /\ DOMAIN Patterns = 1..Len(Patterns)
  BY PatternsAssumption, LenProperties

\* The hits that begin at a place.
LEMMA HitsAtAre ==
  ASSUME NEW i \in Nat, NEW matches
  PROVE  /\ HitsAt(i, matches) \in Seq(HitRecords)
         /\ ToSet(HitsAt(i, matches)) = {h \in matches : \E p \in DOMAIN Patterns : h = HitAt(i, p)}
<1>1. PICK s : s = [p \in DOMAIN Patterns |->
                      IF HitAt(i, p) \in matches THEN <<HitAt(i, p)>> ELSE <<>>]
  OBVIOUS
<1>2. ASSUME NEW p \in DOMAIN Patterns PROVE s[p] \in Seq(HitRecords)
  <2>1. HitAt(i, p) \in HitRecords
    BY HitAtIs
  <2>2. <<HitAt(i, p)>> \in Seq(HitRecords) /\ <<>> \in Seq(HitRecords)
    BY <2>1
  <2>3. QED
    BY <1>1, <2>2
<1>3. s \in Seq(Seq(HitRecords)) /\ DOMAIN s = DOMAIN Patterns
  BY <1>1, <1>2, PatternsAreNumbered
<1>4. HitsAt(i, matches) = FlattenSeq(s)
  BY <1>1 DEF HitsAt
<1>5. FlattenSeq(s) \in Seq(HitRecords) /\ ToSet(FlattenSeq(s)) = UNION {ToSet(s[p]) : p \in DOMAIN s}
  BY <1>3, FlattenElements, FlattenAll
<1>6. ASSUME NEW p \in DOMAIN Patterns PROVE ToSet(s[p]) = {h \in matches : h = HitAt(i, p)}
  <2>1. CASE HitAt(i, p) \in matches
    <3>1. s[p] = <<HitAt(i, p)>>
      BY <1>1, <2>1
    <3>2. QED
      BY <2>1, <3>1 DEF ToSet
  <2>2. CASE HitAt(i, p) \notin matches
    <3>1. s[p] = <<>>
      BY <1>1, <2>2
    <3>2. QED
      BY <2>2, <3>1 DEF ToSet
  <2>3. QED
    BY <2>1, <2>2
<1>7. UNION {ToSet(s[p]) : p \in DOMAIN s} = {h \in matches : \E p \in DOMAIN Patterns : h = HitAt(i, p)}
  BY <1>3, <1>6
<1>8. QED
  BY <1>4, <1>5, <1>7

\* The hits are the matches, in the order of their places.
LEMMA HitsAre ==
  ASSUME NEW A, NEW text \in Seq(A), NEW context, NEW hits, hits = Hits(text, context)
  PROVE  /\ hits \in Seq(HitRecords)
         /\ ToSet(hits) = Matches(text, context)
         /\ \A i, j \in DOMAIN hits : i <= j => hits[i].from <= hits[j].from
         /\ \A i \in DOMAIN hits : hits[i].from <= hits[i].to
<1>1. PICK s : s = [i \in DOMAIN text |-> HitsAt(i, Matches(text, context))]
  OBVIOUS
<1>2. Len(text) \in Nat /\ DOMAIN text = 1..Len(text)
  BY LenProperties
<1>3. \A i \in DOMAIN text :
        /\ s[i] \in Seq(HitRecords)
        /\ ToSet(s[i]) = {h \in Matches(text, context) : \E p \in DOMAIN Patterns : h = HitAt(i, p)}
  <2>1. TAKE i \in DOMAIN text
  <2>2. i \in Nat /\ s[i] = HitsAt(i, Matches(text, context))
    BY <1>1, <1>2
  <2>3. QED
    BY <2>2, HitsAtAre
<1>4. s \in Seq(Seq(HitRecords)) /\ DOMAIN s = DOMAIN text
  BY <1>1, <1>2, <1>3
<1>5. hits = FlattenSeq(s)
  BY <1>1 DEF Hits
<1>6. hits \in Seq(HitRecords) /\ ToSet(hits) = UNION {ToSet(s[i]) : i \in DOMAIN s}
  BY <1>4, <1>5, FlattenElements, FlattenAll
<1>7. ToSet(hits) = Matches(text, context)
  <2>1. UNION {ToSet(s[i]) : i \in DOMAIN s} \subseteq Matches(text, context)
    BY <1>3, <1>4
  <2>2. \A h \in Matches(text, context) : \E i \in DOMAIN s : h \in ToSet(s[i])
    BY <1>3, <1>4, MatchesAre
  <2>3. QED
    BY <1>6, <2>1, <2>2
<1>8. \A h \in Matches(text, context) : h.from <= h.to
  <2>1. \A i \in DOMAIN text : i \in Nat
    BY <1>2
  <2>2. QED
    BY <2>1, MatchesAre, HitAtIs
<1>9. \A i \in DOMAIN hits : hits[i].from <= hits[i].to
  BY <1>7, <1>8 DEF ToSet
<1>10. PICK key : key = [h \in HitRecords |-> h.from]
  OBVIOUS
<1>11. key \in [HitRecords -> Nat]
  BY <1>10 DEF HitRecords
<1>12. \A k \in DOMAIN s : \A h \in ToSet(s[k]) : key[h] = k
  <2>1. TAKE k \in DOMAIN s
  <2>2. TAKE h \in ToSet(s[k])
  <2>3. k \in Nat /\ k \in DOMAIN text
    BY <1>2, <1>4
  <2>4. PICK p \in DOMAIN Patterns : h = HitAt(k, p)
    BY <1>3, <2>3
  <2>5. h \in HitRecords /\ h.from = k
    BY <2>3, <2>4, HitAtIs
  <2>6. QED
    BY <1>10, <2>5
<1>13. \A i, j \in DOMAIN hits : i <= j => key[hits[i]] <= key[hits[j]]
  BY <1>4, <1>5, <1>11, <1>12, FlattenInOrder
<1>14. \A i \in DOMAIN hits : key[hits[i]] = hits[i].from
  <2>1. \A i \in DOMAIN hits : hits[i] \in HitRecords
    BY <1>6
  <2>2. QED
    BY <1>10, <2>1
<1>15. QED
  BY <1>6, <1>7, <1>9, <1>13, <1>14


-----------------------------------------------------------------------------
(* What overlapping hits become. *)

\* Of two hits the preferred is a secret if one of them is.
LEMMA PreferredIs ==
  ASSUME NEW a, NEW b
  PROVE  /\ Preferred(a, b) = a \/ Preferred(a, b) = b
         /\ Active(Preferred(a, b)) <=> Active(a) \/ Active(b)
<1>1. Preferred(a, b) = a \/ Preferred(a, b) = b
  BY DEF Preferred
<1>2. CASE Active(a) /\ ~Active(b)
  BY <1>2, Zenon DEF Preferred
<1>3. CASE ~Active(a) /\ Active(b)
  BY <1>3, Zenon DEF Preferred
<1>4. CASE (Active(a) /\ Active(b)) \/ (~Active(a) /\ ~Active(b))
  BY <1>1, <1>4, Zenon
<1>5. QED
  BY <1>1, <1>2, <1>3, <1>4, Zenon

LEMMA JoinedIs ==
  ASSUME NEW g \in HitRecords, NEW h \in HitRecords
  PROVE  /\ Joined(g, h) \in HitRecords
         /\ Joined(g, h).from = g.from
         /\ Joined(g, h).to = IF h.to > g.to THEN h.to ELSE g.to
         /\ Active(Joined(g, h)) <=> Active(g) \/ Active(h)
<1>1. PICK q : q = Preferred(g, h)
  OBVIOUS
<1>2. q \in HitRecords /\ (Active(q) <=> Active(g) \/ Active(h))
  BY <1>1, PreferredIs
<1>3. PICK t : t = IF h.to > g.to THEN h.to ELSE g.to
  OBVIOUS
<1>4. t \in Nat
  BY <1>3 DEF HitRecords
<1>5. PICK j : j = Joined(g, h)
  OBVIOUS
<1>6. j = [q EXCEPT !.from = g.from, !.to = t]
  BY <1>1, <1>3, <1>5 DEF Joined
<1>7. j \in HitRecords /\ j.from = g.from /\ j.to = t /\ j.pattern = q.pattern
  BY <1>2, <1>4, <1>6 DEF HitRecords
<1>8. Active(j) <=> Active(q)
  BY <1>7 DEF Active
<1>9. QED
  BY <1>2, <1>3, <1>5, <1>7, <1>8

\* What groups are to the first n of some hits: each hit is inside of one, which
\* is a secret if the hit is, and nothing else is inside of them.
Groups(groups, hits, n) ==
  /\ groups \in Seq(HitRecords)
  /\ IF n = 0 THEN groups = <<>> ELSE groups # <<>> /\ Last(groups).from <= hits[n].from
  /\ \A j \in 1..n : \E k \in DOMAIN groups :
       /\ groups[k].from <= hits[j].from /\ hits[j].to <= groups[k].to
       /\ Active(hits[j]) => Active(groups[k])
  /\ \A k \in DOMAIN groups :
       /\ groups[k].from <= groups[k].to
       /\ \A i \in groups[k].from..groups[k].to : \E j \in 1..n : i \in hits[j].from..hits[j].to
  /\ \A k \in DOMAIN groups : Active(groups[k]) => \E j \in 1..n : Active(hits[j])

LEMMA WithHitKeeps ==
  ASSUME NEW hits \in Seq(HitRecords), NEW n \in 1..Len(hits), NEW groups,
         Groups(groups, hits, n - 1),
         \A i, j \in DOMAIN hits : i <= j => hits[i].from <= hits[j].from,
         \A i \in DOMAIN hits : hits[i].from <= hits[i].to
  PROVE  Groups(WithHit(groups, hits[n]), hits, n)
<1>1. PICK h, c : h = hits[n] /\ c = WithHit(groups, hits[n])
  OBVIOUS
<1>2. /\ h \in HitRecords /\ groups \in Seq(HitRecords)
      /\ DOMAIN hits = 1..Len(hits) /\ Len(hits) \in Nat
      /\ DOMAIN groups = 1..Len(groups) /\ Len(groups) \in Nat
  BY <1>1, LenProperties DEF Groups
<1>3. \A j \in 1..n : j \in 1..(n - 1) \/ j = n
  OBVIOUS
<1>4. \A j \in 1..n : hits[j] \in HitRecords /\ hits[j].from \in Nat /\ hits[j].to \in Nat
  <2>1. TAKE j \in 1..n
  <2>2. hits[j] \in HitRecords
    BY <1>2
  <2>3. QED
    BY <2>2 DEF HitRecords
<1>5. \A k \in 1..Len(groups) : groups[k] \in HitRecords /\ groups[k].from \in Nat /\ groups[k].to \in Nat
  <2>1. TAKE k \in 1..Len(groups)
  <2>2. groups[k] \in HitRecords
    BY <1>2
  <2>3. QED
    BY <2>2 DEF HitRecords
<1>6. h.from \in Nat /\ h.to \in Nat
  BY <1>2 DEF HitRecords
<1>7. CASE groups # <<>> /\ h.from <= Last(groups).to
  <2>1. PICK m, g : m \in 1..Len(groups) /\ m = Len(groups) /\ g = groups[m] /\ Last(groups) = g
    <3>1. Len(groups) \in 1..Len(groups)
      BY <1>2, <1>7
    <3>2. QED
      BY <3>1 DEF Last
  <2>2. g \in HitRecords /\ g.from \in Nat /\ g.to \in Nat
    BY <1>5, <2>1
  <2>3. PICK q : q = Joined(g, h)
    OBVIOUS
  <2>4. /\ q \in HitRecords /\ q.from = g.from /\ q.to = IF h.to > g.to THEN h.to ELSE g.to
        /\ Active(q) <=> Active(g) \/ Active(h)
    BY <1>2, <2>2, <2>3, JoinedIs
  <2>5. c = [groups EXCEPT ![m] = q]
    BY <1>1, <1>7, <2>1, <2>3 DEF WithHit
  <2>6. /\ c \in Seq(HitRecords) /\ Len(c) = m /\ DOMAIN c = 1..m /\ c[m] = q
        /\ \A k \in 1..m : k # m => c[k] = groups[k]
    BY <1>2, <2>1, <2>4, <2>5
  <2>7. g.from <= h.from
    <3>1. n - 1 # 0
      BY <1>7 DEF Groups
    <3>2. g.from <= hits[n - 1].from
      BY <2>1, <3>1 DEF Groups
    <3>3. n - 1 \in DOMAIN hits /\ n \in DOMAIN hits /\ n - 1 <= n /\ n - 1 \in 1..n
      BY <1>2, <3>1
    <3>4. hits[n - 1].from <= h.from /\ hits[n - 1].from \in Nat
      BY <1>1, <1>4, <3>3
    <3>5. QED
      BY <1>6, <2>2, <3>2, <3>4
  <2>8. n # 0 /\ c # <<>> /\ Last(c).from <= hits[n].from
    <3>1. c # <<>> /\ Last(c) = q
      BY <2>1, <2>6 DEF Last
    <3>2. QED
      BY <1>1, <2>4, <2>7, <3>1
  <2>9. ASSUME NEW j \in 1..n
        PROVE  \E k \in DOMAIN c : /\ c[k].from <= hits[j].from /\ hits[j].to <= c[k].to
                                   /\ Active(hits[j]) => Active(c[k])
    <3>1. CASE j = n
      <4>1. h.to <= q.to
        BY <1>6, <2>2, <2>4
      <4>2. m \in DOMAIN c /\ c[m] = q /\ q.from <= h.from /\ (Active(h) => Active(q))
        BY <2>1, <2>4, <2>6, <2>7
      <4>3. QED
        BY <1>1, <3>1, <4>1, <4>2
    <3>2. CASE j # n
      <4>1. j \in 1..(n - 1)
        BY <1>3, <3>2
      <4>2. PICK k \in DOMAIN groups : /\ groups[k].from <= hits[j].from /\ hits[j].to <= groups[k].to
                                       /\ Active(hits[j]) => Active(groups[k])
        BY <4>1 DEF Groups
      <4>3. CASE k = m
        <5>1. g.to <= q.to /\ q.from = g.from /\ (Active(g) => Active(q))
          BY <1>6, <2>2, <2>4
        <5>2. /\ g.from <= hits[j].from /\ hits[j].to <= g.to /\ (Active(hits[j]) => Active(g))
              /\ hits[j].to \in Nat
          BY <1>4, <2>1, <4>2, <4>3
        <5>3. q.from <= hits[j].from /\ hits[j].to <= q.to /\ (Active(hits[j]) => Active(q))
          <6>1. q.to \in Nat
            BY <2>4 DEF HitRecords
          <6>2. q.from <= hits[j].from
            BY <5>1, <5>2
          <6>3. hits[j].to <= q.to
            BY <2>2, <5>1, <5>2, <6>1
          <6>4. QED
            BY <5>1, <5>2, <6>2, <6>3
        <5>4. m \in DOMAIN c /\ c[m] = q
          BY <2>1, <2>6
        <5>5. QED
          BY <5>3, <5>4
      <4>4. CASE k # m
        BY <1>2, <2>1, <2>6, <4>2, <4>4
      <4>5. QED
        BY <4>3, <4>4
    <3>3. QED
      BY <3>1, <3>2
  <2>10. ASSUME NEW k \in DOMAIN c, NEW i \in c[k].from..c[k].to
         PROVE  \E j \in 1..n : i \in hits[j].from..hits[j].to
    <3>1. CASE k # m
      <4>1. k \in DOMAIN groups /\ i \in groups[k].from..groups[k].to
        BY <1>2, <2>1, <2>6, <3>1
      <4>2. PICK j \in 1..(n - 1) : i \in hits[j].from..hits[j].to
        BY <4>1 DEF Groups
      <4>3. QED
        BY <4>2
    <3>2. CASE k = m /\ i \in g.from..g.to
      <4>1. PICK j \in 1..(n - 1) : i \in hits[j].from..hits[j].to
        BY <1>2, <2>1, <3>2 DEF Groups
      <4>2. QED
        BY <4>1
    <3>3. CASE k = m /\ i \notin g.from..g.to
      <4>1. i \in g.from..(IF h.to > g.to THEN h.to ELSE g.to)
        BY <2>4, <2>6, <3>3
      <4>2. Last(groups).to = g.to
        BY <2>1
      <4>3. i \in h.from..h.to
        BY <1>6, <1>7, <2>2, <3>3, <4>1, <4>2
      <4>4. QED
        BY <1>1, <4>3
    <3>4. QED
      BY <3>1, <3>2, <3>3
  <2>11. ASSUME NEW k \in DOMAIN c, Active(c[k]) PROVE \E j \in 1..n : Active(hits[j])
    <3>1. CASE k # m
      <4>1. k \in DOMAIN groups /\ c[k] = groups[k]
        BY <1>2, <2>1, <2>6, <3>1
      <4>2. PICK j \in 1..(n - 1) : Active(hits[j])
        BY <2>11, <4>1 DEF Groups
      <4>3. QED
        BY <4>2
    <3>2. CASE k = m /\ Active(h)
      BY <1>1, <3>2
    <3>3. CASE k = m /\ ~Active(h)
      <4>1. Active(groups[m]) /\ m \in DOMAIN groups
        BY <1>2, <2>1, <2>4, <2>6, <2>11, <3>3
      <4>2. PICK j \in 1..(n - 1) : Active(hits[j])
        BY <4>1 DEF Groups
      <4>3. QED
        BY <4>2
    <3>4. QED
      BY <3>1, <3>2, <3>3
  <2>12. ASSUME NEW k \in DOMAIN c PROVE c[k].from <= c[k].to
    <3>1. \A l \in 1..Len(groups) : groups[l].from <= groups[l].to
      BY <1>2 DEF Groups
    <3>2. CASE k # m
      BY <2>1, <2>6, <3>1, <3>2
    <3>3. CASE k = m
      <4>1. g.from <= g.to
        BY <2>1, <3>1
      <4>2. q.from <= q.to
        BY <1>6, <2>2, <2>4, <4>1
      <4>3. QED
        BY <2>6, <3>3, <4>2
    <3>4. QED
      BY <3>2, <3>3
  <2>13. Groups(c, hits, n)
    BY <2>6, <2>8, <2>9, <2>10, <2>11, <2>12 DEF Groups
  <2>14. QED
    BY <1>1, <2>13
<1>8. CASE ~(groups # <<>> /\ h.from <= Last(groups).to)
  <2>1. c = Append(groups, h)
    BY <1>1, <1>8 DEF WithHit
  <2>2. PICK m \in Nat : m = Len(groups) + 1
    BY <1>2
  <2>3. /\ c \in Seq(HitRecords) /\ Len(c) = m /\ DOMAIN c = 1..m /\ c[m] = h /\ m \in DOMAIN c
        /\ \A k \in 1..Len(groups) : c[k] = groups[k] /\ k \in DOMAIN c
        /\ \A k \in 1..m : k \in 1..Len(groups) \/ k = m
    BY <1>2, <2>1, <2>2
  <2>4. n # 0 /\ c # <<>> /\ Last(c).from <= hits[n].from
    <3>1. c # <<>> /\ Last(c) = h
      BY <2>2, <2>3 DEF Last
    <3>2. QED
      BY <1>1, <1>6, <3>1
  <2>5. ASSUME NEW j \in 1..n
        PROVE  \E k \in DOMAIN c : /\ c[k].from <= hits[j].from /\ hits[j].to <= c[k].to
                                   /\ Active(hits[j]) => Active(c[k])
    <3>1. CASE j = n
      <4>1. h.from <= h.from /\ h.to <= h.to
        BY <1>6
      <4>2. QED
        BY <1>1, <2>3, <3>1, <4>1
    <3>2. CASE j # n
      <4>1. PICK k \in DOMAIN groups : /\ groups[k].from <= hits[j].from /\ hits[j].to <= groups[k].to
                                       /\ Active(hits[j]) => Active(groups[k])
        BY <1>3, <3>2 DEF Groups
      <4>2. QED
        BY <1>2, <2>3, <4>1
    <3>3. QED
      BY <3>1, <3>2
  <2>6. ASSUME NEW k \in DOMAIN c, NEW i \in c[k].from..c[k].to
        PROVE  \E j \in 1..n : i \in hits[j].from..hits[j].to
    <3>1. CASE k = m
      BY <1>1, <2>3, <3>1
    <3>2. CASE k # m
      <4>1. k \in DOMAIN groups /\ i \in groups[k].from..groups[k].to
        BY <1>2, <2>3, <3>2
      <4>2. PICK j \in 1..(n - 1) : i \in hits[j].from..hits[j].to
        BY <4>1 DEF Groups
      <4>3. QED
        BY <4>2
    <3>3. QED
      BY <3>1, <3>2
  <2>7. ASSUME NEW k \in DOMAIN c, Active(c[k]) PROVE \E j \in 1..n : Active(hits[j])
    <3>1. CASE k = m
      BY <1>1, <2>3, <2>7, <3>1
    <3>2. CASE k # m
      <4>1. k \in DOMAIN groups /\ c[k] = groups[k]
        BY <1>2, <2>3, <3>2
      <4>2. PICK j \in 1..(n - 1) : Active(hits[j])
        BY <2>7, <4>1 DEF Groups
      <4>3. QED
        BY <4>2
    <3>3. QED
      BY <3>1, <3>2
  <2>8. ASSUME NEW k \in DOMAIN c PROVE c[k].from <= c[k].to
    <3>1. h.from <= h.to
      BY <1>1, <1>2
    <3>2. \A l \in 1..Len(groups) : groups[l].from <= groups[l].to
      BY <1>2 DEF Groups
    <3>3. QED
      BY <2>3, <3>1, <3>2
  <2>9. Groups(c, hits, n)
    BY <2>3, <2>4, <2>5, <2>6, <2>7, <2>8 DEF Groups
  <2>10. QED
    BY <1>1, <2>9
<1>9. QED
  BY <1>7, <1>8

LEMMA MergeGroups ==
  ASSUME NEW hits \in Seq(HitRecords),
         \A i, j \in DOMAIN hits : i <= j => hits[i].from <= hits[j].from,
         \A i \in DOMAIN hits : hits[i].from <= hits[i].to
  PROVE  Groups(Merge(hits), hits, Len(hits))
<1> DEFINE n == Len(hits)
           G == [i \in 1..n |-> [groups \in Seq(HitRecords) |-> WithHit(groups, hits[i])]]
           merged == CHOOSE f : f = [i \in 0..n |-> IF i = 0 THEN <<>> ELSE WithHit(f[i - 1], hits[i])]
<1>1. Merge(hits) = merged[n]
  BY Zenon DEF Merge
<1>2. n \in Nat /\ DOMAIN hits = 1..n
  BY LenProperties
<1> HIDE DEF n
<1>3. \A i \in 1..n : \A groups \in Seq(HitRecords) : WithHit(groups, hits[i]) \in Seq(HitRecords)
  <2>1. TAKE i \in 1..n
  <2>2. TAKE groups \in Seq(HitRecords)
  <2>3. hits[i] \in HitRecords
    BY <1>2
  <2>4. CASE groups # <<>>
    <3>1. Len(groups) \in 1..Len(groups) /\ groups[Len(groups)] \in HitRecords
      BY <2>4
    <3>2. Joined(groups[Len(groups)], hits[i]) \in HitRecords
      BY <2>3, <3>1, JoinedIs
    <3>3. [groups EXCEPT ![Len(groups)] = Joined(groups[Len(groups)], hits[i])] \in Seq(HitRecords)
      BY <3>1, <3>2
    <3>4. Append(groups, hits[i]) \in Seq(HitRecords)
      BY <2>3
    <3>5. QED
      BY <3>3, <3>4 DEF WithHit
  <2>5. CASE groups = <<>>
    <3>1. Append(groups, hits[i]) \in Seq(HitRecords)
      BY <2>3
    <3>2. QED
      BY <2>5, <3>1 DEF WithHit
  <2>6. QED
    BY <2>4, <2>5
<1>4. PICK g : g = G
  OBVIOUS
<1>5. g \in [1..n -> [Seq(HitRecords) -> Seq(HitRecords)]] /\ <<>> \in Seq(HitRecords)
  BY <1>3, <1>4
<1>6. PICK f \in [0..n -> Seq(HitRecords)] : Recurs(f, <<>>, g, n)
  BY <1>2, <1>5, Recursion
<1>7. \A i \in 1..n : f[i] = WithHit(f[i - 1], hits[i])
  <2>1. TAKE i \in 1..n
  <2>2. i - 1 \in 0..n
    BY <1>2
  <2>3. PICK y \in Seq(HitRecords) : y = f[i - 1]
    BY <2>2
  <2>4. g[i][y] = WithHit(y, hits[i])
    BY <1>4
  <2>5. f[i] = g[i][y]
    BY <1>6, <2>3 DEF Recurs
  <2>6. QED
    BY <2>3, <2>4, <2>5
<1>8. f = [i \in 0..n |-> IF i = 0 THEN <<>> ELSE WithHit(f[i - 1], hits[i])]
  <2>1. \A i \in 0..n : i = 0 \/ i \in 1..n
    BY <1>2
  <2>2. \A i \in 0..n : f[i] = IF i = 0 THEN <<>> ELSE WithHit(f[i - 1], hits[i])
    BY <1>6, <1>7, <2>1 DEF Recurs
  <2>3. QED
    BY <2>2
<1>9. merged = [i \in 0..n |-> IF i = 0 THEN <<>> ELSE WithHit(merged[i - 1], hits[i])]
  BY <1>8, Zenon
<1> HIDE DEF merged
<1> DEFINE T == {m \in 0..n : Groups(merged[m], hits, m)}
<1>10. 0 \in T
  <2>1. 0 \in 0..n
    BY <1>2
  <2>2. merged[0] = <<>>
    BY <1>9, <2>1
  <2>3. Groups(<<>>, hits, 0)
    <3>1. <<>> \in Seq(HitRecords) /\ DOMAIN <<>> = {} /\ 1..0 = {}
      OBVIOUS
    <3>2. QED
      BY <3>1 DEF Groups
  <2>4. QED
    BY <2>1, <2>2, <2>3
<1>11. ASSUME NEW m \in 1..n, m - 1 \in T PROVE m \in T
  <2>1. m \in 0..n /\ m # 0 /\ m \in 1..Len(hits)
    BY <1>2 DEF n
  <2>2. merged[m] = WithHit(merged[m - 1], hits[m])
    BY <1>9, <2>1
  <2>3. Groups(merged[m - 1], hits, m - 1)
    BY <1>11
  <2>4. Groups(WithHit(merged[m - 1], hits[m]), hits, m)
    BY <2>1, <2>3, WithHitKeeps
  <2>5. QED
    BY <2>1, <2>2, <2>4
<1> HIDE DEF T
<1>12. n \in T
  <2>1. 0..n \subseteq T
    BY <1>2, <1>10, <1>11, CountUp
  <2>2. QED
    BY <1>2, <2>1
<1>13. Groups(merged[n], hits, n)
  BY <1>12 DEF T
<1>14. QED
  BY <1>1, <1>13 DEF n


-----------------------------------------------------------------------------
(* What is left of a text. *)

\* A symbol is in joined sequences as often as one of them consists of it, when
\* none is longer.
LEMMA FlattenCounts ==
  ASSUME NEW A, NEW s \in Seq(Seq(A)), NEW u, \A k \in DOMAIN s : Len(s[k]) <= 1
  PROVE  Times(u, FlattenSeq(s), {}) = Cardinality({k \in DOMAIN s : s[k] = <<u>>})
<1> DEFINE F(m) == FlattenSeq(SubSeq(s, 1, m))
           Spots(m) == {i \in 1..Len(F(m)) : F(m)[i] = u}
           Ones(m) == {k \in 1..m : s[k] = <<u>>}
           Same(m) == /\ IsFiniteSet(Spots(m)) /\ IsFiniteSet(Ones(m))
                      /\ Cardinality(Spots(m)) = Cardinality(Ones(m))
           T == {m \in 0..Len(s) : Same(m)}
<1>0. DOMAIN s = 1..Len(s) /\ Len(s) \in Nat
  BY LenProperties
<1>1. 0 \in T
  <2>1. F(0) = <<>>
    BY FlattenAll, FlattenEmpty
  <2>2. Spots(0) = {} /\ Ones(0) = {}
    BY <2>1
  <2> HIDE DEF Spots, Ones
  <2>3. Same(0)
    BY <2>2, FS_EmptySet
  <2>4. QED
    BY <1>0, <2>3
<1>2. ASSUME NEW m \in 1..Len(s), m - 1 \in T PROVE m \in T
  <2>1. F(m) = F(m - 1) \o s[m] /\ F(m - 1) \in Seq(A) /\ s[m] \in Seq(A)
    BY FlattenFirst
  <2>2. Same(m - 1)
    BY <1>2
  <2>3. PICK a, b, c : a = F(m - 1) /\ b = s[m] /\ c = F(m)
    OBVIOUS
  <2>4. Spots(m - 1) = {i \in 1..Len(a) : a[i] = u} /\ Spots(m) = {i \in 1..Len(c) : c[i] = u}
    BY <2>3
  <2> HIDE DEF F
  <2>5. a \in Seq(A) /\ b \in Seq(A) /\ c = a \o b /\ Len(b) <= 1 /\ Len(a) \in Nat
    <3>1. m \in DOMAIN s
      BY <1>0
    <3>2. Len(b) <= 1
      BY <2>3, <3>1
    <3>3. a \in Seq(A) /\ b \in Seq(A) /\ c = a \o b
      BY <2>1, <2>3
    <3>4. QED
      BY <3>2, <3>3, LenProperties
  <2>6. \A k \in 1..m : k \in 1..(m - 1) \/ k = m
    OBVIOUS
  <2>7. CASE b # <<u>>
    <3>1. Ones(m) = Ones(m - 1)
      BY <2>3, <2>6, <2>7
    <3>2. CASE b = <<>>
      <4>1. c = a
        BY <2>5, <3>2
      <4>2. Spots(m) = Spots(m - 1)
        BY <2>4, <4>1
      <4> HIDE DEF Spots, Ones
      <4>3. QED
        BY <1>0, <2>2, <3>1, <4>2
    <3>3. CASE b # <<>>
      <4>1. Len(b) = 1 /\ b[1] # u
        <5>1. Len(b) = 1
          <6>1. PICK l \in Nat : l = Len(b)
            BY <2>5, LenProperties
          <6>2. l # 0
            BY <2>5, <3>3, <6>1, EmptySeq
          <6>3. l <= 1
            BY <2>5, <6>1
          <6>4. l = 1
            BY <6>1, <6>2, <6>3
          <6>5. QED
            BY <6>1, <6>4
        <5>2. b = <<b[1]>>
          BY <2>5, <5>1
        <5>3. QED
          BY <2>7, <5>1, <5>2
      <4>2. /\ Len(c) = Len(a) + 1 /\ c[Len(a) + 1] # u
            /\ \A i \in 1..Len(a) : c[i] = a[i]
        <5>1. PICK d : d = a \o b
          OBVIOUS
        <5>2. /\ Len(d) = Len(a) + 1 /\ d[Len(a) + 1] = b[1]
              /\ \A i \in 1..Len(a) : d[i] = a[i]
          <6>1. PICK l \in Nat : l = Len(a)
            BY <2>5
          <6>2. /\ Len(d) = l + 1
                /\ \A i \in 1..(l + 1) : d[i] = IF i <= l THEN a[i] ELSE b[i - l]
            <7>1. /\ Len(a \o b) = Len(a) + Len(b)
                  /\ \A i \in 1..(Len(a) + Len(b)) : (a \o b)[i] = IF i <= Len(a) THEN a[i] ELSE b[i - Len(a)]
              BY <2>5, ConcatProperties
            <7>2. Len(b) = 1
              BY <4>1
            <7>3. QED
              BY <5>1, <6>1, <7>1, <7>2
          <6>3. d[l + 1] = b[1]
            <7>1. l + 1 \in 1..(l + 1) /\ ~(l + 1 <= l) /\ (l + 1) - l = 1
              OBVIOUS
            <7>2. QED
              BY <6>2, <7>1
          <6>4. \A i \in 1..l : d[i] = a[i]
            BY <6>2
          <6>5. QED
            BY <6>1, <6>2, <6>3, <6>4
        <5>3. QED
          BY <2>5, <4>1, <5>1, <5>2
      <4>3. Spots(m) = Spots(m - 1)
        <5>1. \A i \in 1..Len(c) : i \in 1..Len(a) \/ i = Len(a) + 1
          BY <2>5, <4>2
        <5>2. \A i \in 1..Len(a) : i \in 1..Len(c)
          BY <2>5, <4>2
        <5>3. QED
          BY <2>4, <4>2, <5>1, <5>2
      <4> HIDE DEF Spots, Ones
      <4>4. QED
        BY <1>0, <2>2, <3>1, <4>3
    <3>4. QED
      BY <3>2, <3>3
  <2>8. CASE b = <<u>>
    <3>1. Ones(m) = Ones(m - 1) \cup {m} /\ m \notin Ones(m - 1)
      <4>1. s[m] = <<u>> /\ m \in 1..m /\ \A k \in 1..(m - 1) : k \in 1..m
        BY <2>3, <2>8
      <4>2. QED
        BY <2>6, <4>1
    <3>2. /\ Len(c) = Len(a) + 1 /\ c[Len(a) + 1] = u
          /\ \A i \in 1..Len(a) : c[i] = a[i]
      BY <2>5, <2>8
    <3>3. Spots(m) = Spots(m - 1) \cup {Len(a) + 1} /\ Len(a) + 1 \notin Spots(m - 1)
      <4>1. \A i \in 1..Len(c) : i \in 1..Len(a) \/ i = Len(a) + 1
        BY <2>5, <3>2
      <4>2. Len(a) + 1 \in 1..Len(c) /\ \A i \in 1..Len(a) : i \in 1..Len(c) /\ i # Len(a) + 1
        BY <2>5, <3>2
      <4>3. QED
        BY <2>4, <3>2, <4>1, <4>2
    <3> HIDE DEF Spots, Ones
    <3>4. /\ IsFiniteSet(Spots(m)) /\ Cardinality(Spots(m)) = Cardinality(Spots(m - 1)) + 1
          /\ IsFiniteSet(Ones(m)) /\ Cardinality(Ones(m)) = Cardinality(Ones(m - 1)) + 1
      <4>1. /\ IsFiniteSet(Spots(m - 1)) /\ IsFiniteSet(Ones(m - 1))
        BY <2>2
      <4>2. /\ IsFiniteSet(Spots(m - 1) \cup {Len(a) + 1})
            /\ Cardinality(Spots(m - 1) \cup {Len(a) + 1}) = Cardinality(Spots(m - 1)) + 1
        BY <3>3, <4>1, FS_AddElement
      <4>3. /\ IsFiniteSet(Ones(m - 1) \cup {m})
            /\ Cardinality(Ones(m - 1) \cup {m}) = Cardinality(Ones(m - 1)) + 1
        BY <3>1, <4>1, FS_AddElement
      <4>4. QED
        BY <3>1, <3>3, <4>2, <4>3
    <3>5. QED
      BY <1>0, <2>2, <3>4
  <2>9. QED
    BY <2>7, <2>8
<1> HIDE DEF T
<1>3. Len(s) \in T
  <2>1. 0..Len(s) \subseteq T
    BY <1>0, <1>1, <1>2, CountUp
  <2>2. QED
    BY <1>0, <2>1
<1>4. Cardinality(Spots(Len(s))) = Cardinality(Ones(Len(s))) /\ F(Len(s)) = FlattenSeq(s)
  BY <1>3, FlattenAll DEF T
<1>5. DOMAIN FlattenSeq(s) = 1..Len(FlattenSeq(s))
  BY FlattenAll, LenProperties
<1> HIDE DEF F
<1>6. Times(u, FlattenSeq(s), {}) = Cardinality(Spots(Len(s)))
  <2>1. {i \in DOMAIN FlattenSeq(s) \ {} : FlattenSeq(s)[i] = u} = Spots(Len(s))
    BY <1>4, <1>5
  <2>2. QED
    BY <2>1 DEF Times
<1>7. QED
  BY <1>0, <1>4, <1>6

\* Sequences of one element each, joined, are the sequence of these.
LEMMA FlattenOnes ==
  ASSUME NEW A, NEW s \in Seq(Seq(A)), NEW B, NEW t \in Seq(B), DOMAIN s = DOMAIN t,
         \A i \in DOMAIN t : s[i] = <<t[i]>>
  PROVE  FlattenSeq(s) = t
<1> DEFINE F(m) == FlattenSeq(SubSeq(s, 1, m))
           Is(m) == Len(F(m)) = m /\ \A i \in 1..m : F(m)[i] = t[i]
           T == {m \in 0..Len(s) : Is(m)}
<1>0. DOMAIN s = 1..Len(s) /\ Len(s) \in Nat /\ DOMAIN t = 1..Len(t) /\ Len(t) \in Nat
  BY LenProperties
<1>1. 0 \in T
  <2>1. F(0) = <<>>
    BY FlattenAll, FlattenEmpty
  <2>2. Is(0)
    BY <2>1
  <2>3. QED
    BY <1>0, <2>2
<1>2. ASSUME NEW m \in 1..Len(s), m - 1 \in T PROVE m \in T
  <2>1. F(m) = F(m - 1) \o s[m] /\ F(m - 1) \in Seq(A) /\ s[m] \in Seq(A)
    BY FlattenFirst
  <2>2. Is(m - 1) /\ s[m] = <<t[m]>>
    BY <1>0, <1>2
  <2>3. PICK a, c, v : a = F(m - 1) /\ c = F(m) /\ v = t[m]
    OBVIOUS
  <2>4. Is(m - 1) <=> Len(a) = m - 1 /\ \A i \in 1..(m - 1) : a[i] = t[i]
    BY <2>3
  <2>5. Is(m) <=> Len(c) = m /\ \A i \in 1..m : c[i] = t[i]
    BY <2>3
  <2> HIDE DEF F, Is
  <2>6. a \in Seq(A) /\ c = a \o <<v>> /\ v \in A
    <3>1. <<v>> \in Seq(A)
      BY <2>1, <2>2, <2>3
    <3>2. v \in A
      <4>1. PICK w : w = <<v>>
        OBVIOUS
      <4>2. w \in Seq(A) /\ Len(w) = 1 /\ w[1] = v
        BY <3>1, <4>1
      <4>3. QED
        <5>1. 1 \in 1..Len(w)
          BY <4>2
        <5>2. QED
          BY <4>2, <5>1, ElementOfSeq
    <3>3. QED
      BY <2>1, <2>2, <2>3, <3>2
  <2>7. Len(c) = m /\ c[m] = v /\ \A i \in 1..(m - 1) : c[i] = a[i]
    <3>1. PICK b : b = <<v>>
      OBVIOUS
    <3>2. b \in Seq(A) /\ Len(b) = 1 /\ b[1] = v /\ Len(a) = m - 1 /\ m \in Nat
      BY <2>2, <2>4, <2>6, <3>1
    <3>3. /\ Len(a \o b) = Len(a) + Len(b)
          /\ \A i \in 1..(Len(a) + Len(b)) : (a \o b)[i] = IF i <= Len(a) THEN a[i] ELSE b[i - Len(a)]
      BY <2>6, <3>2, ConcatProperties
    <3>4. c = a \o b
      BY <2>6, <3>1
    <3>5. Len(c) = m /\ \A i \in 1..m : c[i] = IF i <= m - 1 THEN a[i] ELSE b[i - (m - 1)]
      BY <3>2, <3>3, <3>4
    <3>6. m \in 1..m /\ ~(m <= m - 1) /\ m - (m - 1) = 1 /\ \A i \in 1..(m - 1) : i \in 1..m /\ i <= m - 1
      OBVIOUS
    <3>7. QED
      BY <3>2, <3>5, <3>6
  <2>8. \A i \in 1..m : i \in 1..(m - 1) \/ i = m
    OBVIOUS
  <2>9. Is(m)
    BY <2>2, <2>3, <2>4, <2>5, <2>7, <2>8
  <2>10. QED
    BY <1>0, <2>9
<1> HIDE DEF T
<1>3. Len(s) \in T
  <2>1. 0..Len(s) \subseteq T
    BY <1>0, <1>1, <1>2, CountUp
  <2>2. QED
    BY <1>0, <2>1
<1>4. Is(Len(s)) /\ F(Len(s)) = FlattenSeq(s)
  BY <1>3, FlattenAll DEF T
<1>5. FlattenSeq(s) \in Seq(A) /\ Len(s) = Len(t)
  <2>1. ASSUME NEW j \in Nat, NEW k \in Nat, j < k PROVE 1..j # 1..k
    <3>1. k \in 1..k /\ k \notin 1..j
      BY <2>1
    <3>2. QED
      BY <3>1
  <2>2. Len(s) = Len(t)
    <3>1. 1..Len(s) = 1..Len(t)
      BY <1>0
    <3>2. ~(Len(s) < Len(t)) /\ ~(Len(t) < Len(s))
      BY <1>0, <2>1, <3>1
    <3>3. PICK j \in Nat, k \in Nat : j = Len(s) /\ k = Len(t)
      BY <1>0
    <3>4. j = k
      BY <3>2, <3>3
    <3>5. QED
      BY <3>3, <3>4
  <2>3. QED
    BY <2>2, FlattenAll
<1>6. QED
  <2>1. PICK f : f = FlattenSeq(s)
    OBVIOUS
  <2>2. Len(f) = Len(t) /\ \A i \in 1..Len(t) : f[i] = t[i]
    BY <1>4, <1>5, <2>1
  <2> HIDE DEF F, Is
  <2>3. f \in Seq(A \cup B) /\ t \in Seq(A \cup B)
    BY <1>5, <2>1
  <2>4. QED
    BY <2>1, <2>2, <2>3, SeqEqual

\* What is owed at a place of a text, given what is left there: nothing of a
\* secret, and all that is not inside of a match.
IsPiece(y, i, S, x) ==
  /\ y \in Seq(S \cup Markers) /\ Len(y) <= 1
  /\ \A u \in S \ Markers : y = <<u>> => x.text[i] = u /\ i \notin Found(x, Secrets(x))
  /\ i \notin Found(x, Matches(x.text, x.context)) => y = <<x.text[i]>>
  /\ Secrets(x) = {} => y = <<x.text[i]>>

LEMMA PiecesAre ==
  ASSUME NEW S, NEW text \in Seq(S), NEW context,
         NEW secrets, secrets = {h \in ToSet(ScanText(text, context)) : Active(h)},
         NEW x, x = [text |-> text, context |-> context],
         NEW i \in DOMAIN text
  PROVE  IsPiece(Piece(i, text, secrets), i, S, x)
<1>1. PICK hits, groups : hits = Hits(text, context) /\ groups = Merge(hits)
  OBVIOUS
<1>2. /\ hits \in Seq(HitRecords) /\ ToSet(hits) = Matches(text, context)
      /\ \A j, k \in DOMAIN hits : j <= k => hits[j].from <= hits[k].from
      /\ \A j \in DOMAIN hits : hits[j].from <= hits[j].to
  BY <1>1, HitsAre
<1>3. Groups(groups, hits, Len(hits))
  BY <1>1, <1>2, MergeGroups
<1>4. secrets = {h \in ToSet(groups) : Active(h)}
  BY <1>1 DEF ScanText
<1>5. /\ i \in Nat /\ text[i] \in S
      /\ DOMAIN hits = 1..Len(hits) /\ \A j \in DOMAIN hits : hits[j] \in ToSet(hits)
      /\ \A k \in DOMAIN groups : groups[k] \in HitRecords
      /\ x.text = text /\ x.context = context
  BY <1>2, <1>3, LenProperties DEF Groups, ToSet
<1>6. ASSUME NEW h \in secrets
      PROVE  /\ h \in HitRecords /\ h.from \in h.from..h.to
             /\ i \in h.from..h.to => i \in Found(x, Matches(text, context))
             /\ Secrets(x) # {}
  <2>1. PICK k \in DOMAIN groups : h = groups[k] /\ Active(groups[k])
    BY <1>4 DEF ToSet
  <2>2. h \in HitRecords /\ h.from <= h.to
    BY <1>3, <1>5, <2>1 DEF Groups
  <2>3. h.from \in h.from..h.to
    BY <2>2 DEF HitRecords
  <2>4. ASSUME i \in h.from..h.to PROVE i \in Found(x, Matches(text, context))
    <3>1. PICK j \in 1..Len(hits) : i \in hits[j].from..hits[j].to
      BY <1>3, <2>1, <2>4 DEF Groups
    <3>2. hits[j] \in Matches(text, context)
      BY <1>2, <1>5
    <3>3. QED
      BY <1>5, <3>1, <3>2 DEF Found
  <2>5. Secrets(x) # {}
    <3>1. PICK j \in 1..Len(hits) : Active(hits[j])
      BY <1>3, <2>1 DEF Groups
    <3>2. hits[j] \in Matches(text, context)
      BY <1>2, <1>5
    <3>3. QED
      BY <1>5, <3>1, <3>2 DEF Secrets
  <2>6. QED
    BY <2>2, <2>3, <2>4, <2>5
<1>7. ASSUME i \in Found(x, Secrets(x)) PROVE \E h \in secrets : i \in h.from..h.to
  <2>1. PICK s \in Matches(text, context) : Active(s) /\ i \in s.from..s.to
    BY <1>5, <1>7 DEF Found, Secrets
  <2>2. PICK j \in DOMAIN hits : hits[j] = s
    BY <1>2, <2>1 DEF ToSet
  <2>3. PICK k \in DOMAIN groups : groups[k].from <= s.from /\ s.to <= groups[k].to /\ Active(groups[k])
    BY <1>3, <1>5, <2>1, <2>2 DEF Groups
  <2>4. groups[k] \in secrets
    BY <1>4, <2>3 DEF ToSet
  <2>5. i \in groups[k].from..groups[k].to
    <3>1. /\ s.from \in Nat /\ s.to \in Nat /\ groups[k].from \in Nat /\ groups[k].to \in Nat
      <4>1. s \in HitRecords /\ groups[k] \in HitRecords
        BY <1>2, <1>5, <2>2
      <4>2. QED
        BY <4>1 DEF HitRecords
    <3>2. QED
      BY <2>1, <2>3, <3>1
  <2>6. QED
    BY <2>4, <2>5
<1>8. CASE \E h \in secrets : h.from = i
  <2>1. PICK h : h = CHOOSE g \in secrets : g.from = i
    OBVIOUS
  <2>2. h \in secrets /\ h.from = i
    BY <1>8, <2>1
  <2>3. h.pattern \in DOMAIN Patterns
    BY <1>6, <2>2 DEF HitRecords
  <2>4. Piece(i, text, secrets) = <<Patterns[h.pattern].marker>>
    BY <1>8, <2>1 DEF Piece
  <2>5. i \in Found(x, Matches(text, context)) /\ Secrets(x) # {}
    BY <1>6, <2>2
  <2>6. PICK m : m = Patterns[h.pattern].marker
    OBVIOUS
  <2>7. m \in Markers
    BY <2>3, <2>6 DEF Markers
  <2>8. PICK y : y = <<m>>
    OBVIOUS
  <2>9. /\ y \in Seq(S \cup Markers) /\ Len(y) <= 1
        /\ \A u \in S \ Markers : y # <<u>>
    BY <2>7, <2>8
  <2>10. IsPiece(y, i, S, x)
    BY <1>5, <2>5, <2>9 DEF IsPiece
  <2>11. QED
    BY <2>4, <2>6, <2>8, <2>10
<1>9. CASE ~(\E h \in secrets : h.from = i) /\ \E h \in secrets : i \in h.from..h.to
  <2>1. Piece(i, text, secrets) = <<>>
    BY <1>9, Zenon DEF Piece
  <2>2. i \in Found(x, Matches(text, context)) /\ Secrets(x) # {}
    BY <1>6, <1>9
  <2>3. PICK y : y = <<>>
    OBVIOUS
  <2>4. /\ y \in Seq(S \cup Markers) /\ Len(y) <= 1
        /\ \A u \in S \ Markers : y # <<u>>
    BY <2>3
  <2>5. IsPiece(y, i, S, x)
    BY <1>5, <2>2, <2>4 DEF IsPiece
  <2>6. QED
    BY <2>1, <2>3, <2>5
<1>10. CASE ~(\E h \in secrets : h.from = i) /\ ~(\E h \in secrets : i \in h.from..h.to)
  <2>1. Piece(i, text, secrets) = <<text[i]>>
    BY <1>10, Zenon DEF Piece
  <2>2. i \notin Found(x, Secrets(x))
    BY <1>7, <1>10
  <2>3. PICK v, y : v = text[i] /\ y = <<v>>
    OBVIOUS
  <2>4. /\ y \in Seq(S \cup Markers) /\ Len(y) <= 1
        /\ \A u \in S \ Markers : y = <<u>> => v = u
    BY <1>5, <2>3
  <2>5. IsPiece(y, i, S, x)
    BY <1>5, <2>2, <2>3, <2>4 DEF IsPiece
  <2>6. QED
    BY <2>1, <2>3, <2>5
<1>11. QED
  BY <1>8, <1>9, <1>10

\* There is a secret in a text if one is found in it.
LEMMA SecretsAreHits ==
  ASSUME NEW S, NEW text \in Seq(S), NEW context, NEW x, x = [text |-> text, context |-> context]
  PROVE  Secrets(x) # {} <=> \E h \in ToSet(ScanText(text, context)) : Active(h)
<1>1. PICK hits, groups : hits = Hits(text, context) /\ groups = Merge(hits)
  OBVIOUS
<1>2. /\ hits \in Seq(HitRecords) /\ ToSet(hits) = Matches(text, context)
      /\ \A j, k \in DOMAIN hits : j <= k => hits[j].from <= hits[k].from
      /\ \A j \in DOMAIN hits : hits[j].from <= hits[j].to
  BY <1>1, HitsAre
<1>3. Groups(groups, hits, Len(hits)) /\ DOMAIN hits = 1..Len(hits)
  BY <1>1, <1>2, MergeGroups, LenProperties
<1>4. ASSUME Secrets(x) # {} PROVE \E k \in DOMAIN groups : Active(groups[k])
  <2>1. PICK j \in DOMAIN hits : Active(hits[j])
    BY <1>2, <1>4 DEF Secrets, ToSet
  <2>2. QED
    BY <1>3, <2>1 DEF Groups
<1>5. ASSUME NEW k \in DOMAIN groups, Active(groups[k]) PROVE Secrets(x) # {}
  <2>1. PICK j \in 1..Len(hits) : Active(hits[j])
    BY <1>3, <1>5 DEF Groups
  <2>2. hits[j] \in Matches(text, context)
    BY <1>2, <1>3 DEF ToSet
  <2>3. QED
    BY <2>1, <2>2 DEF Secrets
<1>6. QED
  BY <1>1, <1>4, <1>5 DEF ScanText, ToSet

\* In any text, in any context and for any patterns, redaction
\* leaves each symbol but its markers at most as often as it is outside of all secrets, whatever
\* other matches overlap them, and at least as often as it is outside of all
\* matches; and where nothing is a secret nothing is changed (scan_str,
\* merge_overlapping_hits, redact_ranges).
THEOREM NoPartOfASecretIsLeft ==
  ASSUME NEW S, NEW text \in Seq(S), NEW context
  PROVE  LET x    == [text |-> text, context |-> context]
             left == Clean(text, context)
         IN  /\ left \in Seq(S \cup Markers)
             /\ \A u \in S \ Markers :
                  /\ Times(u, left, {}) <= Times(u, text, Found(x, Secrets(x)))
                  /\ Times(u, left, {}) >= Times(u, text, Found(x, Matches(text, context)))
             /\ Secrets(x) = {} => left = text
<1>1. PICK x, left, secrets :
        /\ x = [text |-> text, context |-> context] /\ left = Clean(text, context)
        /\ secrets = {h \in ToSet(ScanText(text, context)) : Active(h)}
  OBVIOUS
<1>2. PICK s, B : /\ s = [i \in DOMAIN text |-> Piece(i, text, secrets)]
                  /\ B = S \cup Markers
  OBVIOUS
<1>3. left = FlattenSeq(s)
  BY <1>1, <1>2 DEF Clean, Redacted
<1>4. Len(text) \in Nat /\ DOMAIN text = 1..Len(text) /\ DOMAIN s = DOMAIN text
  BY <1>2, LenProperties
<1>5. \A i \in DOMAIN text :
        /\ s[i] \in Seq(B) /\ Len(s[i]) <= 1
        /\ \A u \in S \ Markers : s[i] = <<u>> => text[i] = u /\ i \notin Found(x, Secrets(x))
        /\ i \notin Found(x, Matches(text, context)) => s[i] = <<text[i]>>
        /\ Secrets(x) = {} => s[i] = <<text[i]>>
  <2>1. TAKE i \in DOMAIN text
  <2>2. IsPiece(Piece(i, text, secrets), i, S, x)
    BY <1>1, PiecesAre
  <2>3. PICK y : y = Piece(i, text, secrets)
    OBVIOUS
  <2>4. s[i] = y /\ IsPiece(y, i, S, x) /\ x.text = text /\ x.context = context
    BY <1>1, <1>2, <2>2, <2>3
  <2>5. QED
    BY <1>2, <2>4 DEF IsPiece
<1>6. s \in Seq(Seq(B))
  BY <1>2, <1>4, <1>5
<1>7. ASSUME NEW u \in S \ Markers
      PROVE  /\ Times(u, left, {}) <= Times(u, text, Found(x, Secrets(x)))
             /\ Times(u, left, {}) >= Times(u, text, Found(x, Matches(text, context)))
  <2>1. PICK ones, most, least :
          /\ ones = {k \in DOMAIN s : s[k] = <<u>>}
          /\ most = {i \in DOMAIN text \ Found(x, Secrets(x)) : text[i] = u}
          /\ least = {i \in DOMAIN text \ Found(x, Matches(text, context)) : text[i] = u}
    OBVIOUS
  <2>2. Times(u, left, {}) = Cardinality(ones)
    <3>1. \A k \in DOMAIN s : Len(s[k]) <= 1
      BY <1>4, <1>5
    <3>2. Times(u, FlattenSeq(s), {}) = Cardinality({k \in DOMAIN s : s[k] = <<u>>})
      BY <1>6, <3>1, FlattenCounts
    <3>3. QED
      BY <1>3, <2>1, <3>2
  <2>3. ones \subseteq most /\ least \subseteq ones
    BY <1>4, <1>5, <2>1
  <2>4. IsFiniteSet(DOMAIN text)
    BY <1>4, FS_Interval
  <2>5. IsFiniteSet(most) /\ IsFiniteSet(ones) /\ IsFiniteSet(least)
    <3>1. most \subseteq DOMAIN text /\ ones \subseteq DOMAIN text /\ least \subseteq DOMAIN text
      BY <1>4, <2>1
    <3>2. QED
      BY <2>4, <3>1, FS_Subset
  <2>6. Cardinality(ones) <= Cardinality(most) /\ Cardinality(least) <= Cardinality(ones)
    BY <2>3, <2>5, FS_Subset
  <2>7. /\ Times(u, text, Found(x, Secrets(x))) = Cardinality(most)
        /\ Times(u, text, Found(x, Matches(text, context))) = Cardinality(least)
    BY <2>1 DEF Times
  <2>8. Cardinality(ones) \in Nat /\ Cardinality(least) \in Nat
    BY <2>5, FS_CardinalityType
  <2>9. QED
    BY <2>2, <2>6, <2>7, <2>8
<1>8. ASSUME Secrets(x) = {} PROVE left = text
  <2>1. \A i \in DOMAIN text : s[i] = <<text[i]>>
    BY <1>5, <1>8
  <2>2. QED
    BY <1>3, <1>4, <1>6, <2>1, FlattenOnes
<1>9. left \in Seq(S \cup Markers)
  BY <1>2, <1>3, <1>6, FlattenAll
<1>10. QED
  BY <1>1, <1>7, <1>8, <1>9

-----------------------------------------------------------------------------
(* Sums, and how often a symbol is in what is put together. *)

Sums(g, c, n) == g[0] = 0 /\ \A i \in 1..n : g[i] = g[i - 1] + c[i]

LEMMA TotalIs ==
  ASSUME NEW c \in Seq(Nat)
  PROVE  \E g \in [0..Len(c) -> Nat] : Sums(g, c, Len(c)) /\ Total(c) = g[Len(c)]
<1> DEFINE n == Len(c)
           G == [i \in 1..n |-> [v \in Nat |-> v + c[i]]]
           sum == CHOOSE f : f = [i \in 0..n |-> IF i = 0 THEN 0 ELSE f[i - 1] + c[i]]
<1>1. Total(c) = sum[n]
  BY Zenon DEF Total
<1>2. n \in Nat /\ \A i \in 1..n : c[i] \in Nat
  BY LenProperties
<1> HIDE DEF n
<1>3. PICK g : g = G
  OBVIOUS
<1>4. g \in [1..n -> [Nat -> Nat]]
  <2>1. \A i \in 1..n : \A v \in Nat : v + c[i] \in Nat
    BY <1>2
  <2>2. QED
    BY <1>3, <2>1
<1>5. PICK f \in [0..n -> Nat] : Recurs(f, 0, g, n)
  BY <1>2, <1>4, Recursion
<1>6. \A i \in 1..n : f[i] = f[i - 1] + c[i]
  <2>1. TAKE i \in 1..n
  <2>2. i - 1 \in 0..n
    BY <1>2
  <2>3. PICK y \in Nat : y = f[i - 1]
    BY <2>2
  <2>4. g[i][y] = y + c[i] /\ f[i] = g[i][y]
    BY <1>3, <1>5, <2>3 DEF Recurs
  <2>5. QED
    BY <2>3, <2>4
<1>7. f = [i \in 0..n |-> IF i = 0 THEN 0 ELSE f[i - 1] + c[i]]
  <2>1. \A i \in 0..n : i = 0 \/ i \in 1..n
    BY <1>2
  <2>2. \A i \in 0..n : f[i] = IF i = 0 THEN 0 ELSE f[i - 1] + c[i]
    BY <1>5, <1>6, <2>1 DEF Recurs
  <2>3. QED
    BY <2>2
<1>8. sum = [i \in 0..n |-> IF i = 0 THEN 0 ELSE sum[i - 1] + c[i]]
  BY <1>7, Zenon
<1> HIDE DEF sum
<1>9. Sums(sum, c, n)
  <2>1. 0 \in 0..n /\ \A i \in 1..n : i \in 0..n /\ i # 0
    BY <1>2
  <2>2. QED
    BY <1>8, <2>1 DEF Sums
<1> DEFINE T == {m \in 0..n : sum[m] \in Nat}
<1>10. 0 \in T
  BY <1>2, <1>9 DEF Sums
<1>11. ASSUME NEW m \in 1..n, m - 1 \in T PROVE m \in T
  <2>1. sum[m] = sum[m - 1] + c[m] /\ sum[m - 1] \in Nat /\ c[m] \in Nat /\ m \in 0..n
    BY <1>2, <1>9, <1>11 DEF Sums
  <2>2. QED
    BY <2>1
<1> HIDE DEF T
<1>12. 0..n \subseteq T
  BY <1>2, <1>10, <1>11, CountUp
<1>13. \A m \in 0..n : sum[m] \in Nat
  BY <1>12 DEF T
<1>14. sum \in [0..n -> Nat]
  BY <1>8, <1>13
<1>15. QED
  BY <1>1, <1>9, <1>14 DEF n

\* Of two sequences of numbers, the one whose numbers are greater has the greater sum.
LEMMA TotalGrows ==
  ASSUME NEW c \in Seq(Nat), NEW d \in Seq(Nat), Len(c) = Len(d),
         \A i \in 1..Len(c) : c[i] <= d[i]
  PROVE  Total(c) <= Total(d) /\ Total(c) \in Nat /\ Total(d) \in Nat
<1>1. PICK n \in Nat : n = Len(c) /\ n = Len(d)
  BY LenProperties
<1>2. PICK f \in [0..n -> Nat] : Sums(f, c, n) /\ Total(c) = f[n]
  BY <1>1, TotalIs
<1>3. PICK g \in [0..n -> Nat] : Sums(g, d, n) /\ Total(d) = g[n]
  BY <1>1, TotalIs
<1> DEFINE T == {m \in 0..n : f[m] <= g[m]}
<1>4. 0 \in T
  BY <1>2, <1>3 DEF Sums
<1>5. ASSUME NEW m \in 1..n, m - 1 \in T PROVE m \in T
  <2>1. f[m] = f[m - 1] + c[m] /\ g[m] = g[m - 1] + d[m] /\ f[m - 1] <= g[m - 1]
    BY <1>2, <1>3, <1>5 DEF Sums
  <2>2. c[m] \in Nat /\ d[m] \in Nat /\ c[m] <= d[m] /\ m - 1 \in 0..n /\ m \in 0..n
    BY <1>1
  <2>3. f[m - 1] \in Nat /\ g[m - 1] \in Nat
    BY <2>2
  <2>4. f[m] <= g[m]
    <3>1. \A a, b, v, w \in Nat : a <= b /\ v <= w => a + v <= b + w
      OBVIOUS
    <3>2. f[m - 1] + c[m] <= g[m - 1] + d[m]
      BY <2>1, <2>2, <2>3, <3>1
    <3>3. QED
      BY <2>1, <3>2
  <2>5. QED
    BY <2>2, <2>4
<1> HIDE DEF T
<1>6. 0..n \subseteq T
  BY <1>4, <1>5, CountUp
<1>7. n \in 0..n
  OBVIOUS
<1>8. QED
  BY <1>2, <1>3, <1>6, <1>7 DEF T

\* No number is more than the sum.
LEMMA TotalHolds ==
  ASSUME NEW c \in Seq(Nat), NEW k \in 1..Len(c)
  PROVE  c[k] <= Total(c)
<1>1. PICK n \in Nat : n = Len(c)
  BY LenProperties
<1>2. PICK f \in [0..n -> Nat] : Sums(f, c, n) /\ Total(c) = f[n]
  BY <1>1, TotalIs
<1> DEFINE T == {m \in 0..n : m >= k => c[k] <= f[m]}
<1>3. 0 \in T
  BY <1>1
<1>4. ASSUME NEW m \in 1..n, m - 1 \in T PROVE m \in T
  <2>1. f[m] = f[m - 1] + c[m]
    BY <1>2 DEF Sums
  <2>2. c[m] \in Nat /\ m - 1 \in 0..n /\ m \in 0..n /\ c[k] \in Nat /\ k \in Nat
    BY <1>1
  <2>3. f[m - 1] \in Nat
    BY <2>2
  <2>4. m - 1 >= k => c[k] <= f[m - 1]
    BY <1>4
  <2>5. ~(m >= k) \/ m - 1 >= k \/ m = k
    BY <2>2
  <2>6. CASE m - 1 >= k
    <3>1. c[k] <= f[m - 1]
      BY <2>4, <2>6
    <3>2. c[k] <= f[m - 1] + c[m]
      BY <2>2, <2>3, <3>1
    <3>3. QED
      BY <2>1, <2>2, <3>2
  <2>7. CASE m = k
    <3>1. c[k] <= f[m - 1] + c[k]
      BY <2>2, <2>3
    <3>2. QED
      BY <2>1, <2>2, <2>7, <3>1
  <2>8. CASE ~(m >= k)
    BY <2>2, <2>8
  <2>9. QED
    BY <2>5, <2>6, <2>7, <2>8
<1> HIDE DEF T
<1>5. 0..n \subseteq T
  BY <1>3, <1>4, CountUp
<1>6. n \in 0..n /\ n >= k
  BY <1>1
<1>7. QED
  BY <1>2, <1>5, <1>6 DEF T

LEMMA TimesIsNat ==
  ASSUME NEW A, NEW t \in Seq(A), NEW u, NEW but
  PROVE  Times(u, t, but) \in Nat
<1>1. IsFiniteSet(DOMAIN t)
  BY LenProperties, FS_Interval
<1>2. {i \in DOMAIN t \ but : t[i] = u} \subseteq DOMAIN t
  OBVIOUS
<1>3. QED
  BY <1>1, <1>2, FS_Subset, FS_CardinalityType DEF Times

LEMMA TimesOfNone == \A u, but : Times(u, <<>>, but) = 0
<1>1. \A u, but : {i \in DOMAIN <<>> \ but : <<>>[i] = u} = {}
  OBVIOUS
<1>2. QED
  BY <1>1, FS_EmptySet DEF Times

\* A part is not more than the whole.
LEMMA TimesInPart ==
  ASSUME NEW A, NEW t \in Seq(A), NEW u, NEW k \in Nat
  PROVE  Times(u, SubSeq(t, 1, k), {}) <= Times(u, t, {}) \/ k > Len(t)
<1>1. SUFFICES ASSUME k <= Len(t) PROVE Times(u, SubSeq(t, 1, k), {}) <= Times(u, t, {})
  <2>1. Len(t) \in Nat
    BY LenProperties
  <2>2. QED
    BY <1>1, <2>1
<1>2. PICK s : s = SubSeq(t, 1, k)
  OBVIOUS
<1>3. DOMAIN s = 1..k /\ DOMAIN t = 1..Len(t) /\ Len(t) \in Nat /\ \A i \in 1..k : s[i] = t[i]
  BY <1>1, <1>2
<1>4. {i \in DOMAIN s \ {} : s[i] = u} \subseteq {i \in DOMAIN t \ {} : t[i] = u}
  BY <1>1, <1>3
<1>5. IsFiniteSet({i \in DOMAIN t \ {} : t[i] = u})
  <2>1. IsFiniteSet(DOMAIN t)
    BY <1>3, FS_Interval
  <2>2. QED
    BY <2>1, FS_Subset
<1>6. QED
  BY <1>2, <1>4, <1>5, FS_Subset DEF Times

LEMMA TimesOfBoth ==
  ASSUME NEW A, NEW a \in Seq(A), NEW b \in Seq(A), NEW u
  PROVE  Times(u, a \o b, {}) = Times(u, a, {}) + Times(u, b, {})
<1>1. PICK c, m, n : c = a \o b /\ m = Len(a) /\ n = Len(b)
  OBVIOUS
<1>2. m \in Nat /\ n \in Nat /\ DOMAIN a = 1..m /\ DOMAIN b = 1..n /\ c \in Seq(A) /\ Len(c) = m + n
      /\ DOMAIN c = 1..(m + n)
  BY <1>1, LenProperties, ConcatProperties
<1>3. \A i \in 1..(m + n) : c[i] = IF i <= m THEN a[i] ELSE b[i - m]
  BY <1>1, ConcatProperties
<1> DEFINE P == {i \in 1..m : a[i] = u}
           Q == {i \in 1..n : b[i] = u}
           R == {i \in (m + 1)..(m + n) : b[i - m] = u}
<1>4. IsFiniteSet(P) /\ IsFiniteSet(R) /\ IsFiniteSet(Q)
  <2>1. IsFiniteSet(1..m) /\ IsFiniteSet((m + 1)..(m + n)) /\ IsFiniteSet(1..n)
    BY <1>2, FS_Interval
  <2>2. P \subseteq 1..m /\ R \subseteq (m + 1)..(m + n) /\ Q \subseteq 1..n
    OBVIOUS
  <2>3. QED
    BY <2>1, <2>2, FS_Subset
<1>5. {i \in DOMAIN c \ {} : c[i] = u} = P \cup R /\ P \cap R = {}
  <2>1. \A i \in 1..(m + n) : (i \in 1..m /\ i <= m) \/ (i \in (m + 1)..(m + n) /\ ~(i <= m))
    BY <1>2
  <2>2. \A i \in 1..m : i \in 1..(m + n) /\ i <= m /\ i \notin (m + 1)..(m + n)
    BY <1>2
  <2>3. \A i \in (m + 1)..(m + n) : i \in 1..(m + n) /\ ~(i <= m)
    BY <1>2
  <2>4. QED
    BY <1>2, <1>3, <2>1, <2>2, <2>3
<1>6. Cardinality(R) = Cardinality(Q)
  <2> DEFINE f == [i \in Q |-> i + m]
  <2>1. f \in [Q -> R]
    BY <1>2
  <2>2. \A i, j \in Q : f[i] = f[j] => i = j
    BY <1>2
  <2>3. \A r \in R : \E i \in Q : f[i] = r
    <3>1. TAKE r \in R
    <3>2. r - m \in Q /\ (r - m) + m = r
      BY <1>2
    <3>3. f[r - m] = r
      BY <3>2
    <3>4. QED
      BY <3>2, <3>3
  <2> HIDE DEF f, Q, R
  <2>4. f \in Bijection(Q, R)
    BY <2>1, <2>2, <2>3 DEF Bijection, Injection, Surjection, IsInjective
  <2>5. ExistsBijection(Q, R)
    BY <2>4 DEF ExistsBijection
  <2>6. QED
    BY <1>4, <2>5, FS_Bijection
<1>7. Cardinality(P \cup R) = Cardinality(P) + Cardinality(R)
  <2> HIDE DEF P, R
  <2>1. Cardinality(P \cap R) = 0
    BY <1>5, FS_EmptySet
  <2>2. Cardinality(P) \in Nat /\ Cardinality(R) \in Nat
    BY <1>4, FS_CardinalityType
  <2>3. Cardinality(P \cup R) = Cardinality(P) + Cardinality(R) - Cardinality(P \cap R)
    BY <1>4, FS_Union
  <2>4. QED
    BY <2>1, <2>2, <2>3
<1>8. {i \in DOMAIN a \ {} : a[i] = u} = P /\ {i \in DOMAIN b \ {} : b[i] = u} = Q
  BY <1>2
<1> HIDE DEF P, Q, R
<1>9. QED
  BY <1>1, <1>5, <1>6, <1>7, <1>8 DEF Times

\* What is joined has as many of a symbol as its parts have together.
Counts(c, s, u) == Len(c) = Len(s) /\ \A k \in 1..Len(s) : c[k] = Times(u, s[k], {})

LEMMA TimesOfAll ==
  ASSUME NEW A, NEW s \in Seq(Seq(A)), NEW u
  PROVE  \E c \in Seq(Nat) : Counts(c, s, u) /\ Times(u, FlattenSeq(s), {}) = Total(c)
<1>0. PICK c : c = [k \in DOMAIN s |-> Times(u, s[k], {})]
  OBVIOUS
<1>1. DOMAIN s = 1..Len(s) /\ Len(s) \in Nat
  BY LenProperties
<1>2. \A k \in 1..Len(s) : s[k] \in Seq(A) /\ Times(u, s[k], {}) \in Nat
  BY <1>1, TimesIsNat
<1>3. c \in Seq(Nat) /\ Len(c) = Len(s) /\ Counts(c, s, u)
  <2>1. PICK n \in Nat : n = Len(s)
    BY <1>1
  <2>2. c \in [1..n -> Nat]
    BY <1>0, <1>1, <1>2, <2>1
  <2>3. c \in Seq(Nat) /\ Len(c) = n
    BY <2>2
  <2>4. QED
    BY <1>0, <1>1, <2>1, <2>3 DEF Counts
<1>4. PICK f \in [0..Len(s) -> Nat] : Sums(f, c, Len(s)) /\ Total(c) = f[Len(s)]
  BY <1>3, TotalIs
<1> DEFINE F(m) == FlattenSeq(SubSeq(s, 1, m))
           T == {m \in 0..Len(s) : Times(u, F(m), {}) = f[m]}
<1>5. 0 \in T
  <2>1. F(0) = <<>>
    BY FlattenAll, FlattenEmpty
  <2>2. f[0] = 0
    BY <1>4 DEF Sums
  <2>3. QED
    BY <1>1, <2>1, <2>2, TimesOfNone
<1>6. ASSUME NEW m \in 1..Len(s), m - 1 \in T PROVE m \in T
  <2>1. F(m) = F(m - 1) \o s[m] /\ F(m - 1) \in Seq(A) /\ s[m] \in Seq(A)
    BY FlattenFirst
  <2>2. f[m] = f[m - 1] + c[m] /\ c[m] = Times(u, s[m], {}) /\ Times(u, F(m - 1), {}) = f[m - 1]
    BY <1>1, <1>3, <1>4, <1>6 DEF Sums, Counts
  <2>3. PICK a, b : a = F(m - 1) /\ b = s[m]
    OBVIOUS
  <2>4. F(m) = a \o b /\ a \in Seq(A) /\ b \in Seq(A) /\ Times(u, a, {}) = f[m - 1] /\ Times(u, b, {}) = c[m]
    BY <2>1, <2>2, <2>3
  <2> HIDE DEF F
  <2>5. Times(u, F(m), {}) = f[m]
    BY <2>2, <2>4, TimesOfBoth
  <2>6. QED
    BY <1>1, <2>5
<1> HIDE DEF T
<1>7. Len(s) \in T
  <2>1. 0..Len(s) \subseteq T
    BY <1>1, <1>5, <1>6, CountUp
  <2>2. QED
    BY <1>1, <2>1
<1>8. QED
  BY <1>3, <1>4, <1>7, FlattenAll DEF T

-----------------------------------------------------------------------------
(* The walk over a value: what is left of its keys and its texts. *)

\* All that is ever stored is made of these.
Alphabet == Symbols \cup Markers \cup {Mark, Ellipsis}

\* t is what may be left of the text x.
LeftOf(t, x) ==
  /\ t \in Seq(Alphabet)
  /\ \A u \in Given : /\ May(u, x) \in Nat /\ Must(u, x) \in Nat
                      /\ Must(u, x) <= Times(u, t, {}) /\ Times(u, t, {}) <= May(u, x)

LEMMA CleanIsLeft ==
  ASSUME NEW text \in Seq(Symbols), NEW context
  PROVE  LeftOf(Clean(text, context), [text |-> text, context |-> context])
<1>1. PICK x, left : x = [text |-> text, context |-> context] /\ left = Clean(text, context)
  OBVIOUS
<1>2. /\ left \in Seq(Symbols \cup Markers)
      /\ \A u \in Symbols \ Markers :
           /\ Times(u, left, {}) <= Times(u, text, Found(x, Secrets(x)))
           /\ Times(u, left, {}) >= Times(u, text, Found(x, Matches(text, context)))
  BY <1>1, NoPartOfASecretIsLeft
<1>3. left \in Seq(Alphabet)
  BY <1>2 DEF Alphabet
<1>4. ASSUME NEW u \in Given
      PROVE  /\ May(u, x) \in Nat /\ Must(u, x) \in Nat
             /\ Must(u, x) <= Times(u, left, {}) /\ Times(u, left, {}) <= May(u, x)
  <2>1. u \in Symbols \ Markers
    BY DEF Given
  <2>2. x.text = text /\ x.context = context
    BY <1>1
  <2>3. May(u, x) \in Nat /\ Must(u, x) \in Nat /\ Times(u, left, {}) \in Nat
    BY <1>3, <2>2, TimesIsNat DEF May, Must
  <2>4. QED
    BY <1>2, <2>1, <2>2, <2>3 DEF May, Must
<1>5. QED
  BY <1>1, <1>3, <1>4 DEF LeftOf

LEMMA NumberedIs ==
  ASSUME NEW name \in Seq(Alphabet), NEW n \in Nat \ {0}
  PROVE  /\ Numbered(name, n) \in Seq(Alphabet)
         /\ Len(Numbered(name, n)) = Len(name) + (n - 1)
         /\ \A u \in Given : Times(u, Numbered(name, n), {}) = Times(u, name, {})
<1>1. PICK marks : marks = [i \in 1..(n - 1) |-> Mark]
  OBVIOUS
<1>2. marks \in Seq(Alphabet) /\ Len(marks) = n - 1 /\ DOMAIN marks = 1..(n - 1)
  BY <1>1 DEF Alphabet
<1>3. Numbered(name, n) = name \o marks
  BY <1>1 DEF Numbered
<1>4. ASSUME NEW u \in Given PROVE Times(u, marks, {}) = 0
  <2>1. u # Mark
    BY DEF Given
  <2>2. {i \in DOMAIN marks \ {} : marks[i] = u} = {}
    BY <1>1, <2>1
  <2>3. QED
    BY <2>2, FS_EmptySet DEF Times
<1>5. ASSUME NEW u \in Given PROVE Times(u, name \o marks, {}) = Times(u, name, {})
  <2>1. Times(u, name, {}) \in Nat
    BY TimesIsNat
  <2>2. QED
    BY <1>2, <1>4, <2>1, TimesOfBoth
<1>6. name \o marks \in Seq(Alphabet) /\ Len(name \o marks) = Len(name) + (n - 1)
  BY <1>2, ConcatProperties
<1>7. QED
  BY <1>3, <1>5, <1>6

\* There are enough numbers, and the first that is free is one that no other has.
LEMMA FreeNameIs ==
  ASSUME NEW name \in Seq(Alphabet), NEW taken, IsFiniteSet(taken)
  PROVE  /\ FreeName(name, taken) \notin taken
         /\ \E n \in Nat \ {0} : FreeName(name, taken) = Numbered(name, n)
<1>1. PICK c \in Nat : c = Cardinality(taken)
  BY FS_CardinalityType
<1> DEFINE Free == {n \in 1..(c + 1) : Numbered(name, n) \notin taken}
<1>2. Free # {}
  <2>1. SUFFICES ASSUME \A n \in 1..(c + 1) : Numbered(name, n) \in taken PROVE FALSE
    OBVIOUS
  <2>2. PICK f : f = [n \in 1..(c + 1) |-> Numbered(name, n)]
    OBVIOUS
  <2>3. f \in [1..(c + 1) -> taken]
    BY <2>1, <2>2
  <2>4. IsFiniteSet(1..(c + 1)) /\ Cardinality(1..(c + 1)) = c + 1
    BY FS_Interval
  <2>5. PICK i, j \in 1..(c + 1) : i # j /\ f[i] = f[j]
    <3>1. Cardinality(1..(c + 1)) > Cardinality(taken)
      BY <1>1, <2>4
    <3>2. QED
      BY <2>3, <2>4, <3>1, FS_PigeonHole
  <2>6. Numbered(name, i) = Numbered(name, j)
    BY <2>2, <2>5
  <2>7. Len(name) + (i - 1) = Len(name) + (j - 1) /\ Len(name) \in Nat
    <3>1. i \in Nat \ {0} /\ j \in Nat \ {0}
      OBVIOUS
    <3>2. Len(Numbered(name, i)) = Len(name) + (i - 1) /\ Len(Numbered(name, j)) = Len(name) + (j - 1)
      BY <3>1, NumberedIs
    <3>3. QED
      BY <2>6, <3>2, LenProperties
  <2>8. QED
    BY <2>5, <2>7
<1>3. PICK n \in Free : \A m \in Free : n <= m
  <2>1. Free \subseteq Nat
    OBVIOUS
  <2>2. QED
    BY <1>2, <2>1, LeastElement
<1>4. n \in 1..(c + 1) /\ Numbered(name, n) \notin taken /\ \A m \in 1..(n - 1) : Numbered(name, m) \in taken
  <2>1. n \in 1..(c + 1) /\ Numbered(name, n) \notin taken
    OBVIOUS
  <2>2. \A m \in 1..(n - 1) : m \in 1..(c + 1) /\ ~(n <= m)
    BY <2>1
  <2>3. QED
    BY <1>3, <2>1, <2>2
<1>5. PICK k : k = CHOOSE m \in 1..(Cardinality(taken) + 1) :
                     /\ Numbered(name, m) \notin taken
                     /\ \A j \in 1..(m - 1) : Numbered(name, j) \in taken
  OBVIOUS
<1>6. k \in 1..(c + 1) /\ Numbered(name, k) \notin taken
  BY <1>1, <1>4, <1>5
<1>7. FreeName(name, taken) = Numbered(name, k)
  BY <1>5, Zenon DEF FreeName
<1>8. k \in Nat \ {0}
  BY <1>6
<1>9. QED
  BY <1>6, <1>7, <1>8, Zenon

\* What a value's nodes are.
LEMMA NodesAre ==
  ASSUME NEW value, IsValue(value)
  PROVE  /\ Len(value) \in Nat \ {0} /\ DOMAIN value = 1..Len(value)
         /\ \A n \in 1..Len(value) :
              /\ value[n].key \in Seq(Symbols) /\ value[n].text \in Seq(Symbols)
              /\ value[n].parent \in Nat /\ value[n].parent < n /\ (value[n].parent = 0 <=> n = 1)
              /\ value[n].kind \in {"string", "array", "object", "scalar", "raw"}
              /\ ~IsMember(value, n) => value[n].key = <<>>
              /\ value[n] = [kind |-> value[n].kind, parent |-> value[n].parent,
                             key |-> value[n].key, text |-> value[n].text]
<1>1. value \in Seq(Nodes) /\ value # <<>>
  BY DEF IsValue
<1>2. Len(value) \in Nat \ {0} /\ DOMAIN value = 1..Len(value)
  BY <1>1, LenProperties, EmptySeq
<1>3. ASSUME NEW n \in 1..Len(value)
      PROVE  /\ value[n].key \in Seq(Symbols) /\ value[n].text \in Seq(Symbols)
             /\ value[n].parent \in Nat
             /\ value[n].kind \in {"string", "array", "object", "scalar", "raw"}
             /\ value[n] = [kind |-> value[n].kind, parent |-> value[n].parent,
                            key |-> value[n].key, text |-> value[n].text]
  <2>1. PICK node \in Nodes : node = value[n]
    BY <1>1, <1>2
  <2>2. QED
    BY <2>1 DEF Nodes
<1>4. \A n \in 1..Len(value) : /\ value[n].parent < n /\ (value[n].parent = 0 <=> n = 1)
                               /\ ~IsMember(value, n) => value[n].key = <<>>
  BY <1>2 DEF IsValue
<1>5. QED
  BY <1>2, <1>3, <1>4

LEMMA TakenIsFinite ==
  ASSUME NEW value, IsValue(value), NEW n, NEW walked
  PROVE  IsFiniteSet(Taken(value, n, walked))
<1>1. PICK f : f = [m \in Siblings(value, n) |-> IF m < n THEN walked[m].key ELSE value[m].key]
  OBVIOUS
<1>2. f \in Surjection(Siblings(value, n), Taken(value, n, walked))
  BY <1>1 DEF Surjection, Taken
<1>3. IsFiniteSet(Siblings(value, n))
  <2>1. IsFiniteSet(DOMAIN value)
    BY NodesAre, FS_Interval
  <2>2. Siblings(value, n) \subseteq DOMAIN value
    BY DEF Siblings
  <2>3. QED
    BY <2>1, <2>2, FS_Subset
<1>4. QED
  BY <1>2, <1>3, FS_Surjection DEF ExistsSurjection

\* A key's new name is what may be left of it, and no other key has it.
LEMMA NewNameIs ==
  ASSUME NEW value, IsValue(value), NEW n \in 1..Len(value), NEW walked
  PROVE  /\ LeftOf(NewName(value, n, walked),
                   [text |-> value[n].key, context |-> KeyContext(value, n, walked)])
         /\ \/ NewName(value, n, walked) = value[n].key
            \/ NewName(value, n, walked) \notin Taken(value, n, walked)
<1>1. PICK key, context, x, name, new, taken :
        /\ key = value[n].key /\ context = KeyContext(value, n, walked)
        /\ x = [text |-> key, context |-> context] /\ name = Clean(key, context)
        /\ taken = Taken(value, n, walked) /\ new = NewName(value, n, walked)
  OBVIOUS
<1>2. key \in Seq(Symbols) /\ IsFiniteSet(taken)
  BY <1>1, NodesAre, TakenIsFinite
<1>3. LeftOf(name, x)
  BY <1>1, <1>2, CleanIsLeft
<1>4. new = IF name = key THEN name ELSE FreeName(name, taken)
  BY <1>1 DEF NewName
<1>5. CASE name = key
  BY <1>1, <1>3, <1>4, <1>5
<1>6. CASE name # key
  <2>1. name \in Seq(Alphabet)
    BY <1>3 DEF LeftOf
  <2>2. new \notin taken
    BY <1>2, <1>4, <1>6, <2>1, FreeNameIs
  <2>3. PICK k \in Nat \ {0} : new = Numbered(name, k)
    BY <1>2, <1>4, <1>6, <2>1, FreeNameIs
  <2>4. new \in Seq(Alphabet) /\ \A u \in Given : Times(u, new, {}) = Times(u, name, {})
    BY <2>1, <2>3, NumberedIs
  <2>5. LeftOf(new, x)
    BY <1>3, <2>4 DEF LeftOf
  <2>6. QED
    BY <1>1, <2>2, <2>5
<1>7. QED
  BY <1>5, <1>6

\* Only what comes before a node decides on its name.
LEMMA NameIsOfBefore ==
  ASSUME NEW value, IsValue(value), NEW n \in 1..Len(value), NEW v, NEW w,
         \A k \in 1..(n - 1) : v[k] = w[k]
  PROVE  /\ KeyContext(value, n, v) = KeyContext(value, n, w)
         /\ NewName(value, n, v) = NewName(value, n, w)
<1>1. /\ DOMAIN value = 1..Len(value) /\ Len(value) \in Nat
      /\ value[n].parent \in Nat /\ value[n].parent < n
  BY NodesAre
<1>2. KeyContext(value, n, v) = KeyContext(value, n, w)
  <2>1. PICK p : p = value[n].parent
    OBVIOUS
  <2>2. p = 0 \/ p \in 1..(n - 1)
    BY <1>1, <2>1
  <2>3. p # 0 => v[p] = w[p]
    BY <2>2
  <2>4. QED
    BY <2>1, <2>3 DEF KeyContext
<1>3. Taken(value, n, v) = Taken(value, n, w)
  <2>1. \A m \in Siblings(value, n) : m < n => m \in 1..(n - 1)
    BY <1>1 DEF Siblings
  <2>2. \A m \in Siblings(value, n) :
          (IF m < n THEN v[m].key ELSE value[m].key) = (IF m < n THEN w[m].key ELSE value[m].key)
    BY <2>1
  <2>3. QED
    BY <2>2, Zenon DEF Taken
<1>4. QED
  BY <1>2, <1>3 DEF NewName

WalkedNodes ==
  [kind : {"string", "array", "object", "scalar", "raw"}, parent : Nat,
   key : Seq(Alphabet), text : Seq(Alphabet)]

\* w is what the walk has made of the first n nodes.
IsWalk(value, w, n) ==
  /\ w \in Seq(WalkedNodes) /\ Len(w) = n
  /\ \A k \in 1..n : w[k] = Redact(value, k, NewName(value, k, w))

LEMMA RedactIs ==
  ASSUME NEW value, IsValue(value), NEW n \in 1..Len(value), NEW name \in Seq(Alphabet)
  PROVE  /\ Redact(value, n, name) \in WalkedNodes
         /\ Redact(value, n, name).kind = value[n].kind
         /\ Redact(value, n, name).parent = value[n].parent
         /\ Redact(value, n, name).key = name
         /\ Redact(value, n, name).text = Clean(value[n].text, Context(value, n, name))
<1>1. PICK kind, parent, key, text, left :
        /\ kind = value[n].kind /\ parent = value[n].parent /\ key = value[n].key
        /\ text = value[n].text /\ left = Clean(text, Context(value, n, name))
  OBVIOUS
<1>2. /\ value[n] = [kind |-> kind, parent |-> parent, key |-> key, text |-> text]
      /\ kind \in {"string", "array", "object", "scalar", "raw"} /\ parent \in Nat
      /\ text \in Seq(Symbols)
  BY <1>1, NodesAre
<1>3. left \in Seq(Alphabet)
  BY <1>1, <1>2, CleanIsLeft DEF LeftOf
<1>4. Redact(value, n, name) = [kind |-> kind, parent |-> parent, key |-> name, text |-> left]
  <2>1. PICK node : node = [kind |-> kind, parent |-> parent, key |-> key, text |-> text]
    OBVIOUS
  <2>2. value[n] = node /\ node.text = text
    BY <1>2, <2>1
  <2>3. Redact(value, n, name) = [node EXCEPT !.key = name, !.text = Clean(node.text, Context(value, n, name))]
    BY <2>2 DEF Redact
  <2>4. Redact(value, n, name) = [node EXCEPT !.key = name, !.text = left]
    BY <1>1, <2>2, <2>3
  <2>5. QED
    BY <2>1, <2>4
<1>5. QED
  BY <1>1, <1>2, <1>3, <1>4 DEF WalkedNodes

LEMMA WithNodeIs ==
  ASSUME NEW value, IsValue(value), NEW n \in 1..Len(value), NEW w \in Seq(WalkedNodes)
  PROVE  /\ WithNode(value, n, w) \in Seq(WalkedNodes)
         /\ IsWalk(value, w, n - 1) => IsWalk(value, WithNode(value, n, w), n)
<1>1. PICK node, v : node = Redact(value, n, NewName(value, n, w)) /\ v = WithNode(value, n, w)
  OBVIOUS
<1>2. NewName(value, n, w) \in Seq(Alphabet)
  BY NewNameIs DEF LeftOf
<1>3. node \in WalkedNodes
  BY <1>1, <1>2, RedactIs
<1>4. v = Append(w, node)
  BY <1>1 DEF WithNode
<1>5. v \in Seq(WalkedNodes)
  BY <1>3, <1>4
<1>6. ASSUME IsWalk(value, w, n - 1) PROVE IsWalk(value, v, n)
  <2>1. Len(w) = n - 1 /\ n \in Nat
    BY <1>6, NodesAre DEF IsWalk
  <2>2. Len(v) = n /\ v[n] = node /\ \A k \in 1..(n - 1) : v[k] = w[k]
    BY <1>3, <1>4, <2>1, AppendProperties
  <2>3. ASSUME NEW k \in 1..n PROVE v[k] = Redact(value, k, NewName(value, k, v))
    <3>1. k \in 1..Len(value) /\ \A j \in 1..(k - 1) : j \in 1..(n - 1)
      BY <2>1, NodesAre
    <3>2. NewName(value, k, v) = NewName(value, k, w)
      BY <2>2, <3>1, NameIsOfBefore
    <3>3. CASE k = n
      BY <1>1, <2>2, <3>2, <3>3
    <3>4. CASE k # n
      <4>1. k \in 1..(n - 1)
        BY <2>1, <3>4
      <4>2. v[k] = w[k] /\ w[k] = Redact(value, k, NewName(value, k, w))
        BY <1>6, <2>2, <4>1 DEF IsWalk
      <4>3. QED
        BY <3>2, <4>2
    <3>5. QED
      BY <3>3, <3>4
  <2>4. QED
    BY <1>5, <2>2, <2>3 DEF IsWalk
<1>7. QED
  BY <1>1, <1>5, <1>6

LEMMA WalkIs ==
  ASSUME NEW value, IsValue(value)
  PROVE  IsWalk(value, Walk(value), Len(value))
<1> DEFINE n == Len(value)
           V == Seq(WalkedNodes)
           G == [i \in 1..n |-> [w \in V |-> WithNode(value, i, w)]]
           walked == CHOOSE f : f = [i \in 0..n |-> IF i = 0 THEN <<>> ELSE WithNode(value, i, f[i - 1])]
<1>1. Walk(value) = walked[n]
  BY Zenon DEF Walk
<1>2. n \in Nat
  BY NodesAre
<1>3. \A i \in 1..n : \A w \in V : WithNode(value, i, w) \in V
  BY WithNodeIs
<1> HIDE DEF n, V
<1>4. PICK g : g = G
  OBVIOUS
<1>5. g \in [1..n -> [V -> V]] /\ <<>> \in V
  BY <1>3, <1>4 DEF V
<1>6. PICK f \in [0..n -> V] : Recurs(f, <<>>, g, n)
  BY <1>2, <1>5, Recursion
<1>7. \A i \in 1..n : f[i] = WithNode(value, i, f[i - 1])
  <2>1. TAKE i \in 1..n
  <2>2. i - 1 \in 0..n
    BY <1>2
  <2>3. PICK y \in V : y = f[i - 1]
    BY <2>2
  <2>4. g[i][y] = WithNode(value, i, y) /\ f[i] = g[i][y]
    BY <1>4, <1>6, <2>3 DEF Recurs
  <2>5. QED
    BY <2>3, <2>4
<1>8. f = [i \in 0..n |-> IF i = 0 THEN <<>> ELSE WithNode(value, i, f[i - 1])]
  <2>1. \A i \in 0..n : i = 0 \/ i \in 1..n
    BY <1>2
  <2>2. \A i \in 0..n : f[i] = IF i = 0 THEN <<>> ELSE WithNode(value, i, f[i - 1])
    BY <1>6, <1>7, <2>1 DEF Recurs
  <2>3. QED
    BY <2>2
<1>9. walked = [i \in 0..n |-> IF i = 0 THEN <<>> ELSE WithNode(value, i, walked[i - 1])]
  BY <1>8, Zenon
<1> HIDE DEF walked
<1> DEFINE T == {m \in 0..n : IsWalk(value, walked[m], m)}
<1>10. 0 \in T
  <2>1. 0 \in 0..n
    BY <1>2
  <2>2. walked[0] = <<>>
    BY <1>9, <2>1
  <2>3. IsWalk(value, <<>>, 0)
    <3>1. <<>> \in Seq(WalkedNodes) /\ Len(<<>>) = 0 /\ 1..0 = {}
      OBVIOUS
    <3>2. QED
      BY <3>1 DEF IsWalk
  <2>4. QED
    BY <2>1, <2>2, <2>3
<1>11. ASSUME NEW m \in 1..n, m - 1 \in T PROVE m \in T
  <2>1. m \in 0..n /\ m # 0 /\ m \in 1..Len(value)
    BY <1>2 DEF n
  <2>2. walked[m] = WithNode(value, m, walked[m - 1])
    BY <1>9, <2>1
  <2>3. IsWalk(value, walked[m - 1], m - 1)
    BY <1>11
  <2>4. walked[m - 1] \in Seq(WalkedNodes)
    BY <2>3 DEF IsWalk
  <2>5. IsWalk(value, WithNode(value, m, walked[m - 1]), m)
    BY <2>1, <2>3, <2>4, WithNodeIs
  <2>6. QED
    BY <2>1, <2>2, <2>5
<1> HIDE DEF T
<1>12. n \in T
  <2>1. 0..n \subseteq T
    BY <1>2, <1>10, <1>11, CountUp
  <2>2. QED
    BY <1>2, <2>1
<1>13. IsWalk(value, walked[n], n)
  BY <1>12 DEF T
<1>14. QED
  BY <1>1, <1>13 DEF n

\* What a walk leaves of each node.
LEMMA WalkLeaves ==
  ASSUME NEW value, IsValue(value), NEW w, IsWalk(value, w, Len(value)), NEW n \in 1..Len(value)
  PROVE  /\ w[n].kind = value[n].kind /\ w[n].parent = value[n].parent
         /\ w[n].key = value[n].key \/ w[n].key \notin Taken(value, n, w)
         /\ LeftOf(w[n].key, Texts(value, w)[n].key)
         /\ LeftOf(w[n].text, Texts(value, w)[n].text)
<1>1. PICK name, node, texts :
        /\ name = NewName(value, n, w) /\ node = Redact(value, n, name) /\ texts = Texts(value, w)
  OBVIOUS
<1>2. w[n] = node
  BY <1>1 DEF IsWalk
<1>3. /\ LeftOf(name, [text |-> value[n].key, context |-> KeyContext(value, n, w)])
      /\ name = value[n].key \/ name \notin Taken(value, n, w)
  BY <1>1, NewNameIs
<1>4. name \in Seq(Alphabet)
  BY <1>3 DEF LeftOf
<1>5. /\ node.kind = value[n].kind /\ node.parent = value[n].parent /\ node.key = name
      /\ node.text = Clean(value[n].text, Context(value, n, name))
  BY <1>1, <1>4, RedactIs
<1>6. /\ texts[n].key = [text |-> value[n].key, context |-> KeyContext(value, n, w)]
      /\ texts[n].text = [text |-> value[n].text, context |-> Context(value, n, w[n].key)]
  <2>1. n \in DOMAIN value
    BY NodesAre
  <2>2. QED
    BY <1>1, <2>1 DEF Texts
<1>7. value[n].text \in Seq(Symbols)
  BY NodesAre
<1>8. LeftOf(node.text, texts[n].text)
  BY <1>2, <1>5, <1>6, <1>7, CleanIsLeft
<1>9. QED
  BY <1>1, <1>2, <1>3, <1>5, <1>6, <1>8

LEMMA NamesStayApart ==
  ASSUME NEW value, IsValue(value), NEW w, IsWalk(value, w, Len(value))
  PROVE  NamesApart(w)
<1> DEFINE N == Len(value)
           NameAt(k, i) == IF i <= k THEN w[i].key ELSE value[i].key
           Apart(k) == \A i, j \in 1..N :
                         /\ IsMember(value, j) /\ value[i].parent = value[j].parent
                         /\ NameAt(k, i) = NameAt(k, j)
                         => i = j
           T == {k \in 0..N : Apart(k)}
<1>1. /\ N \in Nat /\ DOMAIN value = 1..N /\ w \in Seq(WalkedNodes) /\ DOMAIN w = 1..N
      /\ \A i \in 1..N : value[i].parent \in Nat /\ value[i].parent < i
  BY NodesAre, LenProperties DEF IsWalk
<1> HIDE DEF N
<1>2. \A i \in 1..N : /\ w[i].kind = value[i].kind /\ w[i].parent = value[i].parent
                      /\ w[i].key = value[i].key \/ w[i].key \notin Taken(value, i, w)
  BY WalkLeaves DEF N
<1>3. 0 \in T
  <2>1. \A i \in 1..N : NameAt(0, i) = value[i].key
    BY <1>1
  <2> HIDE DEF NameAt
  <2>2. Apart(0)
    BY <1>1, <2>1, SMTT(30) DEF IsValue
  <2>3. QED
    BY <1>1, <2>2
<1>4. ASSUME NEW k \in 1..N, k - 1 \in T PROVE k \in T
  <2>1. Apart(k - 1)
    BY <1>4
  <2>2. ASSUME NEW i \in 1..N PROVE NameAt(k, i) = IF i = k THEN w[k].key ELSE NameAt(k - 1, i)
    BY <1>1
  <2>3. \A i \in 1..N : i # k => NameAt(k - 1, i) = IF i < k THEN w[i].key ELSE value[i].key
    BY <1>1
  <2>4. NameAt(k - 1, k) = value[k].key
    BY <1>1
  <2>5. ASSUME NEW i \in 1..N, i # k, value[i].parent = value[k].parent,
               IsMember(value, i) \/ IsMember(value, k)
        PROVE  NameAt(k, i) # NameAt(k, k)
    <3>1. IsMember(value, i) /\ IsMember(value, k)
      BY <2>5 DEF IsMember
    <3>2. NameAt(k, i) = NameAt(k - 1, i) /\ NameAt(k, k) = w[k].key
      BY <2>2, <2>5
    <3>3. NameAt(k - 1, i) \in Taken(value, k, w)
      <4>1. i \in Siblings(value, k)
        BY <1>1, <2>5 DEF Siblings
      <4>2. QED
        BY <2>3, <2>5, <4>1 DEF Taken
    <3> HIDE DEF NameAt
    <3>4. CASE w[k].key \notin Taken(value, k, w)
      BY <3>2, <3>3, <3>4
    <3>5. CASE w[k].key = value[k].key
      <4>1. NameAt(k - 1, i) # NameAt(k - 1, k)
        BY <2>1, <2>5, <3>1
      <4>2. QED
        BY <2>4, <3>2, <3>5, <4>1
    <3>6. QED
      BY <1>2, <3>4, <3>5
  <2> HIDE DEF NameAt
  <2>6. ASSUME NEW i \in 1..N, NEW j \in 1..N, IsMember(value, j), value[i].parent = value[j].parent,
               NameAt(k, i) = NameAt(k, j)
        PROVE  i = j
    <3>1. CASE i # k /\ j # k
      <4>1. NameAt(k - 1, i) = NameAt(k - 1, j)
        BY <2>2, <2>6, <3>1
      <4>2. QED
        BY <2>1, <2>6, <4>1
    <3>2. CASE i = k
      BY <2>5, <2>6, <3>2
    <3>3. CASE j = k
      BY <2>5, <2>6, <3>3
    <3>4. QED
      BY <3>1, <3>2, <3>3
  <2>7. Apart(k)
    BY <2>6
  <2>8. QED
    BY <1>1, <2>7
<1> HIDE DEF T
<1>5. N \in T
  <2>1. 0..N \subseteq T
    BY <1>1, <1>3, <1>4, CountUp
  <2>2. QED
    BY <1>1, <2>1
<1>6. Apart(N)
  BY <1>5 DEF T
<1>7. \A i \in 1..N : NameAt(N, i) = w[i].key
  BY <1>1
<1> HIDE DEF NameAt
<1>8. ASSUME NEW j \in 1..N, IsMember(w, j) PROVE IsMember(value, j)
  <2>1. PICK p : p = value[j].parent
    OBVIOUS
  <2>2. w[j].parent = p /\ p # 0 /\ w[p].kind = "object"
    BY <1>2, <1>8, <2>1 DEF IsMember
  <2>3. p \in 1..N
    BY <1>1, <2>1, <2>2
  <2>4. QED
    BY <1>2, <2>1, <2>2, <2>3 DEF IsMember
<1>9. \A i, j \in 1..N :
        IsMember(w, j) /\ w[i].parent = w[j].parent /\ w[i].key = w[j].key => i = j
  <2>1. TAKE i, j \in 1..N
  <2>2. HAVE IsMember(w, j) /\ w[i].parent = w[j].parent /\ w[i].key = w[j].key
  <2>3. IsMember(value, j) /\ value[i].parent = value[j].parent /\ NameAt(N, i) = NameAt(N, j)
    BY <1>2, <1>7, <1>8, <2>2
  <2>4. QED
    BY <1>6, <2>3
<1>10. QED
  BY <1>1, <1>9 DEF NamesApart

LEMMA ScanTextIs ==
  ASSUME NEW text \in Seq(Symbols), NEW context
  PROVE  ScanText(text, context) \in Seq(HitRecords)
<1>1. PICK hits : hits = Hits(text, context)
  OBVIOUS
<1>2. /\ hits \in Seq(HitRecords)
      /\ \A j, k \in DOMAIN hits : j <= k => hits[j].from <= hits[k].from
      /\ \A j \in DOMAIN hits : hits[j].from <= hits[j].to
  BY <1>1, HitsAre
<1>3. Groups(Merge(hits), hits, Len(hits))
  BY <1>2, MergeGroups
<1>4. QED
  BY <1>1, <1>3 DEF ScanText, Groups

LEMMA NothingInNothing ==
  ASSUME NEW context
  PROVE  Secrets([text |-> <<>>, context |-> context]) = {}
<1>1. PICK text : text = <<>>
  OBVIOUS
<1>2. text \in Seq({}) /\ DOMAIN text = {}
  BY <1>1
<1>3. \A word : Starts(text, word) = {}
  BY <1>2, StartsIn
<1>4. Matches(text, context) = {}
  BY <1>3 DEF Matches
<1>5. QED
  BY <1>1, <1>4 DEF Secrets

HasActive(hits) == \E h \in ToSet(hits) : Active(h)

LEMMA ActiveInBoth ==
  ASSUME NEW a \in Seq(HitRecords), NEW b \in Seq(HitRecords)
  PROVE  a \o b \in Seq(HitRecords) /\ (HasActive(a \o b) <=> HasActive(a) \/ HasActive(b))
<1>1. ToSet(a \o b) = ToSet(a) \cup ToSet(b)
  BY ConcatElements
<1>2. a \o b \in Seq(HitRecords)
  BY ConcatProperties
<1>3. QED
  BY <1>1, <1>2 DEF HasActive

LEMMA ActiveInAll ==
  ASSUME NEW s \in Seq(Seq(HitRecords))
  PROVE  /\ FlattenSeq(s) \in Seq(HitRecords)
         /\ HasActive(FlattenSeq(s)) <=> \E k \in DOMAIN s : HasActive(s[k])
<1>1. ToSet(FlattenSeq(s)) = UNION {ToSet(s[k]) : k \in DOMAIN s}
  BY FlattenElements
<1>2. FlattenSeq(s) \in Seq(HitRecords)
  BY FlattenAll
<1>3. QED
  BY <1>1, <1>2 DEF HasActive

LEMMA ScanTells ==
  ASSUME NEW text \in Seq(Symbols), NEW context, NEW hits, hits = ScanText(text, context),
         NEW x, x = [text |-> text, context |-> context]
  PROVE  hits \in Seq(HitRecords) /\ (HasActive(hits) <=> Secrets(x) # {})
  BY ScanTextIs, SecretsAreHits DEF HasActive

\* The hits of a value have a secret among them if one of its texts has.
LEMMA HitsTell ==
  ASSUME NEW value, IsValue(value), NEW w
  PROVE  /\ WalkedHits(value, w) \in Seq(HitRecords)
         /\ HasActive(WalkedHits(value, w)) <=> HasSecret(Texts(value, w))
<1>1. PICK N, texts : N = Len(value) /\ texts = Texts(value, w)
  OBVIOUS
<1>2. /\ N \in Nat /\ DOMAIN value = 1..N
      /\ \A n \in 1..N : /\ value[n].key \in Seq(Symbols) /\ value[n].text \in Seq(Symbols)
                         /\ value[n].parent \in Nat /\ value[n].parent < n
                         /\ (value[n].parent = 0 <=> n = 1)
                         /\ ~IsMember(value, n) => value[n].key = <<>>
  BY <1>1, NodesAre
<1>3. /\ DOMAIN texts = 1..N
      /\ \A n \in 1..N :
           /\ texts[n].key = [text |-> value[n].key, context |-> KeyContext(value, n, w)]
           /\ texts[n].text = [text |-> value[n].text, context |-> Context(value, n, w[n].key)]
  BY <1>1, <1>2 DEF Texts
<1>4. ASSUME NEW m \in 1..N
      PROVE  /\ ScanText(value[m].key, KeyContext(value, m, w)) \in Seq(HitRecords)
             /\ HasActive(ScanText(value[m].key, KeyContext(value, m, w))) <=> Secrets(texts[m].key) # {}
  <2>1. PICK text, context, hits, x : /\ text = value[m].key /\ context = KeyContext(value, m, w)
                                      /\ hits = ScanText(text, context) /\ x = texts[m].key
    OBVIOUS
  <2>2. text \in Seq(Symbols) /\ x = [text |-> text, context |-> context]
    BY <1>2, <1>3, <2>1
  <2>3. hits \in Seq(HitRecords) /\ (HasActive(hits) <=> Secrets(x) # {})
    BY <2>1, <2>2, ScanTells
  <2>4. QED
    BY <2>1, <2>3
<1>5. ASSUME NEW n \in 1..N
      PROVE  /\ ScanText(value[n].text, Context(value, n, w[n].key)) \in Seq(HitRecords)
             /\ HasActive(ScanText(value[n].text, Context(value, n, w[n].key))) <=> Secrets(texts[n].text) # {}
  <2>1. PICK text, context, hits, x : /\ text = value[n].text /\ context = Context(value, n, w[n].key)
                                      /\ hits = ScanText(text, context) /\ x = texts[n].text
    OBVIOUS
  <2>2. text \in Seq(Symbols) /\ x = [text |-> text, context |-> context]
    BY <1>2, <1>3, <2>1
  <2>3. hits \in Seq(HitRecords) /\ (HasActive(hits) <=> Secrets(x) # {})
    BY <2>1, <2>2, ScanTells
  <2>4. QED
    BY <2>1, <2>3
<1>6. ASSUME NEW n \in 1..N
      PROVE  /\ KeyHits(value, n, w) \in Seq(HitRecords)
             /\ HasActive(KeyHits(value, n, w)) <=>
                  \E m \in 1..N : value[m].parent = n /\ Secrets(texts[m].key) # {}
  <2>1. PICK s : s = [m \in 1..N |->
                        IF value[m].parent = n THEN ScanText(value[m].key, KeyContext(value, m, w))
                        ELSE <<>>]
    OBVIOUS
  <2>2. s \in Seq(Seq(HitRecords)) /\ DOMAIN s = 1..N
    <3>1. PICK V : V = Seq(HitRecords)
      OBVIOUS
    <3>2. <<>> \in V
      BY <3>1
    <3>3. \A m \in 1..N : s[m] \in V
      BY <1>4, <2>1, <3>1, <3>2
    <3>4. s \in [1..N -> V] /\ N \in Nat
      BY <1>2, <2>1, <3>3
    <3>5. s \in Seq(V)
      BY <3>4, SMTT(30)
    <3>6. QED
      BY <2>1, <3>1, <3>5
  <2>3. KeyHits(value, n, w) = FlattenSeq(s)
    BY <1>2, <2>1 DEF KeyHits
  <2>4. ~HasActive(<<>>)
    BY DEF HasActive, ToSet
  <2>5. \A m \in 1..N : HasActive(s[m]) <=> value[m].parent = n /\ Secrets(texts[m].key) # {}
    BY <1>4, <2>1, <2>4
  <2>6. QED
    BY <2>2, <2>3, <2>5, ActiveInAll
<1>7. PICK s : s = [n \in 1..N |-> ScanText(value[n].text, Context(value, n, w[n].key)) \o KeyHits(value, n, w)]
  OBVIOUS
<1>8. ASSUME NEW n \in 1..N
      PROVE  /\ s[n] \in Seq(HitRecords)
             /\ HasActive(s[n]) <=> \/ Secrets(texts[n].text) # {}
                                    \/ \E m \in 1..N : value[m].parent = n /\ Secrets(texts[m].key) # {}
  <2>1. PICK a, b : a = ScanText(value[n].text, Context(value, n, w[n].key)) /\ b = KeyHits(value, n, w)
    OBVIOUS
  <2>2. /\ a \in Seq(HitRecords) /\ (HasActive(a) <=> Secrets(texts[n].text) # {})
        /\ b \in Seq(HitRecords)
        /\ HasActive(b) <=> \E m \in 1..N : value[m].parent = n /\ Secrets(texts[m].key) # {}
    BY <1>5, <1>6, <2>1
  <2>3. s[n] = a \o b
    BY <1>7, <2>1
  <2>4. a \o b \in Seq(HitRecords) /\ (HasActive(a \o b) <=> HasActive(a) \/ HasActive(b))
    BY <2>2, ActiveInBoth
  <2>5. QED
    BY <2>2, <2>3, <2>4
<1>9. s \in Seq(Seq(HitRecords)) /\ DOMAIN s = 1..N /\ WalkedHits(value, w) = FlattenSeq(s)
  <2>1. WalkedHits(value, w) = FlattenSeq(s) /\ DOMAIN s = 1..N
    BY <1>2, <1>7 DEF WalkedHits
  <2>2. PICK V : V = Seq(HitRecords)
    OBVIOUS
  <2>3. \A n \in 1..N : s[n] \in V
    BY <1>8, <2>2
  <2>4. s \in [1..N -> V]
    BY <1>7, <2>3
  <2>5. s \in Seq(V)
    BY <1>2, <2>4
  <2>6. QED
    BY <2>1, <2>2, <2>5
<1>10. /\ WalkedHits(value, w) \in Seq(HitRecords)
       /\ HasActive(WalkedHits(value, w)) <=> \E n \in 1..N : HasActive(s[n])
  BY <1>9, ActiveInAll
<1>11. ASSUME NEW m \in 1..N, Secrets(texts[m].key) # {}
       PROVE  \E n \in 1..N : value[m].parent = n
  <2>1. m # 1
    <3>1. SUFFICES ASSUME m = 1 PROVE FALSE
      OBVIOUS
    <3>2. value[m].parent = 0
      BY <1>2, <3>1
    <3>3. value[m].key = <<>>
      BY <1>2, <3>2 DEF IsMember
    <3>4. QED
      BY <1>3, <1>11, <3>3, NothingInNothing
  <2>2. value[m].parent \in 1..N
    BY <1>2, <2>1
  <2>3. QED
    BY <2>2
<1>12. HasSecret(texts) <=>
         \/ \E n \in 1..N : Secrets(texts[n].text) # {}
         \/ \E m \in 1..N : Secrets(texts[m].key) # {}
  BY <1>3, Zenon DEF HasSecret
<1>13. (\E n \in 1..N : HasActive(s[n])) <=> HasSecret(texts)
  BY <1>8, <1>11, <1>12, Zenon
<1>14. QED
  BY <1>1, <1>10, <1>13


-----------------------------------------------------------------------------
(* How much of what is left is stored. *)

\* w is what is left of some texts, node by node.
Leaves(w, texts, n) ==
  /\ n \in Nat /\ w \in Seq(WalkedNodes) /\ Len(w) = n /\ DOMAIN texts = 1..n
  /\ \A k \in 1..n : LeftOf(w[k].key, texts[k].key) /\ LeftOf(w[k].text, texts[k].text)

LEMMA WalkLeavesTexts ==
  ASSUME NEW value, IsValue(value), NEW w, w = Walk(value)
  PROVE  Leaves(w, Texts(value, w), Len(value))
<1>1. PICK n, texts : n = Len(value) /\ texts = Texts(value, w)
  OBVIOUS
<1>2. IsWalk(value, w, n)
  BY <1>1, WalkIs
<1>3. n \in Nat /\ DOMAIN value = 1..n
  BY <1>1, NodesAre
<1>4. DOMAIN texts = 1..n
  BY <1>1, <1>3 DEF Texts
<1>5. \A k \in 1..n : LeftOf(w[k].key, texts[k].key) /\ LeftOf(w[k].text, texts[k].text)
  BY <1>1, <1>2, WalkLeaves
<1>6. w \in Seq(WalkedNodes) /\ Len(w) = n
  BY <1>2 DEF IsWalk
<1>7. QED
  BY <1>1, <1>3, <1>4, <1>5, <1>6 DEF Leaves

LEMMA NothingLeavesNothing == Leaves(<<>>, <<>>, 0)
<1>1. <<>> \in Seq(WalkedNodes) /\ Len(<<>>) = 0 /\ 1..0 = {} /\ DOMAIN <<>> = {}
  OBVIOUS
<1>2. QED
  BY <1>1 DEF Leaves

LEMMA LeavesAre ==
  ASSUME NEW w, NEW texts, NEW n, Leaves(w, texts, n)
  PROVE  /\ DOMAIN w = 1..n
         /\ \A k \in 1..n :
              /\ w[k].key \in Seq(Alphabet) /\ w[k].text \in Seq(Alphabet)
              /\ \A u \in Given :
                   /\ May(u, texts[k].key) \in Nat /\ May(u, texts[k].text) \in Nat
                   /\ Must(u, texts[k].key) \in Nat /\ Must(u, texts[k].text) \in Nat
                   /\ Times(u, w[k].key, {}) \in Nat /\ Times(u, w[k].text, {}) \in Nat
                   /\ Must(u, texts[k].key) <= Times(u, w[k].key, {})
                   /\ Times(u, w[k].key, {}) <= May(u, texts[k].key)
                   /\ Must(u, texts[k].text) <= Times(u, w[k].text, {})
                   /\ Times(u, w[k].text, {}) <= May(u, texts[k].text)
<1>1. DOMAIN w = 1..n
  BY LenProperties DEF Leaves
<1>2. \A t, x : LeftOf(t, x) => /\ t \in Seq(Alphabet)
                                /\ \A u \in Given : /\ May(u, x) \in Nat /\ Must(u, x) \in Nat
                                                    /\ Times(u, t, {}) \in Nat
                                                    /\ Must(u, x) <= Times(u, t, {})
                                                    /\ Times(u, t, {}) <= May(u, x)
  BY TimesIsNat DEF LeftOf
<1>3. \A k \in 1..n : LeftOf(w[k].key, texts[k].key) /\ LeftOf(w[k].text, texts[k].text)
  BY DEF Leaves
<1>4. QED
  BY <1>1, <1>2, <1>3

LEMMA AllowedIs ==
  ASSUME NEW w, NEW texts, NEW n, Leaves(w, texts, n), NEW u \in Given,
         NEW d, d = [k \in DOMAIN texts |-> May(u, texts[k].key) + May(u, texts[k].text)]
  PROVE  /\ d \in Seq(Nat) /\ Len(d) = n
         /\ Allowed(u, texts) = Total(d) /\ Allowed(u, texts) \in Nat
<1>1. n \in Nat /\ DOMAIN texts = 1..n
  BY DEF Leaves
<1>2. ASSUME NEW k \in 1..n PROVE d[k] \in Nat
  <2>1. PICK e, f : e = May(u, texts[k].key) /\ f = May(u, texts[k].text)
    OBVIOUS
  <2>2. e \in Nat /\ f \in Nat
    BY <2>1, LeavesAre
  <2>3. d[k] = e + f
    BY <1>1, <2>1
  <2>4. QED
    BY <2>2, <2>3
<1>3. d \in Seq(Nat) /\ Len(d) = n
  <2>1. d \in [1..n -> Nat]
    BY <1>1, <1>2
  <2>2. QED
    BY <1>1, <2>1
<1>4. Allowed(u, texts) = Total(d)
  BY DEF Allowed
<1>5. \A k \in 1..Len(d) : d[k] <= d[k]
  BY <1>2, <1>3
<1>6. Total(d) \in Nat
  BY <1>3, <1>5, TotalGrows
<1>7. QED
  BY <1>3, <1>4, <1>6

\* What is written of each node has no more of a symbol than what is left of it,
\* all of it no more than is allowed.
LEMMA PartsAreAllowed ==
  ASSUME NEW w, NEW texts, NEW n, Leaves(w, texts, n), NEW u \in Given,
         NEW parts \in Seq(Seq(Alphabet)), DOMAIN parts = 1..n,
         \A k \in 1..n :
           Times(u, parts[k], {}) <= Times(u, w[k].key, {}) + Times(u, w[k].text, {})
  PROVE  Times(u, FlattenSeq(parts), {}) <= Allowed(u, texts)
<1>1. PICK d : d = [k \in DOMAIN texts |-> May(u, texts[k].key) + May(u, texts[k].text)]
  OBVIOUS
<1>2. PICK c \in Seq(Nat) : Counts(c, parts, u) /\ Times(u, FlattenSeq(parts), {}) = Total(c)
  BY TimesOfAll
<1>3. n \in Nat /\ DOMAIN texts = 1..n /\ Len(parts) = n
  BY LenProperties DEF Leaves
<1>5. d \in Seq(Nat) /\ Len(d) = n /\ Allowed(u, texts) = Total(d)
  BY <1>1, AllowedIs
<1>6. ASSUME NEW k \in 1..n PROVE c[k] <= d[k]
  <2>1. PICK a, b, e, f : /\ a = Times(u, w[k].key, {}) /\ b = Times(u, w[k].text, {})
                          /\ e = May(u, texts[k].key) /\ f = May(u, texts[k].text)
    OBVIOUS
  <2>2. a \in Nat /\ b \in Nat /\ e \in Nat /\ f \in Nat /\ a <= e /\ b <= f
    BY <2>1, LeavesAre
  <2>3. d[k] = e + f
    BY <1>1, <1>3, <2>1
  <2>4. c[k] <= a + b /\ c[k] \in Nat
    <3>1. c[k] \in Nat
      BY <1>2, <1>3 DEF Counts
    <3>2. c[k] = Times(u, parts[k], {})
      BY <1>2, <1>3 DEF Counts
    <3>3. QED
      BY <2>1, <3>1, <3>2
  <2>5. QED
    BY <2>2, <2>3, <2>4
<1>7. Total(c) <= Total(d)
  BY <1>2, <1>3, <1>5, <1>6, TotalGrows DEF Counts
<1>8. QED
  BY <1>2, <1>5, <1>7

\* What is kept of one text is allowed.
LEMMA OneTextIsAllowed ==
  ASSUME NEW w, NEW texts, NEW n, Leaves(w, texts, n), NEW u \in Given, NEW k \in 1..n
  PROVE  Times(u, w[k].text, {}) <= Allowed(u, texts)
<1>1. PICK d : d = [j \in DOMAIN texts |-> May(u, texts[j].key) + May(u, texts[j].text)]
  OBVIOUS
<1>2. n \in Nat /\ DOMAIN texts = 1..n
  BY DEF Leaves
<1>4. d \in Seq(Nat) /\ Len(d) = n /\ Allowed(u, texts) = Total(d) /\ Total(d) \in Nat
  BY <1>1, AllowedIs
<1>5. PICK b, e, f : /\ b = Times(u, w[k].text, {})
                     /\ e = May(u, texts[k].key) /\ f = May(u, texts[k].text)
  OBVIOUS
<1>6. b \in Nat /\ e \in Nat /\ f \in Nat /\ b <= f
  BY <1>5, LeavesAre
<1>7. d[k] = e + f
  BY <1>1, <1>2, <1>5
<1>8. d[k] <= Total(d)
  BY <1>4, TotalHolds
<1>9. QED
  <2>1. PICK s \in Nat : s = Total(d)
    BY <1>4
  <2>2. e + f <= s
    BY <1>7, <1>8, <2>1
  <2>3. b <= s
    BY <1>6, <2>1, <2>2
  <2>4. QED
    BY <1>4, <1>5, <2>1, <2>3

\* All that is left, written down.
LEMMA WrittenIs ==
  ASSUME NEW w, NEW texts, NEW n, Leaves(w, texts, n)
  PROVE  /\ Written(w) \in Seq(Alphabet)
         /\ \A u \in Given : /\ Times(u, Written(w), {}) <= Allowed(u, texts)
                             /\ Times(u, Written(w), {}) >= Needed(u, texts)
<1>1. PICK parts : parts = [k \in DOMAIN w |-> w[k].key \o w[k].text]
  OBVIOUS
<1>2. n \in Nat /\ DOMAIN w = 1..n /\ DOMAIN texts = 1..n
  BY LeavesAre DEF Leaves
<1>3. \A k \in 1..n : w[k].key \o w[k].text \in Seq(Alphabet)
  BY LeavesAre, ConcatProperties
<1>4. parts \in Seq(Seq(Alphabet)) /\ DOMAIN parts = 1..n /\ Len(parts) = n
  <2>1. PICK V : V = Seq(Alphabet)
    OBVIOUS
  <2>2. parts \in [1..n -> V]
    BY <1>1, <1>2, <1>3, <2>1
  <2>3. parts \in Seq(V) /\ Len(parts) = n
    BY <1>2, <2>2
  <2>4. QED
    BY <2>1, <2>2, <2>3
<1>5. Written(w) = FlattenSeq(parts) /\ FlattenSeq(parts) \in Seq(Alphabet)
  BY <1>1, <1>4, FlattenAll DEF Written
<1>6. ASSUME NEW u \in Given, NEW k \in 1..n
      PROVE  Times(u, parts[k], {}) = Times(u, w[k].key, {}) + Times(u, w[k].text, {})
  <2>1. PICK a, b : a = w[k].key /\ b = w[k].text
    OBVIOUS
  <2>2. a \in Seq(Alphabet) /\ b \in Seq(Alphabet) /\ parts[k] = a \o b
    BY <1>1, <1>2, <2>1, LeavesAre
  <2>3. QED
    BY <2>1, <2>2, TimesOfBoth
<1>7. ASSUME NEW u \in Given PROVE Times(u, FlattenSeq(parts), {}) <= Allowed(u, texts)
  <2>1. \A k \in 1..n : Times(u, parts[k], {}) <= Times(u, w[k].key, {}) + Times(u, w[k].text, {})
    <3>1. TAKE k \in 1..n
    <3>2. Times(u, w[k].key, {}) \in Nat /\ Times(u, w[k].text, {}) \in Nat
      BY LeavesAre
    <3>3. QED
      BY <1>6, <3>2
  <2>2. QED
    BY <1>4, <2>1, PartsAreAllowed
<1>8. ASSUME NEW u \in Given PROVE Times(u, FlattenSeq(parts), {}) >= Needed(u, texts)
  <2>1. PICK d : d = [k \in DOMAIN texts |-> Must(u, texts[k].key) + Must(u, texts[k].text)]
    OBVIOUS
  <2>2. PICK c \in Seq(Nat) : Counts(c, parts, u) /\ Times(u, FlattenSeq(parts), {}) = Total(c)
    BY <1>4, TimesOfAll
  <2>3. ASSUME NEW k \in 1..n PROVE d[k] \in Nat
    <3>1. PICK e, f : e = Must(u, texts[k].key) /\ f = Must(u, texts[k].text)
      OBVIOUS
    <3>2. e \in Nat /\ f \in Nat
      BY <3>1, LeavesAre
    <3>3. d[k] = e + f
      BY <1>2, <2>1, <3>1
    <3>4. QED
      BY <3>2, <3>3
  <2>4. d \in Seq(Nat) /\ Len(d) = n
    <3>1. d \in [1..n -> Nat]
      BY <1>2, <2>1, <2>3
    <3>2. QED
      BY <1>2, <3>1
  <2>5. ASSUME NEW k \in 1..n PROVE d[k] <= c[k]
    <3>1. PICK a, b, e, f : /\ a = Times(u, w[k].key, {}) /\ b = Times(u, w[k].text, {})
                            /\ e = Must(u, texts[k].key) /\ f = Must(u, texts[k].text)
      OBVIOUS
    <3>2. a \in Nat /\ b \in Nat /\ e \in Nat /\ f \in Nat /\ e <= a /\ f <= b
      BY <3>1, LeavesAre
    <3>3. d[k] = e + f
      BY <1>2, <2>1, <3>1
    <3>4. c[k] = a + b
      BY <1>4, <1>6, <2>2, <3>1 DEF Counts
    <3>5. QED
      BY <3>2, <3>3, <3>4
  <2>6. Total(d) <= Total(c) /\ Total(d) \in Nat /\ Total(c) \in Nat
    BY <1>4, <2>2, <2>4, <2>5, TotalGrows DEF Counts
  <2>7. Needed(u, texts) = Total(d)
    BY <2>1 DEF Needed
  <2>8. QED
    BY <2>2, <2>6, <2>7
<1>9. QED
  BY <1>5, <1>7, <1>8

LEMMA ShortenedIs ==
  ASSUME NEW text \in Seq(Alphabet)
  PROVE  /\ Shortened(text) \in Seq(Alphabet)
         /\ \A u \in Given : Times(u, Shortened(text), {}) <= Times(u, text, {})
<1>1. MaxString \in Nat
  BY RecorderAssumption
<1>2. \A u : Times(u, text, {}) \in Nat
  BY TimesIsNat
<1>3. CASE Len(text) <= MaxString
  BY <1>2, <1>3 DEF Shortened
<1>4. CASE ~(Len(text) <= MaxString)
  <2>1. PICK head, tail : head = SubSeq(text, 1, MaxString) /\ tail = <<Ellipsis>>
    OBVIOUS
  <2>2. head \in Seq(Alphabet)
    BY <1>1, <1>4, <2>1
  <2>3. tail \in Seq(Alphabet) /\ DOMAIN tail = 1..1 /\ tail[1] = Ellipsis
    BY <2>1 DEF Alphabet
  <2>4. Shortened(text) = head \o tail
    <3>1. Shortened(text) = Append(head, Ellipsis)
      BY <1>4, <2>1 DEF Shortened
    <3>2. Ellipsis \in Alphabet
      BY DEF Alphabet
    <3>3. Append(head, Ellipsis) = head \o <<Ellipsis>>
      BY <2>2, <3>2, AppendIsConcat
    <3>4. QED
      BY <2>1, <3>1, <3>3
  <2>5. ASSUME NEW u \in Given PROVE Times(u, head \o tail, {}) <= Times(u, text, {})
    <3>1. Times(u, tail, {}) = 0
      <4>1. u # Ellipsis
        BY DEF Given
      <4>2. {i \in DOMAIN tail \ {} : tail[i] = u} = {}
        BY <2>3, <4>1
      <4>3. QED
        BY <4>2, FS_EmptySet DEF Times
    <3>2. Times(u, head, {}) <= Times(u, text, {})
      <4>1. ~(MaxString > Len(text))
        BY <1>1, <1>4, LenProperties
      <4>2. QED
        BY <1>1, <2>1, <4>1, TimesInPart
    <3>3. Times(u, head, {}) \in Nat
      BY <2>2, TimesIsNat
    <3>4. Times(u, head \o tail, {}) = Times(u, head, {}) + Times(u, tail, {})
      BY <2>2, <2>3, TimesOfBoth
    <3>5. QED
      BY <3>1, <3>2, <3>3, <3>4
  <2>6. QED
    BY <2>2, <2>3, <2>4, <2>5, ConcatProperties
<1>5. QED
  BY <1>3, <1>4

LEMMA PreviewIs ==
  ASSUME NEW text \in Seq(Alphabet), NEW u
  PROVE  /\ Preview(text) \in Seq(Alphabet)
         /\ Times(u, Preview(text), {}) <= Times(u, text, {})
<1>1. PreviewSize \in Nat /\ EnvelopeSize \in Nat /\ Len(text) \in Nat
  BY RecorderAssumption, LenProperties
<1>2. CASE Len(text) <= PreviewSize
  <2>1. Times(u, text, {}) \in Nat
    BY TimesIsNat
  <2>2. QED
    BY <1>2, <2>1 DEF Preview
<1>3. CASE ~(Len(text) <= PreviewSize)
  <2>1. PICK k : k = IF PreviewSize > EnvelopeSize THEN PreviewSize - EnvelopeSize ELSE 0
    OBVIOUS
  <2>2. k \in Nat /\ ~(k > Len(text))
    BY <1>1, <1>3, <2>1
  <2>3. Preview(text) = SubSeq(text, 1, k)
    BY <1>3, <2>1 DEF Preview
  <2>4. SubSeq(text, 1, k) \in Seq(Alphabet)
    BY <1>1, <2>2
  <2>5. QED
    BY <2>2, <2>3, <2>4, TimesInPart
<1>4. QED
  BY <1>2, <1>3

\* Whatever is left out.
LEMMA TruncatedIs ==
  ASSUME NEW w, NEW texts, NEW n, Leaves(w, texts, n), NEW omitted, NEW u \in Given
  PROVE  Times(u, Truncated(w, omitted), {}) <= Allowed(u, texts)
<1>1. PICK parts : parts = [k \in DOMAIN w |->
        IF k \notin omitted THEN w[k].key \o Shortened(w[k].text)
        ELSE IF w[k].parent \notin omitted /\ Earlier(w, k) = ArrayHead THEN <<Ellipsis>>
        ELSE <<>>]
  OBVIOUS
<1>2. n \in Nat /\ DOMAIN w = 1..n
  BY LeavesAre DEF Leaves
<1>3. ASSUME NEW k \in 1..n
      PROVE  /\ parts[k] \in Seq(Alphabet)
             /\ Times(u, parts[k], {}) <= Times(u, w[k].key, {}) + Times(u, w[k].text, {})
  <2>1. PICK a, b, c : a = w[k].key /\ b = w[k].text /\ c = Shortened(b)
    OBVIOUS
  <2>2. a \in Seq(Alphabet) /\ b \in Seq(Alphabet)
    BY <2>1, LeavesAre
  <2>3. c \in Seq(Alphabet) /\ Times(u, c, {}) <= Times(u, b, {})
    BY <2>1, <2>2, ShortenedIs
  <2>4. Times(u, a, {}) \in Nat /\ Times(u, b, {}) \in Nat /\ Times(u, c, {}) \in Nat
    BY <2>2, <2>3, TimesIsNat
  <2>5. parts[k] = a \o c \/ parts[k] = <<Ellipsis>> \/ parts[k] = <<>>
    BY <1>1, <1>2, <2>1
  <2>6. CASE parts[k] = a \o c
    <3>1. Times(u, a \o c, {}) = Times(u, a, {}) + Times(u, c, {})
      BY <2>2, <2>3, TimesOfBoth
    <3>2. a \o c \in Seq(Alphabet)
      BY <2>2, <2>3, ConcatProperties
    <3>3. Times(u, a, {}) + Times(u, c, {}) <= Times(u, a, {}) + Times(u, b, {})
      BY <2>3, <2>4
    <3>4. QED
      BY <2>1, <2>6, <3>1, <3>2, <3>3
  <2>7. CASE parts[k] = <<Ellipsis>>
    <3>1. PICK s : s = <<Ellipsis>>
      OBVIOUS
    <3>2. s \in Seq(Alphabet) /\ DOMAIN s = 1..1 /\ s[1] = Ellipsis
      BY <3>1 DEF Alphabet
    <3>3. u # Ellipsis
      BY DEF Given
    <3>4. {i \in DOMAIN s \ {} : s[i] = u} = {}
      BY <3>2, <3>3
    <3>5. Times(u, s, {}) = 0
      BY <3>4, FS_EmptySet DEF Times
    <3>6. QED
      BY <2>1, <2>4, <2>7, <3>1, <3>2, <3>5
  <2>8. CASE parts[k] = <<>>
    <3>1. Times(u, <<>>, {}) = 0
      BY TimesOfNone
    <3>2. QED
      BY <2>1, <2>4, <2>8, <3>1
  <2>9. QED
    BY <2>5, <2>6, <2>7, <2>8
<1>4. parts \in Seq(Seq(Alphabet)) /\ DOMAIN parts = 1..n
  <2>1. PICK V : V = Seq(Alphabet)
    OBVIOUS
  <2>2. \A k \in 1..n : parts[k] \in V
    BY <1>3, <2>1
  <2>3. parts \in [1..n -> V]
    BY <1>1, <1>2, <2>2
  <2>4. parts \in Seq(V)
    BY <1>2, <2>3
  <2>5. QED
    BY <2>1, <2>3, <2>4
<1>5. Times(u, FlattenSeq(parts), {}) <= Allowed(u, texts)
  BY <1>3, <1>4, PartsAreAllowed
<1>6. Truncated(w, omitted) = FlattenSeq(parts)
  BY <1>1 DEF Truncated
<1>7. QED
  BY <1>5, <1>6

\* What is stored of a payload.
LEMMA RenderIs ==
  ASSUME NEW w, NEW texts, NEW n, Leaves(w, texts, n), NEW t, NEW whole \in BOOLEAN,
         whole => t = "full", NEW kept, kept = Render(w, t)
  PROVE  KeptApart(texts, kept, whole)
<1>1. PICK written : written = Written(w)
  OBVIOUS
<1>2. /\ written \in Seq(Alphabet)
      /\ \A u \in Given : /\ Times(u, written, {}) <= Allowed(u, texts)
                          /\ Times(u, written, {}) >= Needed(u, texts)
  BY <1>1, WrittenIs
<1>3. ASSUME NEW u \in Given PROVE Times(u, kept, {}) <= Allowed(u, texts)
  <2>1. kept = written \/ kept = Preview(written) \/ \E omitted : kept = Truncated(w, omitted)
    BY <1>1, Zenon DEF Render
  <2>2. CASE kept = written
    BY <1>2, <2>2
  <2>3. CASE kept = Preview(written)
    <3>1. Times(u, Preview(written), {}) <= Times(u, written, {})
      BY <1>2, PreviewIs
    <3>2. Times(u, written, {}) \in Nat
      BY <1>2, TimesIsNat
    <3>3. Allowed(u, texts) \in Nat
      BY AllowedIs
    <3>4. Times(u, Preview(written), {}) \in Nat
      BY <1>2, PreviewIs, TimesIsNat
    <3>5. QED
      BY <1>2, <2>3, <3>1, <3>2, <3>3, <3>4
  <2>4. CASE \E omitted : kept = Truncated(w, omitted)
    BY <2>4, TruncatedIs
  <2>5. QED
    BY <2>1, <2>2, <2>3, <2>4
<1>4. ASSUME whole, NEW u \in Given PROVE Times(u, kept, {}) >= Needed(u, texts)
  <2>1. kept = written
    BY <1>1, <1>4 DEF Render
  <2>2. QED
    BY <1>2, <2>1
<1>5. QED
  BY <1>3, <1>4 DEF KeptApart

-----------------------------------------------------------------------------
(* A call's row. *)

LEMMA ElementsOfSome ==
  ASSUME NEW A, NEW s \in Seq(A)
  PROVE  s # <<>> <=> ToSet(s) # {}
<1>1. PICK n \in Nat : n = Len(s) /\ DOMAIN s = 1..n
  BY LenProperties
<1>2. s # <<>> => 1 \in 1..n
  BY <1>1, EmptySeq
<1>3. s = <<>> => 1..n = {}
  BY <1>1
<1>4. QED
  BY <1>1, <1>2, <1>3 DEF ToSet

LEMMA CountedIs ==
  ASSUME NEW hits \in Seq(HitRecords)
  PROVE  /\ Counted(hits) \in Seq(HitRecords)
         /\ Counted(hits) # <<>> <=> HasActive(hits)
<1>1. PICK s : s = [i \in DOMAIN hits |-> IF Active(hits[i]) THEN <<hits[i]>> ELSE <<>>]
  OBVIOUS
<1>2. PICK n \in Nat : n = Len(hits) /\ DOMAIN hits = 1..n
  BY LenProperties
<1>3. ASSUME NEW i \in 1..n
      PROVE  s[i] \in Seq(HitRecords) /\ ToSet(s[i]) = IF Active(hits[i]) THEN {hits[i]} ELSE {}
  <2>1. PICK h \in HitRecords : h = hits[i]
    BY <1>2
  <2>2. s[i] = IF Active(h) THEN <<h>> ELSE <<>>
    BY <1>1, <1>2, <2>1
  <2>3. <<h>> \in Seq(HitRecords) /\ ToSet(<<h>>) = {h}
    BY DEF ToSet
  <2>4. <<>> \in Seq(HitRecords) /\ ToSet(<<>>) = {}
    BY DEF ToSet
  <2>5. QED
    BY <2>1, <2>2, <2>3, <2>4
<1>4. s \in Seq(Seq(HitRecords)) /\ DOMAIN s = 1..n
  <2>1. PICK V : V = Seq(HitRecords)
    OBVIOUS
  <2>2. \A i \in 1..n : s[i] \in V
    BY <1>3, <2>1
  <2>3. s \in [1..n -> V]
    BY <1>1, <1>2, <2>2
  <2>4. s \in Seq(V)
    BY <2>3
  <2>5. QED
    BY <2>1, <2>3, <2>4
<1>5. PICK counted : counted = FlattenSeq(s)
  OBVIOUS
<1>6. counted \in Seq(HitRecords) /\ ToSet(counted) = UNION {ToSet(s[i]) : i \in 1..n}
  BY <1>4, <1>5, FlattenAll, FlattenElements
<1>7. ToSet(counted) # {} <=> HasActive(hits)
  <2>1. ToSet(hits) = {hits[i] : i \in 1..n}
    BY <1>2 DEF ToSet
  <2>2. ASSUME NEW i \in 1..n, Active(hits[i]) PROVE ToSet(counted) # {}
    <3>1. hits[i] \in ToSet(s[i])
      BY <1>3, <2>2
    <3>2. QED
      BY <1>6, <3>1
  <2>3. ASSUME NEW x \in ToSet(counted) PROVE \E i \in 1..n : Active(hits[i])
    <3>1. PICK i \in 1..n : x \in ToSet(s[i])
      BY <1>6
    <3>2. Active(hits[i])
      BY <1>3, <3>1
    <3>3. QED
      BY <3>2
  <2>4. HasActive(hits) <=> \E i \in 1..n : Active(hits[i])
    BY <2>1, Zenon DEF HasActive
  <2>5. QED
    BY <2>2, <2>3, <2>4
<1>8. Counted(hits) = counted
  BY <1>1, <1>5 DEF Counted
<1>9. QED
  BY <1>6, <1>7, <1>8, ElementsOfSome

LEMMA FlagsAre ==
  ASSUME NEW secrets \in Seq(HitRecords)
  PROVE  Flags(secrets) # <<>> <=> secrets # <<>>
<1>1. PICK s : s = [i \in DOMAIN secrets |->
                      IF \E j \in 1..(i - 1) : secrets[j].pattern = secrets[i].pattern
                      THEN <<>> ELSE <<secrets[i].pattern>>]
  OBVIOUS
<1>2. PICK n \in Nat : n = Len(secrets) /\ DOMAIN secrets = 1..n
  BY LenProperties
<1>3. ASSUME NEW i \in 1..n PROVE s[i] \in Seq(DOMAIN Patterns)
  <2>1. PICK h \in HitRecords : h = secrets[i]
    BY <1>2
  <2>2. PICK P, p : P = DOMAIN Patterns /\ p = h.pattern
    OBVIOUS
  <2>3. p \in P
    BY <2>2 DEF HitRecords
  <2>4. s[i] = <<>> \/ s[i] = <<p>>
    BY <1>1, <1>2, <2>1, <2>2
  <2>5. <<>> \in Seq(P) /\ <<p>> \in Seq(P)
    BY <2>3
  <2>6. QED
    BY <2>2, <2>4, <2>5
<1>4. s \in Seq(Seq(DOMAIN Patterns)) /\ DOMAIN s = 1..n
  <2>1. PICK V : V = Seq(DOMAIN Patterns)
    OBVIOUS
  <2>2. \A i \in 1..n : s[i] \in V
    BY <1>3, <2>1
  <2>3. s \in [1..n -> V]
    BY <1>1, <1>2, <2>2
  <2>4. s \in Seq(V)
    BY <2>3
  <2>5. QED
    BY <2>1, <2>3, <2>4
<1>5. PICK distinct : distinct = FlattenSeq(s)
  OBVIOUS
<1>6. /\ distinct \in Seq(DOMAIN Patterns)
      /\ ToSet(distinct) = UNION {ToSet(s[i]) : i \in 1..n}
  BY <1>4, <1>5, FlattenAll, FlattenElements
<1>7. distinct # <<>> <=> secrets # <<>>
  <2>1. ASSUME secrets # <<>> PROVE distinct # <<>>
    <3>1. 1 \in 1..n
      BY <1>2, <2>1, EmptySeq
    <3>2. PICK p : p = secrets[1].pattern
      OBVIOUS
    <3>3. s[1] = <<p>>
      BY <1>1, <1>2, <3>1, <3>2
    <3>4. p \in ToSet(s[1])
      BY <3>3 DEF ToSet
    <3>5. QED
      BY <1>6, <3>1, <3>4, ElementsOfSome
  <2>2. ASSUME secrets = <<>> PROVE distinct = <<>>
    <3>1. 1..n = {}
      BY <1>2, <2>2
    <3>2. ToSet(distinct) = {}
      BY <1>6, <3>1
    <3>3. QED
      BY <1>6, <3>2, ElementsOfSome
  <2>3. QED
    BY <2>1, <2>2
<1>8. PICK flags : flags = IF Len(distinct) > MaxRecords THEN SubSeq(distinct, 1, MaxRecords) ELSE distinct
  OBVIOUS
<1>9. flags # <<>> <=> distinct # <<>>
  <2>1. MaxRecords \in Nat /\ MaxRecords > 0 /\ Len(distinct) \in Nat
    BY <1>6, LenProperties, RecorderAssumption
  <2>2. CASE Len(distinct) > MaxRecords
    <3>1. flags = SubSeq(distinct, 1, MaxRecords)
      BY <1>8, <2>2
    <3>2. Len(flags) = MaxRecords
      BY <1>6, <2>1, <2>2, <3>1, SubSeqProperties
    <3>3. Len(<<>>) = 0
      OBVIOUS
    <3>4. QED
      BY <2>1, <2>2, <3>2, <3>3
  <2>3. CASE ~(Len(distinct) > MaxRecords)
    BY <1>8, <2>3
  <2>4. QED
    BY <2>2, <2>3
<1>10. Flags(secrets) = flags
  BY <1>1, <1>5, <1>8, Zenon DEF Flags
<1>11. QED
  BY <1>7, <1>9, <1>10

\* A payload that is not there has nothing to keep.
LEMMA NothingIsKept ==
  ASSUME NEW texts, DOMAIN texts = {}, NEW whole
  PROVE  KeptApart(texts, <<>>, whole) /\ ~HasSecret(texts)
<1>1. ASSUME NEW d, DOMAIN d = {}, d \in Seq(Nat) PROVE Total(d) = 0
  <2>1. Len(d) = 0
    BY <1>1, LenProperties
  <2>2. QED
    BY <1>1, <2>1, TotalIs DEF Sums
<1>2. ASSUME NEW u PROVE Allowed(u, texts) = 0 /\ Needed(u, texts) = 0
  <2>1. PICK d, e : /\ d = [k \in DOMAIN texts |-> May(u, texts[k].key) + May(u, texts[k].text)]
                    /\ e = [k \in DOMAIN texts |-> Must(u, texts[k].key) + Must(u, texts[k].text)]
    OBVIOUS
  <2>2. d \in [1..0 -> Nat] /\ e \in [1..0 -> Nat]
    BY <2>1
  <2>3. d \in Seq(Nat) /\ e \in Seq(Nat) /\ DOMAIN d = {} /\ DOMAIN e = {}
    BY <2>2
  <2>4. Total(d) = 0 /\ Total(e) = 0
    BY <1>1, <2>3
  <2>5. QED
    BY <2>1, <2>4 DEF Allowed, Needed
<1>3. \A u : Times(u, <<>>, {}) = 0
  BY TimesOfNone
<1>4. KeptApart(texts, <<>>, whole)
  BY <1>2, <1>3 DEF KeptApart
<1>5. QED
  BY <1>4 DEF HasSecret

\* A payload in its row: what its row tells and keeps of it.
LEMMA PayloadIs ==
  ASSUME NEW given, given.some => IsValue(given.value), NEW t, NEW whole \in BOOLEAN,
         whole => t = "full", NEW scan, scan = Scanned(given),
         NEW p, p = Payload(given, Rendered(scan.payload, t))
  PROVE  /\ scan.hits \in Seq(HitRecords)
         /\ HasActive(scan.hits) <=> HasSecret(p.texts)
         /\ p.apart /\ KeptApart(p.texts, p.kept, whole)
<1>1. CASE given.some
  <2>1. PICK value, w, texts, hits, kept :
          /\ value = given.value /\ w = Walk(value) /\ texts = Texts(value, w)
          /\ hits = WalkedHits(value, w) /\ kept = Render(w, t)
    OBVIOUS
  <2>2. IsValue(value)
    BY <1>1, <2>1
  <2>3. scan = [payload |-> Some(w), hits |-> hits]
    BY <1>1, <2>1 DEF Scanned, ScannedAs
  <2>4. scan.hits = hits /\ scan.payload = [some |-> TRUE, value |-> w]
    BY <2>3 DEF Some
  <2>5. Rendered(scan.payload, t) = [some |-> TRUE, value |-> kept]
    BY <2>1, <2>4 DEF Rendered, Some
  <2>6. p = [texts |-> texts, apart |-> NamesApart(w), kept |-> kept]
    BY <1>1, <2>1, <2>5 DEF Payload, PayloadAs
  <2>7. p.texts = texts /\ p.apart = NamesApart(w) /\ p.kept = kept
    BY <2>6
  <2>8. hits \in Seq(HitRecords) /\ (HasActive(hits) <=> HasSecret(texts))
    BY <2>1, <2>2, HitsTell
  <2>9. NamesApart(w)
    BY <2>1, <2>2, NamesStayApart, WalkIs
  <2>10. KeptApart(texts, kept, whole)
    BY <2>1, <2>2, WalkLeavesTexts, RenderIs
  <2>11. QED
    BY <2>4, <2>7, <2>8, <2>9, <2>10
<1>2. CASE ~given.some
  <2>1. scan = [payload |-> None, hits |-> <<>>]
    BY <1>2 DEF Scanned
  <2>2. scan.hits = <<>> /\ scan.hits \in Seq(HitRecords)
    BY <2>1
  <2>3. ~HasActive(<<>>)
    BY DEF HasActive, ToSet
  <2>4. p = [texts |-> Texts(<<>>, <<>>), apart |-> NamesApart(<<>>), kept |-> <<>>]
    BY <1>2 DEF Payload, PayloadAs
  <2>5. PICK texts : texts = Texts(<<>>, <<>>)
    OBVIOUS
  <2>6. DOMAIN texts = {}
    BY <2>5 DEF Texts
  <2>7. NamesApart(<<>>)
    BY DEF NamesApart
  <2>8. KeptApart(texts, <<>>, whole) /\ ~HasSecret(texts)
    BY <2>6, NothingIsKept
  <2>9. p.texts = texts /\ p.apart = NamesApart(<<>>) /\ p.kept = <<>>
    BY <2>4, <2>5
  <2>10. QED
    BY <2>2, <2>3, <2>7, <2>8, <2>9
<1>3. QED
  BY <1>1, <1>2

\* The destination of a call is one of the texts that are left of its arguments.
LEMMA DestinationIs ==
  ASSUME NEW given, given.some => IsValue(given.value), NEW scan, scan = Scanned(given),
         NEW d, d = DestinationOf(scan.payload), d.some,
         NEW kept, NEW p, p = Payload(given, kept)
  PROVE  KeptApart(p.texts, d.value.text, FALSE)
<1>1. CASE given.some
  <2>1. PICK value, w, texts :
          value = given.value /\ w = Walk(value) /\ texts = Texts(value, w)
    OBVIOUS
  <2>2. IsValue(value)
    BY <1>1, <2>1
  <2>3. Leaves(w, texts, Len(value))
    BY <2>1, <2>2, WalkLeavesTexts
  <2>4. scan.payload = [some |-> TRUE, value |-> w]
    BY <1>1, <2>1 DEF Scanned, ScannedAs, Some
  <2>5. p.texts = texts
    BY <1>1, <2>1 DEF Payload, PayloadAs
  <2>6. Destinations(w) # {}
    <3>1. SUFFICES ASSUME Destinations(w) = {} PROVE FALSE
      OBVIOUS
    <3>2. d = None
      BY <2>4, <3>1 DEF DestinationOf
    <3>3. QED
      BY <3>2 DEF None
  <2>7. PICK i : i = CHOOSE k \in Destinations(w) : \A j \in Destinations(w) : k <= j
    OBVIOUS
  <2>8. i \in Destinations(w)
    <3>1. Destinations(w) \subseteq Nat
      <4>1. DestinationKeys \in Seq(Range(DestinationKeys))
        BY RecorderAssumption
      <4>2. DOMAIN DestinationKeys \subseteq Nat
        BY <4>1, LenProperties
      <4>3. QED
        BY <4>2 DEF Destinations
    <3>2. \E k \in Destinations(w) : \A j \in Destinations(w) : k <= j
      BY <2>6, <3>1, LeastElement
    <3>3. QED
      BY <2>7, <3>2
  <2>9. At(w, DestinationKeys[i]) # {}
    BY <2>8 DEF Destinations
  <2>10. PICK m : m = CHOOSE n \in At(w, DestinationKeys[i]) : TRUE
    OBVIOUS
  <2>11. m \in DOMAIN w
    BY <2>9, <2>10 DEF At
  <2>12. d = [some |-> TRUE, value |-> [text |-> w[m].text, network |-> DestinationKeys[i].network]]
    <3>1. PICK a : a = scan.payload
      OBVIOUS
    <3>2. a.some /\ a.value = w
      BY <2>4, <3>1
    <3>3. d = IF ~a.some \/ Destinations(a.value) = {} THEN None
              ELSE Some(DestinationFrom(a.value,
                     DestinationKeys[CHOOSE k \in Destinations(a.value) :
                                       \A j \in Destinations(a.value) : k <= j]))
      BY <3>1 DEF DestinationOf
    <3>4. d = Some(DestinationFrom(w, DestinationKeys[i]))
      BY <2>6, <2>7, <3>2, <3>3
    <3>5. QED
      BY <2>10, <3>4 DEF DestinationFrom, Some
  <2>13. d.value.text = w[m].text
    BY <2>12
  <2>14. \A u \in Given : Times(u, w[m].text, {}) <= Allowed(u, texts)
    BY <2>3, <2>11, OneTextIsAllowed, LeavesAre
  <2>15. QED
    BY <2>5, <2>13, <2>14 DEF KeptApart
<1>2. CASE ~given.some
  <2>1. scan.payload = [some |-> FALSE]
    BY <1>2 DEF Scanned, None
  <2>2. d = [some |-> FALSE]
    BY <2>1 DEF DestinationOf, None
  <2>3. QED
    BY <2>2
<1>3. QED
  BY <1>1, <1>2

LEMMA RawIsValue ==
  ASSUME NEW text \in Seq(Symbols)
  PROVE  IsValue(Raw(text))
<1>1. PICK node, value : /\ node = [kind |-> "raw", parent |-> 0, key |-> <<>>, text |-> text]
                         /\ value = <<node>>
  OBVIOUS
<1>2. node \in Nodes
  BY <1>1 DEF Nodes
<1>3. value \in Seq(Nodes) /\ value # <<>> /\ Len(value) = 1 /\ DOMAIN value = 1..1 /\ value[1] = node
  BY <1>1, <1>2
<1>4. node.kind = "raw" /\ node.parent = 0 /\ node.key = <<>>
  BY <1>1
<1>5. \A n \in DOMAIN value : n = 1 /\ ~IsMember(value, n)
  BY <1>3, <1>4 DEF IsMember
<1>6. IsValue(value)
  BY <1>3, <1>4, <1>5 DEF IsValue
<1>7. Raw(text) = value
  BY <1>1 DEF Raw, Node
<1>8. QED
  BY <1>6, <1>7

LEMMA NoteIsValue == IsValue(CaptureNote)
<1>1. PICK root, note, key, value :
        /\ key = <<"__auditmcp_truncated">>
        /\ root = [kind |-> "object", parent |-> 0, key |-> <<>>, text |-> <<>>]
        /\ note = [kind |-> "scalar", parent |-> 1, key |-> key, text |-> <<>>]
        /\ value = <<root, note>>
  OBVIOUS
<1>2. key \in Seq(Symbols)
  BY <1>1, RecorderAssumption
<1>3. root \in Nodes /\ note \in Nodes
  BY <1>1, <1>2 DEF Nodes
<1>4. /\ value \in Seq(Nodes) /\ value # <<>> /\ Len(value) = 2 /\ DOMAIN value = 1..2
      /\ value[1] = root /\ value[2] = note
  BY <1>1, <1>3
<1>5. /\ root.kind = "object" /\ root.parent = 0 /\ root.key = <<>> /\ root.text = <<>>
      /\ note.kind = "scalar" /\ note.parent = 1 /\ note.text = <<>>
  BY <1>1
<1>6. ~IsMember(value, 1) /\ IsMember(value, 2)
  BY <1>4, <1>5 DEF IsMember
<1>7. \A n \in DOMAIN value : n = 1 \/ n = 2
  BY <1>4
<1>8. ASSUME NEW n \in DOMAIN value
      PROVE  /\ value[n].parent < n /\ (value[n].parent = 0 <=> n = 1)
             /\ \A m \in (value[n].parent + 1)..(n - 1) : value[m].parent >= value[n].parent
             /\ n # 1 => value[value[n].parent].kind \in {"array", "object"}
             /\ value[n].kind \notin {"string", "raw"} => value[n].text = <<>>
             /\ value[n].kind = "raw" => Len(value) = 1
             /\ ~IsMember(value, n) => value[n].key = <<>>
  <2>1. CASE n = 1
    <3>1. (0 + 1)..(1 - 1) = {}
      OBVIOUS
    <3>2. QED
      BY <1>4, <1>5, <2>1, <3>1
  <2>2. CASE n = 2
    <3>1. (1 + 1)..(2 - 1) = {}
      OBVIOUS
    <3>2. QED
      BY <1>4, <1>5, <1>6, <2>2, <3>1
  <2>3. QED
    BY <1>7, <2>1, <2>2
<1>9. \A m, n \in DOMAIN value :
        IsMember(value, n) /\ value[m].parent = value[n].parent /\ value[m].key = value[n].key => m = n
  BY <1>4, <1>5, <1>6, <1>7
<1>10. IsValue(value)
  BY <1>4, <1>8, <1>9 DEF IsValue
<1>11. CaptureNote = value
  BY <1>1 DEF CaptureNote, Node
<1>12. QED
  BY <1>10, <1>11

\* What is said of an outcome is a JSON value, or a text that is none.
LEMMA OutcomeIs ==
  ASSUME NEW r, IsResponse(r), NEW o, o = Outcome(r)
  PROVE  /\ o.result.some => IsValue(o.result.value)
         /\ o.error.some => IsValue(o.error.value)
<1>1. /\ o.result = CASE r.form = "rpc" -> r.result
                      [] r.form = "cut" -> Some(CaptureNote)
                      [] OTHER          -> None
      /\ o.error = CASE r.form = "rpc" -> r.error
                     [] r.form = "raw" -> Some(Raw(r.text))
                     [] OTHER          -> None
  BY DEF Outcome
<1>2. CASE r.form = "rpc"
  <2>1. IsJson(r.result) /\ IsJson(r.error)
    BY <1>2 DEF IsResponse
  <2>2. o.result = r.result /\ o.error = r.error
    BY <1>1, <1>2
  <2>3. QED
    BY <2>1, <2>2 DEF IsJson
<1>3. CASE r.form = "raw"
  <2>1. r.text \in Seq(Symbols)
    BY <1>3 DEF IsResponse
  <2>2. o.result = None /\ o.error = Some(Raw(r.text))
    BY <1>1, <1>3
  <2>3. o.result.some = FALSE /\ o.error.value = Raw(r.text)
    BY <2>2 DEF None, Some
  <2>4. QED
    BY <2>1, <2>3, RawIsValue
<1>4. CASE r.form = "cut"
  <2>1. o.result = Some(CaptureNote) /\ o.error = None
    BY <1>1, <1>4
  <2>2. o.error.some = FALSE /\ o.result.value = CaptureNote
    BY <2>1 DEF None, Some
  <2>3. QED
    BY <2>2, NoteIsValue
<1>5. CASE r.form = "none"
  <2>1. o.result = None /\ o.error = None
    BY <1>1, <1>5
  <2>2. QED
    BY <2>1 DEF None
<1>6. r.form \in {"rpc", "raw", "cut", "none"}
  BY DEF IsResponse
<1>7. QED
  BY <1>2, <1>3, <1>4, <1>5, <1>6

\* The row of a call.
LEMMA EntryIsSafe ==
  ASSUME NEW call, IsCall(call), row = Entry(call)
  PROVE  RowIsSafe(Payloads(call, Outcome(call.response)))
<1>1. PICK o, args, result, error, hits, secrets, t :
        /\ o = Outcome(call.response) /\ args = Scanned(call.args)
        /\ result = Scanned(o.result) /\ error = Scanned(o.error)
        /\ hits = args.hits \o result.hits \o error.hits /\ secrets = Counted(hits)
        /\ t = TierOf(call.tool, o.status, secrets)
  OBVIOUS
<1>2. row = RowOf(o, args, result, error, secrets, t)
  BY <1>1, Zenon DEF Entry, ScannedRow, Built
<1>3. /\ row.args = Rendered(args.payload, t) /\ row.result = Rendered(result.payload, t)
      /\ row.error = Rendered(error.payload, t) /\ row.status = o.status
      /\ row.destination = DestinationOf(args.payload) /\ row.flags = Flags(secrets)
  BY <1>2 DEF RowOf
<1>4. /\ call.args.some => IsValue(call.args.value)
      /\ o.result.some => IsValue(o.result.value)
      /\ o.error.some => IsValue(o.error.value)
  BY <1>1, OutcomeIs DEF IsCall, IsJson
<1>5. PICK p, q, r, payloads :
        /\ p = Payload(call.args, row.args) /\ q = Payload(o.result, row.result)
        /\ r = Payload(o.error, row.error) /\ payloads = <<p, q, r>>
  OBVIOUS
<1>6. payloads = Payloads(call, o)
  BY <1>5 DEF Payloads
<1>7. PICK secret \in BOOLEAN : secret <=> secrets # <<>>
  OBVIOUS
<1>8. PICK whole \in BOOLEAN : whole <=> secret \/ row.status # "success"
  OBVIOUS
<1>9. whole => t = "full"
  BY <1>1, <1>3, <1>7, <1>8 DEF TierOf
<1>10. /\ args.hits \in Seq(HitRecords) /\ (HasActive(args.hits) <=> HasSecret(p.texts))
       /\ p.apart /\ KeptApart(p.texts, p.kept, whole)
  <2>1. args = Scanned(call.args) /\ (call.args.some => IsValue(call.args.value))
    BY <1>1, <1>4
  <2>2. p = Payload(call.args, Rendered(args.payload, t))
    BY <1>3, <1>5
  <2>3. QED
    BY <1>9, <2>1, <2>2, PayloadIs
<1>11. /\ result.hits \in Seq(HitRecords) /\ (HasActive(result.hits) <=> HasSecret(q.texts))
       /\ q.apart /\ KeptApart(q.texts, q.kept, whole)
  <2>1. result = Scanned(o.result) /\ (o.result.some => IsValue(o.result.value))
    BY <1>1, <1>4
  <2>2. q = Payload(o.result, Rendered(result.payload, t))
    BY <1>3, <1>5
  <2>3. QED
    BY <1>9, <2>1, <2>2, PayloadIs
<1>12. /\ error.hits \in Seq(HitRecords) /\ (HasActive(error.hits) <=> HasSecret(r.texts))
       /\ r.apart /\ KeptApart(r.texts, r.kept, whole)
  <2>1. error = Scanned(o.error) /\ (o.error.some => IsValue(o.error.value))
    BY <1>1, <1>4
  <2>2. r = Payload(o.error, Rendered(error.payload, t))
    BY <1>3, <1>5
  <2>3. QED
    BY <1>9, <2>1, <2>2, PayloadIs
<1>13. hits \in Seq(HitRecords) /\ (HasActive(hits) <=> HasSecret(p.texts) \/ HasSecret(q.texts) \/ HasSecret(r.texts))
  <2>1. PICK both : both = args.hits \o result.hits
    OBVIOUS
  <2>2. both \in Seq(HitRecords) /\ (HasActive(both) <=> HasSecret(p.texts) \/ HasSecret(q.texts))
    BY <1>10, <1>11, <2>1, ActiveInBoth
  <2>3. hits = both \o error.hits
    BY <1>1, <2>1
  <2>4. QED
    BY <1>12, <2>2, <2>3, ActiveInBoth
<1>14. secret <=> HasSecret(p.texts) \/ HasSecret(q.texts) \/ HasSecret(r.texts)
  BY <1>1, <1>7, <1>13, CountedIs
<1>15. secret <=> row.flags # <<>>
  BY <1>1, <1>3, <1>7, <1>13, CountedIs, FlagsAre
<1>16. DOMAIN payloads = 1..3 /\ payloads[1] = p /\ payloads[2] = q /\ payloads[3] = r
  BY <1>5
<1>17. \A i \in 1..3 : i = 1 \/ i = 2 \/ i = 3
  OBVIOUS
<1>18. secret <=> \E i \in DOMAIN payloads : HasSecret(payloads[i].texts)
  <2>1. \A i \in 1..3 : HasSecret(payloads[i].texts) => HasSecret(p.texts) \/ HasSecret(q.texts) \/ HasSecret(r.texts)
    BY <1>16, <1>17
  <2>2. 1 \in 1..3 /\ 2 \in 1..3 /\ 3 \in 1..3
    OBVIOUS
  <2>3. HasSecret(p.texts) \/ HasSecret(q.texts) \/ HasSecret(r.texts) => \E i \in 1..3 : HasSecret(payloads[i].texts)
    BY <1>16, <2>2
  <2>4. QED
    BY <1>14, <1>16, <2>1, <2>3
<1>19. \A i \in DOMAIN payloads :
         payloads[i].apart /\ KeptApart(payloads[i].texts, payloads[i].kept, whole)
  BY <1>10, <1>11, <1>12, <1>16, <1>17
<1>20. row.destination.some => KeptApart(payloads[1].texts, row.destination.value.text, FALSE)
  <2>1. PICK d : d = row.destination
    OBVIOUS
  <2>2. d = DestinationOf(args.payload) /\ args = Scanned(call.args) /\ p = Payload(call.args, row.args)
    BY <1>1, <1>3, <1>5, <2>1
  <2>3. d.some => KeptApart(p.texts, d.value.text, FALSE)
    BY <1>4, <2>2, DestinationIs
  <2>4. QED
    BY <1>16, <2>1, <2>3
<1>21. (\E i \in DOMAIN payloads : HasSecret(payloads[i].texts)) \/ row.status # "success" <=> whole
  BY <1>8, <1>18
<1>22. RowIsSafe(payloads)
  BY <1>15, <1>18, <1>19, <1>20, <1>21 DEF RowIsSafe
<1>23. QED
  BY <1>1, <1>6, <1>22

\* The row is that of the last call, which is one that a client may send.
RowInv ==
  /\ workload \in DOMAIN Workloads
  /\ called.some => IsCall(called.value) /\ row = Entry(called.value)

LEMMA RecorderStep == RowInv /\ [RecorderNext]_recorderVars => RowInv'
<1>1. SUFFICES ASSUME RowInv, [RecorderNext]_recorderVars PROVE RowInv'
  OBVIOUS
<1>2. CASE LogCall
  <2>1. PICK c \in Completed[workload] : called' = Some(c.call) /\ row' = c.entry
    BY <1>2 DEF LogCall
  <2>2. workload \in DOMAIN Workloads /\ workload' = workload
    BY <1>1, <1>2 DEF RowInv, LogCall
  <2>3. PICK call \in Workloads[workload].calls : c = [call |-> call, entry |-> Entry(call)]
    BY <2>1, <2>2 DEF Completed
  <2>4. IsCall(call)
    BY <2>2, <2>3, WorkloadsAssumption
  <2>5. called' = [some |-> TRUE, value |-> call] /\ row' = Entry(call)
    BY <2>1, <2>3 DEF Some
  <2>6. QED
    BY <2>2, <2>4, <2>5 DEF RowInv
<1>3. CASE TimePasses
  BY <1>1, <1>3 DEF RowInv, TimePasses
<1>4. CASE UNCHANGED recorderVars
  BY <1>1, <1>4 DEF RowInv, recorderVars
<1>5. QED
  BY <1>1, <1>2, <1>3, <1>4 DEF RecorderNext

\* Whatever is sent and answered, and whatever was unmasked: no part of a secret
\* is stored, a row with one says so and keeps all the rest, and no key takes the
\* place of another (build_entry, merge_overlapping_hits, walk_json).
THEOREM RowsAreSafe == RecorderSpec => []NoSecretIsStored
<1>1. RecorderInit => RowInv
  BY DEF RecorderInit, RowInv, None
<1>2. RowInv => NoSecretIsStored
  <2>1. SUFFICES ASSUME RowInv, called.some
                 PROVE  RowIsSafe(Payloads(called.value, Outcome(called.value.response)))
    BY DEF NoSecretIsStored
  <2>2. PICK call : call = called.value
    OBVIOUS
  <2>3. IsCall(call) /\ row = Entry(call)
    BY <2>1, <2>2 DEF RowInv
  <2>4. RowIsSafe(Payloads(call, Outcome(call.response)))
    BY <2>3, EntryIsSafe
  <2>5. QED
    BY <2>2, <2>4
<1>3. QED
  BY <1>1, <1>2, RecorderStep, PTL DEF RecorderSpec

\* What the session is told of a call is one of its observations: what is proved
\* of any session holds of this one (log_completed, attach_anomaly).
THEOREM RecorderImplementsSession == RecorderSpec => SessionSpec
<1>1. RecorderInit => SessionInit /\ RowInv
  BY DEF RecorderInit, RowInv, None
<1>2. RowInv /\ [RecorderNext]_recorderVars => [SessionNext]_sessionVars
  <2>1. SUFFICES ASSUME RowInv, [RecorderNext]_recorderVars PROVE [SessionNext]_sessionVars
    OBVIOUS
  <2>2. CASE LogCall
    <3>1. PICK c \in Completed[workload] : Observe(Observation(c))
      BY <2>2 DEF LogCall
    <3>2. Observation(c) \in Observations
      BY <2>1, <3>1, WorkloadsAssumption DEF RowInv, Completed
    <3>3. QED
      BY <3>1, <3>2 DEF SessionNext
  <2>3. CASE TimePasses
    BY <2>3 DEF TimePasses, SessionNext
  <2>4. CASE UNCHANGED recorderVars
    BY <2>4 DEF recorderVars, sessionVars
  <2>5. QED
    BY <2>1, <2>2, <2>3, <2>4 DEF RecorderNext
<1>3. QED
  BY <1>1, <1>2, RecorderStep, PTL DEF RecorderSpec, SessionSpec
=============================================================================
