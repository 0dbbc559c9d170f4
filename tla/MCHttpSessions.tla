---------------------------- MODULE MCHttpSessions -----------------------------
(* HttpSessions on a small instance. *)
EXTENDS HttpSessions

CONSTANTS c1, c2, c3, i1, i2, k1, s1, s2, a, b

\* Two calls under one id, as of two clients, and a third.
SharedId == c1 :> i1 @@ c2 :> i1 @@ c3 :> i2

\* The third comes in a batch with one of the others.
SomeBodies == {<<c1>>, <<c2>>, <<c1, c3>>, <<c2, c3>>}

Symmetry == Permutations(Conns) \cup Permutations(SseSessions) \cup Permutations({c1, c2})
=============================================================================
