\* Two connections, two streams, two calls under one id and a third; one endpoint.
CONSTANTS
  c1 = c1
  c2 = c2
  c3 = c3
  i1 = i1
  i2 = i2
  k1 = k1
  s1 = s1
  s2 = s2
  a = a
  b = b
  Calls = {c1, c2, c3}
  IdOf <- SharedId
  Bodies <- SomeBodies
  Conns = {a, b}
  SseSessions = {s1, s2}
  Keys = {k1}
  MaxStreams = 2
  NoKey = NoKey
  NoSession = NoSession
SPECIFICATION Spec
SYMMETRY Symmetry
INVARIANTS
  TypeOK
  OnlyOrphansAreLost
  AnswersAreAttributed
PROPERTY
  IsCallLedger
CHECK_DEADLOCK FALSE
