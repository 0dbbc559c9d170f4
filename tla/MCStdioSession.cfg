\* Three calls, two under one id; one heartbeat; the target also
\* sends requests under the id of the third.
CONSTANTS
  c1 = c1
  c2 = c2
  c3 = c3
  i1 = i1
  i2 = i2
  Calls = {c1, c2, c3}
  IdOf <- ReusedId
  ServerIds = {i2}
  MaxBeats = 1
  NoCall = NoCall
SPECIFICATION FairSpec
INVARIANTS
  TypeOK
  ReceivedIsTracked
  TimeoutMeansUnanswered
  DrainIsOrderly
PROPERTIES
  SessionEndIsLast
  IsCallLedger
  ShutdownEnds
CHECK_DEADLOCK FALSE
