\* Three processes start, scan, end and fail; one of them may be killed, and
\* its files and rows may fail. No drain times out. No symmetry, which
\* liveness forbids.
CONSTANTS
  p1 = p1
  p2 = p2
  p3 = p3
  Procs = {p1, p2, p3}
  Killable = {p1}
  Faulty = {p1}
  SlowDrain = FALSE
  NoProc = NoProc
SPECIFICATION FairSpec
INVARIANTS
  TypeOK
  AbandonedOnce
  EndedIsNotAbandoned
  LiveIsNeverAbandoned
PROPERTY
  DeadIsClosed
