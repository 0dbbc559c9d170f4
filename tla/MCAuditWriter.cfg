\* A queue of two: five calls of a process alone, which overflow it between gap
\* markers, or up to three beside the one call of another process.
CONSTANTS
  p1 = p1
  p2 = p2
  Procs = {p1, p2}
  Capacity = 2
  MaxCalls = 5
  NoProc = NoProc
  NoCall = NoCall
SPECIFICATION FairSpec
ACTION_CONSTRAINT
  FewBeside
INVARIANTS
  TypeOK
  ChainIsLinear
  EveryCallIsAccountedFor
  SuccessMeansComplete
  RowsKeepCallOrder
  MarkersAddUp
PROPERTIES
  IsAuditLog
  ShutdownEnds
