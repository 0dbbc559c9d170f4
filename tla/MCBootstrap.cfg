\* Three processes on Windows, starting together or resetting alone, with or without a key from
\* before; kills and I/O errors anywhere, but none behind the back of a
\* failed start that cleans up.
CONSTANTS
  p1 = p1
  p2 = p2
  p3 = p3
  Procs = {p1, p2, p3}
  OldKey = OldKey
  NoKey = NoKey
  NoFile = NoFile
  KeyFiles = {NoKey, OldKey}
  Unix = FALSE
  Faults = TRUE
  Resets = TRUE
SPECIFICATION Spec
SYMMETRY Symmetry
ACTION_CONSTRAINTS
  ResetsAlone
  LooksAndRemoves
INVARIANTS
  TypeOK
  EstablishedChainHasKey
  OneChain
  FailedGenesisLeavesNothing
