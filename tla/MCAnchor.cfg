\* Three processes, any of which may be killed anywhere, and a disk that may fill up, in the lock
\* file too; appends are prompt, and a rename takes nothing but a stale lock. No symmetry, which
\* liveness forbids.
CONSTANTS
  p1 = p1
  p2 = p2
  p3 = p3
  Procs = {p1, p2, p3}
  Killable = {p1, p2, p3}
  Faults = TRUE
  OldEntries = 1
  MaxEntries = 4
  NoLock = NoLock
SPECIFICATION FairSpec
ACTION_CONSTRAINTS
  HoldersArePrompt
  RenamesTheStale
INVARIANTS
  TypeOK
  OneHolder
  AnchorVerifies
PROPERTIES
  LeftLockIsBroken
