\* Two processes that live, on a disk that may fill up; appends are prompt.
CONSTANTS
  p1 = p1
  p2 = p2
  p3 = p3
  Procs = {p1, p2}
  Killable = {}
  Faults = TRUE
  OldEntries = 1
  MaxEntries = 4
  NoLock = NoLock
SPECIFICATION Spec
ACTION_CONSTRAINT
  HoldersArePrompt
INVARIANT
  OneHolder
