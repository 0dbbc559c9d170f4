\* Processes start together on Unix for the first time; nothing fails.
CONSTANTS
  p1 = p1
  p2 = p2
  p3 = p3
  Procs = {p1, p2, p3}
  OldKey = OldKey
  NoKey = NoKey
  NoFile = NoFile
  KeyFiles = {NoKey}
  Unix = TRUE
  Faults = FALSE
  Resets = FALSE
SPECIFICATION Spec
PROPERTY
  OnlyUnclaimedIsRemoved
