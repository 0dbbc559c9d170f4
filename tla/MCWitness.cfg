\* Three commits in two sessions, a heartbeat every second, one anchor entry.
CONSTANTS
  FlagCounts = {2}
  Bad = Bad
  GenesisChecks = TRUE
  CadenceMin = 1
  CadenceMax = 1
  MaxCommits = 3
  MaxSessions = 2
  MaxEntries = 1
  MaxTime = 3
SPECIFICATION Spec
INVARIANTS
  CleanIsEarned
  AlarmsHaveACause
CHECK_DEADLOCK FALSE
