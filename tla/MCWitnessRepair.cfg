\* Two commits beside verify and its repair; no second witness, no time.
CONSTANTS
  FlagCounts = {2}
  Bad = Bad
  GenesisChecks = TRUE
  CadenceMin = 1
  CadenceMax = 1
  MaxCommits = 2
  MaxSessions = 1
  MaxEntries = 0
  MaxTime = 0
SPECIFICATION Spec
PROPERTY
  AgreeingRowsAreUntouched
CHECK_DEADLOCK FALSE
