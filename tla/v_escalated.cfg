SPECIFICATION Spec
CONSTANTS
  o1 = o1
  o2 = o2
  w = w
  Ops = {o1, o2}
  Handlers = {w}
  Dispatchers = {w}
  Immediate = {}
  DryRun = FALSE
  MaxClarificationRounds = 1
  MaxRevision = 2
  MaxMails = 2
  MaxCrashes = 1
  MaxEvents = 5
SYMMETRY Symmetry
CHECK_DEADLOCK FALSE
INVARIANTS
  FailuresEscalated
