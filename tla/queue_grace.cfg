SPECIFICATION Spec
CONSTANTS
  o1 = o1
  w = w
  v = v
  Ops = {o1}
  Handlers = {w, v}
  Dispatchers = {w, v}
  Immediate = {}
  DryRun = TRUE
  MaxClarificationRounds = 1
  MaxRevision = 2
  MaxMails = 4
  MaxCrashes = 1
  MaxEvents = 5
SYMMETRY WorkerSymmetry
INVARIANTS FailuresEscalated UnclaimedNeverCalled
CHECK_DEADLOCK FALSE
