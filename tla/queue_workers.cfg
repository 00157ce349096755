SPECIFICATION FairSpec
CONSTANTS
  o1 = o1
  w = w
  c = c
  Ops = {o1}
  Handlers = {w, c}
  Dispatchers = {w, c}
  Immediate = {c}
  DryRun = TRUE
  MaxClarificationRounds = 1
  MaxRevision = 2
  MaxMails = 3
  MaxCrashes = 1
  MaxEvents = 3
INVARIANTS AtMostOneCall ExclusiveDispatch ClosedRowHasRecord
PROPERTIES ImplementsLedger ScheduledLeaves ClaimedSettles
CHECK_DEADLOCK FALSE
