SPECIFICATION Spec
CONSTANTS
  MaxRetries = 1
  Verifiers = 1
  Plans <- ThePlans
INVARIANTS SpendIsRemembered NeverPastTheStop RefreshLeavesOneAnswer  RecommendedIsSafe
PROPERTIES PaidOnce
CHECK_DEADLOCK FALSE
