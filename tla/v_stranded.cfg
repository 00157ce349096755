SPECIFICATION Spec
CONSTANTS
  m1 = m1
  m2 = m2
  m3 = m3
  NoOne = NoOne
  NoCopy = NoCopy
  p = p
  Copies = {m1}
  Twins <- NoTwins
  SameBytes <- NoTwins
  Certain = {}
  Pollers = {p}
  Retriers = {}
  Engine = "legacy"
  MaxFaults = 1
  MaxCrashes = 0
  MaxOutages = 0
  MaxRetries = 0
INVARIANTS AcknowledgedHasOutcome
CHECK_DEADLOCK FALSE
