SPECIFICATION Spec
CONSTANTS
  m1 = m1
  m2 = m2
  m3 = m3
  NoOne = NoOne
  NoCopy = NoCopy
  p = p
  r = r
  Copies = {m1}
  Twins <- NoTwins
  SameBytes <- NoTwins
  Certain = {}
  Pollers = {p}
  Retriers = {r}
  Engine = "langgraph"
  MaxFaults = 5
  MaxCrashes = 1
  MaxOutages = 1
  MaxRetries = 2
INVARIANTS UncertainReleasedOnce
CHECK_DEADLOCK FALSE
