SPECIFICATION Spec
CONSTANTS
  m1 = m1
  m2 = m2
  m3 = m3
  NoOne = NoOne
  NoCopy = NoCopy
  p = p
  r = r
  Copies = {m1, m2}
  Twins <- MCTwins
  SameBytes <- MCSameBytes
  Certain = {m1}
  Pollers = {p}
  Retriers = {r}
  Engine = "legacy"
  MaxFaults = 2
  MaxCrashes = 1
  MaxOutages = 1
  MaxRetries = 1
INVARIANTS PreparedMailIsAnswered RequestsPaidByRetries 
 
CHECK_DEADLOCK FALSE
