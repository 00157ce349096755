SPECIFICATION FairSpec
CONSTANTS
  m1 = m1
  m2 = m2
  m3 = m3
  NoOne = NoOne
  NoCopy = NoCopy
  p = p
  q = q
  Copies = {m1, m2, m3}
  Twins <- MCTwins
  SameBytes <- MCSameBytes
  Certain = {}
  Pollers = {p, q}
  Retriers = {}
  Engine = "legacy"
  MaxFaults = 1
  MaxCrashes = 1
  MaxOutages = 0
  MaxRetries = 0
INVARIANTS SeenIsStored OneCopyHandled 
PROPERTIES MailIsAcknowledged
CHECK_DEADLOCK FALSE
