SPECIFICATION Spec
CONSTANTS
  MaxRetries = 2
  MaxAsks = 2
  Customers = {ana, bea}
  Subjects = {topic}
  Workers = {worker1, worker2}
  MaxMails = 3
  MaxSignals = 2
  MaxRounds = 1
  Caps = {2, 4, 6, 9}
  MaxLatest = 2
  MaxThread = 1
  MaxPart = 2
  MaxAttachments = 1
  MaxParts = 2
  Longest = 3
  Letters = {letter1, letter2}
  MaxUid = 2
  MaxRebuilds = 2
  N = 3
  Questions = {1, 2}
  Senders = {sender}
  NoMessage = NoMessage
  Limit = 2
  SendRetries = 3
  MaxCrashes = 2
  MaxLost = 1
INVARIANTS OwnersWrite AnswersFindTheirRequest  ContextFailsClosed SeenIsKept
           DeliveriesExplained FailedDidNotArrive
PROPERTY CallKeepsItsPromise
SYMMETRY Alike
CHECK_DEADLOCK FALSE
