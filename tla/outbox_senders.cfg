SPECIFICATION FairSpec
CONSTANTS
  N = 2
  Questions = {1}
  Senders = {s, t}
  NoMessage = NoMessage
  Limit = 1
  SendRetries = 2
  MaxCrashes = 1
  MaxLost = 1
INVARIANTS SaysDelivered WaitingHasRetry 
PROPERTIES QueuedIsClosed
CHECK_DEADLOCK FALSE
