SPECIFICATION FairSpec
CONSTANTS
  i1 = i1
  i2 = i2
  i3 = i3
  c1 = c1
  None = None
  Inputs <- MCInputs2
  Compacts <- MCCompacts
  Outcomes = {"completed"}
  MaxPosition = 3
  MaxRestarts = 1
  Calls = {"compact", "cancel", "move", "sendNow", "freeze", "close", "abandon", "revoke"}
  ReconcileIn = {"unknown"}
  Faults = {"receipt", "capability", "attachment", "unknown", "unmatched", "streamEnd"}
INVARIANTS QueueNotStranded
PROPERTIES QueueStopsForCause QueuedInputsLeave
CHECK_DEADLOCK FALSE
