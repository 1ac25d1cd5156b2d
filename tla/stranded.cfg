SPECIFICATION Spec
CONSTANTS
  i1 = i1
  i2 = i2
  i3 = i3
  c1 = c1
  None = None
  Inputs <- MCInputs2
  Compacts <- MCCompacts
  Outcomes = {"completed"}
  MaxPosition = 4
  MaxRestarts = 1
  Calls = {"compact"}
  ReconcileIn = {"active"}
  Faults = {"streamEnd"}
INVARIANT QueueNotStranded
CHECK_DEADLOCK FALSE
