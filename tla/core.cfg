SPECIFICATION Spec
CONSTANTS
  i1 = i1
  i2 = i2
  i3 = i3
  c1 = c1
  None = None
  Inputs <- MCInputs3
  Compacts <- MCCompacts
  Outcomes = {"completed"}
  MaxPosition = 4
  MaxRestarts = 1
  Calls = {"compact", "cancel", "move", "sendNow", "close", "revoke"}
  ReconcileIn = {"active", "unknown"}
  Faults = {"receipt", "capability", "unknown", "streamEnd", "streamError"}
SYMMETRY Symmetry
INVARIANTS OneTurnAtATime SentAtMostOnce UndispatchedHasNoEffect OutcomesAreNative ClosedTaskIsSettled
PROPERTIES SendsAreQualified FinalIsFinal HeldUntilResumed SendNowIsUndone ImplementsSerialSession
CHECK_DEADLOCK FALSE
