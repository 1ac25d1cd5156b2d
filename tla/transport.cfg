SPECIFICATION LiveSpec
CONSTANTS
  ClientMsgs = 1
  ServerMsgs = 2
  MaxSockets = 4
  MaxLoops = 2
  MaxBreaks = 1
  Impatient = {"server"}
  Low = 0
  High = 0
  ReplayMax = 1
INVARIANTS HeldUntilReceived CallbacksAreTrue
PROPERTIES ImplementsReliableLine NobodyWaitsInSilence
CHECK_DEADLOCK FALSE
