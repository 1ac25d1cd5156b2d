SPECIFICATION Spec
CONSTANTS
  MaxRequests = 3
  Notices = {"requested", "unsupported"}
INVARIANTS StoppedHasOneConfirmation RecordsTellTheTruth InterruptedOnce
PROPERTIES EvidenceIsKept
CHECK_DEADLOCK FALSE
