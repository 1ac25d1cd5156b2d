SPECIFICATION LiveSpec
CONSTANTS
  a1 = a1
  a2 = a2
  a3 = a3
  b1 = b1
  c1 = c1
  m1 = m1
  A = A
  B = B
  C = C
  Main = Main
  NoRun = NoRun
  Observer = Main
  Requests = {a1, a2, a3, b1, m1}
  Runs = {A, B}
  RunOf <- MCRunOf
  Ceiling = 3
  Successes = 2
  MaxObserved = 1
  MaxThrottles = 1
  LongWaits = FALSE
INVARIANTS GovernorInv
PROPERTIES GateHolds OneVerdictPerBatch RunsTakeTurns WaitersAreServed
CHECK_DEADLOCK FALSE
