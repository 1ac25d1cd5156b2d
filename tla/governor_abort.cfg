SPECIFICATION Spec
CONSTANTS
  a1 = a1
  a2 = a2
  a3 = a3
  b1 = b1
  c1 = c1
  m1 = m1
  A = A
  B = B
  C = C
  Main = Main
  NoRun = NoRun
  Observer = Main
  Requests = {a1, a2, b1, c1, m1}
  Runs = {A, B, C}
  RunOf <- MCRunOf
  Ceiling = 3
  Successes = 2
  MaxObserved = 2
  MaxThrottles = 2
  LongWaits = TRUE
INVARIANT NobodyForgotten
CHECK_DEADLOCK FALSE
