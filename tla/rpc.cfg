SPECIFICATION LiveSpec
CONSTANTS
  Calls = {c1, c2}
  Events = {v1}
INVARIANTS CallsAreTrue
PROPERTIES GivenUpStaysSo CallsSettle
CHECK_DEADLOCK FALSE
