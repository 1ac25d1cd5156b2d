SPECIFICATION Spec
CONSTANTS
  Approvals = {approval}
  Questions = {question}
INVARIANT RetiredAtEnd
CHECK_DEADLOCK FALSE
