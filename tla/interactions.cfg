SPECIFICATION Spec
CONSTANTS
  Approvals = {approval}
  Questions = {question}
INVARIANTS AnsweredOnce RetiredByEvent
PROPERTIES AnswersAreTrue RepliesAreQualified
CHECK_DEADLOCK FALSE
