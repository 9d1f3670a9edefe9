SPECIFICATION Spec
CONSTANTS
  Step = 3
  Databases <- Samples
INVARIANTS
  TypeOK
  SharesAddUp
  InStep
  NoDeadlock
  JoinCorrect
PROPERTIES
  SentRowsStay
CHECK_DEADLOCK FALSE
