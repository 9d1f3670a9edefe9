SPECIFICATION Spec
CONSTANT Half = 16
CONSTANT Inputs <- Samples
INVARIANTS ResultsCorrect TruncationError
CHECK_DEADLOCK FALSE
