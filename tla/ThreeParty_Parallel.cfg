SPECIFICATION Spec
CONSTANT Programs <- UnsafeFork
INVARIANT InStep
CHECK_DEADLOCK FALSE
