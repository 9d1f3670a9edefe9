SPECIFICATION Spec
CONSTANT Programs <- Working
INVARIANTS TypeOK InStep NothingLeft NoDeadlock
PROPERTY ResultsReady
CHECK_DEADLOCK FALSE
