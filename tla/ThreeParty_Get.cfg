SPECIFICATION Spec
CONSTANT Programs <- Convert
PROPERTY ResultsReady
CHECK_DEADLOCK FALSE
