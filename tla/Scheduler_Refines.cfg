SPECIFICATION Spec
CONSTANT MaxTask = 4
CONSTANT TaskTypes <- AllTypes
INVARIANTS TypeOK OnlyCurrentTaskThrows SiblingOrder
PROPERTY ImplementsTaskGraph
CHECK_DEADLOCK FALSE
