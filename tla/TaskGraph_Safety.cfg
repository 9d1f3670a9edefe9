SPECIFICATION Spec
CONSTANT MaxTask = 4
INVARIANTS TypeOK DependencyOrder NothingLost ClosureCovers NeverStuck
CHECK_DEADLOCK FALSE
