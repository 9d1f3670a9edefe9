SPECIFICATION FairSpec
CONSTANT Workloads <- Both
CONSTANT Rands <- FewRands
INVARIANTS TypeOK OutputsCorrect LevelsMatch
PROPERTY AllFinish
CHECK_DEADLOCK FALSE
