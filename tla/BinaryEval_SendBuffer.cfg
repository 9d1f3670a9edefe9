SPECIFICATION Spec
CONSTANT Workloads <- Deep
CONSTANT Rands <- FewRands
INVARIANT BuffersOutliveSends
CHECK_DEADLOCK FALSE
