SPECIFICATION FairSpec
CONSTANT MaxTask = 4
CONSTANT MaxDeps = 2
CONSTANT MaxDepth = 2
CONSTANT MaxNested = 3
CONSTANT Kinds <- AllKinds
CONSTANT BodiesThrow = TRUE
INVARIANTS TypeOK MirrorsScheduler RoundSeparation
PROPERTIES GetMeansDone RunAllMeansDone RunsOnce OnlyEmptyThrows CallsEnd ImplementsScheduler
CHECK_DEADLOCK FALSE
