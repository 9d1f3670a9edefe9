SPECIFICATION FairSpec
CONSTANT Programs <- SomePrograms
CONSTANT BuffSize <- Buffers
CONSTANT HelpStep = 2
INVARIANTS TypeOK SharesAgree NothingReused TransfersRight
PROPERTIES AllFinish
CHECK_DEADLOCK FALSE
