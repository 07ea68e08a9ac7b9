SPECIFICATION Spec
CONSTANTS
    Shapes <- MCShapes
    RareShapes <- MCRareShapes
    ThreadRels = {"current", "ancestor"}
    Gaps = {0, 1}
    MaxThreads = 1
    MaxEvents = 3
    MaxFaults = 1
CHECK_DEADLOCK FALSE
INVARIANTS FailureWasTrue NewestWordDecides StandingFindingBlocks SuccessWasTrue
