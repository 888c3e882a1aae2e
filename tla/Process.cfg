SPECIFICATION FairSpec
CONSTANTS
    MaxCoreLimit = 3
    LoopLimit = 10
    Levels = {0, 1, 5, 9}
    CPUs = {2, 4}
    ConfCores = {0, 1, 3, 4}
INVARIANTS OwnContext InBounds ThreadsHaveStack SuccessMeansNoneServed
PROPERTIES ProcessEnds
