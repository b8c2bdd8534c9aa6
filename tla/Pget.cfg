SPECIFICATION FairSpec
CONSTANTS
    N = 6 MaxChunks = 3 MinChunk = 2 Slow = 2
    Careful = TRUE AnyMoment = FALSE Errors = 1 Crashes = 1
  
PROPERTIES PgetEnds
CHECK_DEADLOCK FALSE
