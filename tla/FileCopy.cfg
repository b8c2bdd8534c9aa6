SPECIFICATION FairSpec
CONSTANTS
    N = 3  Copies <- Three  MaxBuf = 2  SkipMin = 2
INVARIANTS InPlace Faithful
PROPERTIES CopyEnds
CHECK_DEADLOCK FALSE
