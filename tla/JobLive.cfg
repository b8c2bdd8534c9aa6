SPECIFICATION FairSpec
CONSTANTS
    Top = top  Id = {top, a, b}  None = None
    Children <- ShellAndParts
    MaxWork = 2  MaxTop = 3  MaxNo = 3
    Parallel = 2  WaitUp = FALSE  SelfFeed = FALSE
PROPERTIES WaitsEnd
CHECK_DEADLOCK FALSE
