SPECIFICATION Spec
CONSTANTS
    Top = top  Id = {top, a, b, c}  None = None
    Children <- ShellAndParts
    MaxWork = 1  MaxTop = 3  MaxNo = 3
    Parallel = 2  WaitUp = FALSE  SelfFeed = TRUE
SYMMETRY Symmetry
INVARIANTS AwaitedAlive WaiterIsParent
PROPERTIES KillAllKills
CHECK_DEADLOCK FALSE
