SPECIFICATION Spec
CONSTANTS
    Sessions = {1, 2}
    ModesOf <- Various
    Priority <- ByNumber Takeover = TRUE Limit = 1
    N = 3 GetFrom = {0} PutFrom = {0} K = 2
    SizeRead = 2 MaxFlight = 2 MaxOutOfOrder = 2 MaxBuf = 2
    Overtaken = {"READ"} ShortReads = FALSE Faults = 1 MaxOpens = 2
INVARIANTS HandlesKept StoredAll InfoRight
 
CHECK_DEADLOCK FALSE
