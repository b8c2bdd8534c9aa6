SPECIFICATION Spec
CONSTANTS Sessions <- Two ModesOf <- SharedModes Priority <- SharedPriority Dirs <- Flat
    N = 2 SyncModes = {TRUE, FALSE} Tvfs = TRUE Takeover = TRUE Limit = 1 MaxOpens = 1
    FaultKinds = {"421", "reset", "rest", "rest 4xx"} Faults = 1
INVARIANTS  ReadsRight
CHECK_DEADLOCK FALSE
