SPECIFICATION FairSpec
CONSTANTS Sessions <- One ModesOf <- OneModes Priority <- OnePriority Dirs <- Flat
    N = 2 SyncModes = {TRUE, FALSE} Tvfs = TRUE Takeover = TRUE Limit = 1 MaxOpens = 2
    FaultKinds = {"lost", "refused", "4xx", "5xx", "truncated"} Faults = 2
INVARIANTS RepliesMatched ReadsRight StoresContiguous Success
PROPERTIES RequestEnds
CHECK_DEADLOCK FALSE
