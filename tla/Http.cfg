SPECIFICATION Spec
CONSTANTS
    Sessions = {1, 2}
    ModesOf <- Various
    Priority <- ByNumber Takeover = TRUE Limit = 1
    N = 2 GetFrom = {1} PutFrom = {0} K = 2 UsePropfind = {TRUE, FALSE} ListByPropfind = FALSE Dates = {TRUE} SizedListing = FALSE
    Kinds = {"lost", "reset", "timeout", "no ranges"} Refusals = {401, 404, 405, 503} Faults = 1 MaxOpens = 3
INVARIANTS ReadsRight Answered StoredAll
CHECK_DEADLOCK FALSE
