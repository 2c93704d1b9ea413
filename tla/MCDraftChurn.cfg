SPECIFICATION DraftsSpec
CONSTANTS
    Requests = {r1, r2, r3}
    K = 2
    MayLeave = TRUE
    MayTrim = TRUE
INVARIANT EveryTokenHasARow
CHECK_DEADLOCK FALSE
