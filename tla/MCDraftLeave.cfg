SPECIFICATION DraftsSpec
CONSTANTS
    Requests = {r1, r2, r3}
    K = 2
    MayLeave = TRUE
    MayTrim = FALSE
INVARIANT OwnRow
CHECK_DEADLOCK FALSE
