SPECIFICATION Spec
CONSTANTS
    Worker = {1, 2}
    NoMem = NoMem
    OrderNo = {1, 2}
    Batch = {1}
    Interval = 3
    RecentDays = 1
    DaysBefore = 1
    GraceDays = 1
    RetryAfter <- MCOneRetry
    MaxAge = 2
    FirstDue = 0
    StartsInTrial = TRUE
    MaxDay = 3
    Handles <- MCRenewHandles
    Events = {"reactivate", "refund", "late_answer", "crash"}
INVARIANTS
    TypeOK
    RenewedOnce
    NeverAhead
CHECK_DEADLOCK FALSE
