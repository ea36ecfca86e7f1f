SPECIFICATION FairSpec
CONSTANTS
    Worker = {1, 2}
    NoMem = NoMem
    OrderNo = {1, 2}
    Batch = {1}
    Interval = 3
    RecentDays = 1
    DaysBefore = 1
    GraceDays = 1
    RetryAfter <- MCRetryAfter
    MaxAge = 2
    FirstDue = 0
    StartsInTrial = FALSE
    MaxDay = 3
    Handles <- MCSuspendHandles
    Events = {"bank_error", "crash"}
INVARIANTS
    NeverAhead

    
CHECK_DEADLOCK FALSE
