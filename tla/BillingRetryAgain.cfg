SPECIFICATION Spec
CONSTANTS
    Worker = {1}
    NoMem = NoMem
    OrderNo = {1}
    Batch = {1}
    Interval = 3
    RecentDays = 1
    DaysBefore = 1
    GraceDays = 1
    RetryAfter <- MCRetryAfter
    MaxAge = 2
    FirstDue = 1
    StartsInTrial = FALSE
    MaxDay = 4
    Handles <- MCOneHandles
    Events = {"retry_settles"}
PROPERTIES
    RetryOnlyUnpaid
CHECK_DEADLOCK FALSE
