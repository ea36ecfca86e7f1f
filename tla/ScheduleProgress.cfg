SPECIFICATION FairSpec
CONSTANTS
    NoRequest = NoRequest
    NoJob = NoJob
    Booking = {b1}
    Request = {r1, r2}
    Staff = {1, 2}
    NoStaff = 0
    Service = {"cut"}
    Members <- MCMembers
    Duration <- MCDuration
    Buffer <- MCBuffer
    FixedSlots <- MCFixedSlots
    TimeSlots <- MCTimeSlots
    WorkStart <- MCWorkStart
    WorkEnd <- MCWorkEnd
    BreakStart <- MCBreakStart
    BreakEnd <- MCBreakEnd
    MaxStep = 2
    Start = {0}
    DayMinutes = 6
    Ops = {"client_create", "admin_create", "client_reschedule", "assign_staff", "recurring", "confirm", "check_in", "complete", "no_show", "patch", "destroy", "toggle_active"}
PROPERTIES
    RequestsEnd
CHECK_DEADLOCK FALSE
