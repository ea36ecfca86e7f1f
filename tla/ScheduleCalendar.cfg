SPECIFICATION Spec
CONSTANTS
    NoRequest = NoRequest
    NoJob = NoJob
    Booking = {b1, b2}
    Request = {r1, r2}
    Staff = {1, 2}
    NoStaff = 0
    Service = {"cut", "wash"}
    Members <- MCMembers
    Duration <- MCDuration
    Buffer <- MCBuffer
    FixedSlots <- MCFixedSlots
    TimeSlots <- MCTimeSlots
    WorkStart <- MCWorkStart
    WorkEnd <- MCWorkEnd
    BreakStart <- MCBreakStart
    BreakEnd <- MCBreakEnd
    MaxStep = 2
    Start = {0, 2}
    DayMinutes = 6
    Ops = {"client_create", "admin_create", "client_reschedule", "admin_reschedule", "sweep", "webhook", "admin_cancel"}
SYMMETRY Symmetry
INVARIANTS
    TypeOK
    NoDoubleBooking
    NoCircularWait
    InWorkingHours
PROPERTIES
    
    ImplementsCalendar
CHECK_DEADLOCK FALSE
