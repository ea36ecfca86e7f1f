--------------------------- MODULE BookingSchedule ---------------------------
(***************************************************************************)
(* Who may occupy a staff member's time: the part of booking_management    *)
(* that creates, moves, reassigns and ends bookings.                       *)
(*                                                                         *)
(* A request is a web worker (or the Celery worker) running one handler.   *)
(* Handlers that place a booking validate without a lock, then open a      *)
(* transaction that takes SELECT ... FOR UPDATE on BookingStaff rows, check*)
(* the slot again and save.  Handlers that only change the status read the *)
(* booking, decide, and save named columns later, with no lock.  Both read *)
(* steps and write steps are separate actions here, so every interleaving  *)
(* PostgreSQL allows under READ COMMITTED is a behaviour.                  *)
(*                                                                         *)
(* The model covers one calendar day: two bookings on different dates are  *)
(* never compared by is_slot_booked.  Times are minutes of that day.       *)
(***************************************************************************)
EXTENDS Naturals

CONSTANTS
    Booking,      \* primary keys available for Booking rows
    Staff,        \* BookingStaff primary keys, ordered as the database orders them
    NoStaff,      \* Booking.staff = None
    Service,      \* bookable services
    Members,      \* [Service -> SUBSET Staff], service.staff_members
    Duration,     \* [Service -> Nat], duration_minutes
    Buffer,       \* [Service -> Nat], buffer_time_minutes
    WorkStart, WorkEnd,     \* [Staff -> Nat], the day's working hours
    BreakStart, BreakEnd,   \* [Staff -> Nat], equal when there is no break
    FixedSlots,   \* services whose booking_type is fixed_slots
    TimeSlots,    \* [Service -> SUBSET Nat], available_time_slots of those
    MaxStep,      \* longest spacing of the start times offered online, 30 in the program
    Start,        \* start times requests may ask for
    DayMinutes,   \* 24 * 60 in the program
    Request,      \* workers
    NoRequest,    \* lock is free
    NoJob,        \* memory of an idle worker
    Ops           \* the kinds of request that arrive

StatusOps  == {"confirm", "check_in", "complete", "no_show", "sweep", "patch"}
Reschedules == {"client_reschedule", "admin_reschedule"}
PlacingOps == {"client_create", "admin_create", "assign_staff"} \cup Reschedules
OneStepOps == {"client_cancel", "admin_cancel", "destroy", "webhook", "recurring",
               "toggle_active"}
AllOps     == StatusOps \cup PlacingOps \cup OneStepOps

total_duration_minutes(svc) == Duration[svc] + Buffer[svc]

ASSUME StaffAssumption ==
    /\ Staff \subseteq Nat
    /\ NoStaff \notin Staff
    /\ NoRequest \notin Request
ASSUME ServiceAssumption ==
    /\ Service # {}
    /\ Members \in [Service -> SUBSET Staff]
    /\ Duration \in [Service -> Nat \ {0}]
    /\ Buffer \in [Service -> Nat]
    /\ FixedSlots \subseteq Service
    /\ TimeSlots \in [Service -> SUBSET Nat]
    /\ MaxStep \in Nat \ {0}
ASSUME ClockAssumption ==
    /\ DayMinutes \in Nat \ {0}
    /\ Start \subseteq Nat
    /\ \A t \in Start : t < DayMinutes
    /\ \A svc \in Service : total_duration_minutes(svc) <= DayMinutes
    /\ WorkStart \in [Staff -> Nat]
    /\ WorkEnd \in [Staff -> Nat]
    /\ BreakStart \in [Staff -> Nat]
    /\ BreakEnd \in [Staff -> Nat]
    /\ \A s \in Staff : WorkEnd[s] < DayMinutes      \* a TimeField is at most 23:59
ASSUME OpsAssumption == Ops \subseteq AllOps

VARIABLES
    row,      \* the Booking table
    active,   \* [Staff -> BOOLEAN], is_active_for_bookings
    lock,     \* [Staff -> Request \cup {NoRequest}], who holds the row lock
    pc,       \* where each request is
    job       \* what each request has in memory

vars == <<row, active, lock, pc, job>>

ACTIVE_BOOKING_STATUSES == {"pending", "confirmed", "in_progress"}
FINAL_BOOKING_STATUSES  == {"completed", "cancelled", "no_show"}
Status == {"absent", "deleted"} \cup ACTIVE_BOOKING_STATUSES \cup FINAL_BOOKING_STATUSES

Row == [status : Status, staff : Staff \cup {NoStaff}, start : Nat, end : Nat,
        service : Service, payment_method : {"cash", "card"}, bog_order_id : BOOLEAN]

NoRow == [status |-> "absent", staff |-> NoStaff, start |-> 0, end |-> 0,
          service |-> CHOOSE svc \in Service : TRUE, payment_method |-> "cash",
          bog_order_id |-> FALSE]

(***************************************************************************)
(* A request's memory: the model instance `obj' it loaded or is about to   *)
(* insert, the staff member and start time it wants, and whether a         *)
(* customer left the choice of staff open.                                 *)
(***************************************************************************)
Job == [op : AllOps, id : Booking, obj : Row, staff : Staff \cup {NoStaff},
        start : Nat, auto_assign_staff : BOOLEAN]

Control == {"idle", "read", "locking", "checked", "paying"}

----------------------------------------------------------------------------
(* Reading the calendar *)

\* datetime arithmetic on a time of day wraps at midnight
add_minutes_to_time(t, m) == IF t + m < DayMinutes THEN t + m ELSE (t + m) - DayMinutes

IsActive(b) == row[b].status \in ACTIVE_BOOKING_STATUSES

\* exclude: the booking that is being moved, which does not block itself
is_slot_booked(s, t, minutes, exclude) ==
    \E b \in Booking \ exclude :
        /\ IsActive(b)
        /\ row[b].staff = s
        /\ row[b].start < add_minutes_to_time(t, minutes)
        /\ row[b].end > t

\* the start times a service is offered at in one staff member's day
_candidate_start_times(svc, s) ==
    IF svc \in FixedSlots THEN TimeSlots[svc]
    ELSE LET step == IF Duration[svc] < MaxStep THEN Duration[svc] ELSE MaxStep
         IN  {t \in WorkStart[s] .. WorkEnd[s] - 1 : (t - WorkStart[s]) % step = 0}

_fits_working_hours(s, t, minutes) ==
    /\ t >= WorkStart[s]
    /\ t + minutes <= WorkEnd[s]
    /\ ~(t < BreakEnd[s] /\ t + minutes > BreakStart[s])

\* Mutant: only the start has to lie in the working hours.
check_staff_slot_StartOnly(svc, s, t, exclude, enforce_grid) ==
    /\ enforce_grid => t \in _candidate_start_times(svc, s)
    /\ WorkStart[s] <= t /\ t < WorkEnd[s]
    /\ ~is_slot_booked(s, t, total_duration_minutes(svc), exclude)

check_staff_slot(svc, s, t, exclude, enforce_grid) ==
    /\ enforce_grid => t \in _candidate_start_times(svc, s)
    /\ WorkStart[s] <= t /\ t < WorkEnd[s]
    /\ _fits_working_hours(s, t, total_duration_minutes(svc))
    /\ ~is_slot_booked(s, t, total_duration_minutes(svc), exclude)

staff_can_perform(svc, s) == s \in Members[svc] /\ active[s]

AvailableStaff(svc, t, exclude, enforce_grid) ==
    {s \in Members[svc] : active[s] /\ check_staff_slot(svc, s, t, exclude, enforce_grid)}

\* the first by primary key, or None
find_available_staff(svc, t, exclude, enforce_grid) ==
    LET free == AvailableStaff(svc, t, exclude, enforce_grid)
    IN  IF free = {} THEN NoStaff
        ELSE CHOOSE s \in free : \A u \in free : s <= u

validate_booking_availability(svc, s, t, exclude, enforce_grid) ==
    IF s # NoStaff THEN check_staff_slot(svc, s, t, exclude, enforce_grid)
    ELSE AvailableStaff(svc, t, exclude, enforce_grid) # {}

----------------------------------------------------------------------------
(* Handlers that place a booking *)

Begin(r, j, where) ==
    /\ pc[r] = "idle"
    /\ j.op \in Ops
    /\ job' = [job EXCEPT ![r] = j]
    /\ pc' = [pc EXCEPT ![r] = where]
    /\ UNCHANGED <<row, active, lock>>

Fresh(b) == row[b].status = "absent" /\ \A r \in Request : pc[r] # "idle" => job[r].id # b

NewRow(svc, s, t, status, method) ==
    [status |-> status, staff |-> s, start |-> t,
     end |-> add_minutes_to_time(t, total_duration_minutes(svc)),
     service |-> svc, payment_method |-> method, bog_order_id |-> FALSE]

\* BookingCreateSerializer.validate: a customer names a staff member or lets
\* the system choose (auto); only times on the offered grid are accepted.  The
\* system's choice is a second query, which finds nobody when the time has
\* gone since the first.
ClientCreate(r) ==
    \E b \in Booking, svc \in Service, t \in Start, method \in {"cash", "card"},
       s \in Staff \cup {NoStaff}, auto \in BOOLEAN :
        /\ Fresh(b)
        /\ validate_booking_availability(svc, IF auto THEN NoStaff ELSE s, t, {}, TRUE)
        /\ IF auto THEN s \in {NoStaff, find_available_staff(svc, t, {}, TRUE)}
                   ELSE staff_can_perform(svc, s)
        /\ Begin(r, [op |-> "client_create", id |-> b,
                     obj |-> NewRow(svc, s, t, "pending", method),
                     staff |-> s, start |-> t, auto_assign_staff |-> auto], "locking")

\* AdminBookingCreateSerializer.validate: any minute of the working day.
AdminCreate(r) ==
    \E b \in Booking, svc \in Service, t \in Start, s \in Staff, status \in {"pending", "confirmed"} :
        /\ Fresh(b)
        /\ staff_can_perform(svc, s)
        /\ check_staff_slot(svc, s, t, {}, FALSE)
        /\ Begin(r, [op |-> "admin_create", id |-> b, obj |-> NewRow(svc, s, t, status, "cash"),
                     staff |-> s, start |-> t, auto_assign_staff |-> FALSE], "locking")

\* Both reschedule handlers load the booking, look at its status and ask for
\* a new time for the staff member they loaded.
Reschedule(r, op) ==
    \E b \in Booking, t \in Start :
        /\ row[b].status \in {"pending", "confirmed"}
        /\ Begin(r, [op |-> op, id |-> b, obj |-> row[b], staff |-> row[b].staff,
                     start |-> t, auto_assign_staff |-> FALSE], "locking")

\* assign_staff: another active staff member of the same service, at the time
\* the loaded booking has.
AssignStaff(r) ==
    \E b \in Booking, s \in Staff :
        /\ row[b].status \in {"pending", "confirmed"}
        /\ s # row[b].staff
        /\ staff_can_perform(row[b].service, s)
        /\ Begin(r, [op |-> "assign_staff", id |-> b, obj |-> row[b], staff |-> s,
                     start |-> row[b].start, auto_assign_staff |-> FALSE], "locking")

\* The BookingStaff rows the transaction locks: every member of the service for
\* customers, the one staff member concerned for the front desk.
Needed(j) == IF j.op \in {"client_create", "client_reschedule"}
             THEN Members[j.obj.service]
             ELSE {j.staff} \ {NoStaff}

Held(r)    == {s \in Staff : lock[s] = r}
Missing(r) == Needed(job[r]) \ Held(r)

\* Mutant: no ORDER BY, the rows are locked in any order.
LockNext_AnyOrder(r) ==
    /\ pc[r] = "locking"
    /\ \E s \in Missing(r) :
        /\ lock[s] = NoRequest
        /\ lock' = [lock EXCEPT ![s] = r]
    /\ UNCHANGED <<row, active, pc, job>>

\* SELECT ... FOR UPDATE ORDER BY pk takes the rows one by one, in key order.
LockNext(r) ==
    /\ pc[r] = "locking"
    /\ \E s \in Missing(r) :
        /\ \A u \in Missing(r) : s <= u
        /\ lock[s] = NoRequest
        /\ lock' = [lock EXCEPT ![s] = r]
    /\ UNCHANGED <<row, active, pc, job>>

Unlocked(r) == [s \in Staff |-> IF lock[s] = r THEN NoRequest ELSE lock[s]]

\* The staff member the transaction settles on under its locks, NoStaff when
\* the slot is refused.  (An admin reschedule of a booking without staff keeps
\* it without staff; it is handled by Accepts.)
Chosen(j) ==
    CASE j.op = "client_create" ->
           IF /\ j.staff # NoStaff
              /\ ~is_slot_booked(j.staff, j.start, total_duration_minutes(j.obj.service), {})
           THEN j.staff
           ELSE IF j.auto_assign_staff
                THEN find_available_staff(j.obj.service, j.start, {}, FALSE)
                ELSE NoStaff
      [] j.op = "client_reschedule" /\ j.staff = NoStaff ->
           find_available_staff(j.obj.service, j.start, {j.id}, TRUE)
      [] OTHER -> j.staff

\* Mutant: a desk booking is not checked again under the lock.
Accepts_DeskUnchecked(j) ==
    \/ j.op = "admin_create"
    \/ j.op = "client_create" /\ Chosen(j) # NoStaff
    \/ j.op \in Reschedules /\ validate_booking_availability(j.obj.service, j.staff, j.start,
                                                            {j.id}, FALSE)

Accepts(j) ==
    CASE j.op = "client_create" -> Chosen(j) # NoStaff
      [] j.op = "admin_create" ->
           ~is_slot_booked(j.staff, j.start, total_duration_minutes(j.obj.service), {})
      [] j.op = "client_reschedule" ->
           validate_booking_availability(j.obj.service, j.staff, j.start, {j.id}, TRUE)
      [] j.op = "admin_reschedule" ->
           validate_booking_availability(j.obj.service, j.staff, j.start, {j.id}, FALSE)
      [] OTHER -> check_staff_slot(j.obj.service, j.staff, j.start, {j.id}, FALSE)

\* The second look at the slot, with every lock held.
Check(r) ==
    /\ pc[r] = "locking"
    /\ Missing(r) = {}
    /\ Accepts(job[r])
    /\ job' = [job EXCEPT ![r].staff = Chosen(job[r])]
    /\ pc' = [pc EXCEPT ![r] = "checked"]
    /\ UNCHANGED <<row, active, lock>>

Finish(r) ==
    /\ pc' = [pc EXCEPT ![r] = "idle"]
    /\ job' = [job EXCEPT ![r] = NoJob]

\* The slot is gone: an error response, the transaction ends with no write.
Refuse(r) ==
    /\ pc[r] = "locking"
    /\ Missing(r) = {}
    /\ ~Accepts(job[r])
    /\ lock' = Unlocked(r)
    /\ Finish(r)
    /\ UNCHANGED <<row, active>>

\* What save() writes: the whole new row, or the columns of update_fields.
Saved(j) ==
    LET end == add_minutes_to_time(j.start, total_duration_minutes(j.obj.service))
        old == row[j.id]
    IN  CASE j.op \in {"client_create", "admin_create"} -> [j.obj EXCEPT !.staff = j.staff]
          [] j.op = "client_reschedule" ->
               [old EXCEPT !.staff = j.staff, !.start = j.start, !.end = end]
          [] j.op = "admin_reschedule" -> [old EXCEPT !.start = j.start, !.end = end]
          [] OTHER -> [old EXCEPT !.staff = j.staff]

\* save(update_fields=...) of a row that was deleted meanwhile changes nothing
\* and raises; the request ends.
Updated(b, new) == [row EXCEPT ![b] = IF row[b].status = "deleted" THEN row[b] ELSE new]

\* Mutant: the booking is forgotten before its payment is started.
Commit_Forgets(r) ==
    /\ pc[r] = "checked"
    /\ row' = Updated(job[r].id, Saved(job[r]))
    /\ lock' = Unlocked(r)
    /\ job' = [job EXCEPT ![r] = NoJob]
    /\ pc' = [pc EXCEPT ![r] = IF job[r].obj.payment_method = "card" THEN "paying" ELSE "idle"]
    /\ UNCHANGED active

\* save() and COMMIT.  A card booking goes on to create its BOG order.
Commit(r) ==
    /\ pc[r] = "checked"
    /\ row' = Updated(job[r].id, Saved(job[r]))
    /\ lock' = Unlocked(r)
    /\ IF job[r].op = "client_create" /\ job[r].obj.payment_method = "card"
       THEN pc' = [pc EXCEPT ![r] = "paying"] /\ UNCHANGED job
       ELSE Finish(r)
    /\ UNCHANGED active

\* create_booking_payment succeeds: the customer is sent to the bank.
PaymentStarted(r) ==
    /\ pc[r] = "paying"
    /\ row' = Updated(job[r].id, [row[job[r].id] EXCEPT !.bog_order_id = TRUE])
    /\ Finish(r)
    /\ UNCHANGED <<active, lock>>

\* ... or fails: the new booking must not hold its slot.
PaymentInitFailed(r) ==
    /\ pc[r] = "paying"
    /\ row' = Updated(job[r].id, [row[job[r].id] EXCEPT !.status = "cancelled"])
    /\ Finish(r)
    /\ UNCHANGED <<active, lock>>

\* A worker dies, or the database drops its connection: an open transaction
\* is rolled back and its locks are gone.
Crash(r) ==
    /\ pc[r] # "idle"
    /\ lock' = Unlocked(r)
    /\ Finish(r)
    /\ UNCHANGED <<row, active>>

----------------------------------------------------------------------------
(* Handlers that read a booking and save its status later, with no lock *)

MayRead(op, b) ==
    CASE op = "confirm"  -> row[b].status = "pending"
      [] op = "check_in" -> row[b].status \in {"pending", "confirmed"}
      [] op = "complete" -> row[b].status \in {"confirmed", "in_progress"}
      [] op = "no_show"  -> row[b].status \in {"pending", "confirmed"}
      [] op = "sweep"    -> row[b].status = "pending" /\ row[b].payment_method = "card"
      [] OTHER           -> row[b].status \notin {"absent", "deleted"}

ReadBooking(r, op) ==
    \E b \in Booking :
        /\ MayRead(op, b)
        /\ Begin(r, [op |-> op, id |-> b, obj |-> row[b], staff |-> row[b].staff,
                     start |-> row[b].start, auto_assign_staff |-> FALSE], "read")

\* confirm, check_in, complete, mark_no_show and cancel save the status column;
\* the PATCH serializer calls instance.save() and writes every column it loaded,
\* and inserts the row again when it is gone.
SavedStatus(j) ==
    CASE j.op = "confirm"  -> [row[j.id] EXCEPT !.status = "confirmed"]
      [] j.op = "check_in" -> [row[j.id] EXCEPT !.status = "in_progress"]
      [] j.op = "complete" -> [row[j.id] EXCEPT !.status = "completed"]
      [] j.op = "no_show"  -> [row[j.id] EXCEPT !.status = "no_show"]
      [] OTHER             -> [row[j.id] EXCEPT !.status = "cancelled"]

SaveBooking(r) ==
    /\ pc[r] = "read"
    /\ row' = IF job[r].op = "patch" THEN [row EXCEPT ![job[r].id] = job[r].obj]
              ELSE Updated(job[r].id, SavedStatus(job[r]))
    /\ Finish(r)
    /\ UNCHANGED <<active, lock>>

----------------------------------------------------------------------------
(* Handlers whose read and write are one transaction under the booking's row *)
(* lock, and writes that read nothing                                        *)

\* Mutant: an UPDATE that names the time in place of the booking.
CancelBooking_ByTime(b) ==
    /\ Ops \cap {"client_cancel", "admin_cancel"} # {}
    /\ row[b].status \in ACTIVE_BOOKING_STATUSES
    /\ row' = [c \in Booking |-> IF IsActive(c) /\ row[c].start = row[b].start
                                 THEN [row[c] EXCEPT !.status = "cancelled"] ELSE row[c]]
    /\ UNCHANGED <<active, lock, pc, job>>

\* _cancel_booking and AdminBookingViewSet.cancel
CancelBooking(b) ==
    /\ Ops \cap {"client_cancel", "admin_cancel"} # {}
    /\ row[b].status \in ACTIVE_BOOKING_STATUSES
    /\ row' = [row EXCEPT ![b].status = "cancelled"]
    /\ UNCHANGED <<active, lock, pc, job>>

\* AdminBookingViewSet.destroy: a hard delete
Destroy(b) ==
    /\ "destroy" \in Ops
    /\ row[b].status \notin {"absent", "deleted"}
    /\ row' = [row EXCEPT ![b] = [NoRow EXCEPT !.status = "deleted"]]
    /\ UNCHANGED <<active, lock, pc, job>>

\* Mutant: a payment confirms the booking whatever became of it.
Webhook_AnyStatus(b) ==
    /\ "webhook" \in Ops
    /\ row[b].bog_order_id
    /\ row' = [row EXCEPT ![b].status = "confirmed"]
    /\ UNCHANGED <<active, lock, pc, job>>

\* process_webhook, which settles a pending card booking either way
Webhook(b) ==
    /\ "webhook" \in Ops
    /\ row[b].bog_order_id /\ row[b].status = "pending"
    /\ \E status \in {"confirmed", "cancelled"} :
         row' = [row EXCEPT ![b].status = status]
    /\ UNCHANGED <<active, lock, pc, job>>

\* _create_recurring_bookings_for_tenant inserts a confirmed booking, without
\* looking at the calendar and without the buffer.
RecurringInsert(b) ==
    /\ "recurring" \in Ops
    /\ Fresh(b)
    /\ \E svc \in Service, s \in Staff \cup {NoStaff}, t \in Start :
         row' = [row EXCEPT ![b] = [NewRow(svc, s, t, "confirmed", "cash")
                                    EXCEPT !.end = add_minutes_to_time(t, Duration[svc])]]
    /\ UNCHANGED <<active, lock, pc, job>>

\* toggle_active saves the opposite of what it read, which may be out of date.
ToggleActive(s) ==
    /\ "toggle_active" \in Ops
    /\ \E on \in BOOLEAN : active' = [active EXCEPT ![s] = on]
    /\ UNCHANGED <<row, lock, pc, job>>

----------------------------------------------------------------------------

Init ==
    /\ row = [b \in Booking |-> NoRow]
    /\ active = [s \in Staff |-> TRUE]
    /\ lock = [s \in Staff |-> NoRequest]
    /\ pc = [r \in Request |-> "idle"]
    /\ job = [r \in Request |-> NoJob]

Place(r) ==
    \/ ClientCreate(r)
    \/ AdminCreate(r)
    \/ Reschedule(r, "client_reschedule")
    \/ Reschedule(r, "admin_reschedule")
    \/ AssignStaff(r)

Progress(r) ==
    \/ LockNext(r)
    \/ Check(r)
    \/ Refuse(r)
    \/ Commit(r)
    \/ PaymentStarted(r)
    \/ PaymentInitFailed(r)
    \/ SaveBooking(r)

Next ==
    \/ \E r \in Request :
         \/ Place(r)
         \/ \E op \in StatusOps : ReadBooking(r, op)
         \/ Progress(r)
         \/ Crash(r)
    \/ \E b \in Booking : CancelBooking(b) \/ Destroy(b) \/ Webhook(b) \/ RecurringInsert(b)
    \/ \E s \in Staff : ToggleActive(s)

Spec == Init /\ [][Next]_vars

\* PostgreSQL queues the waiters of a row lock in order, so a waiting
\* transaction is served again and again until it gets the row; a running
\* handler is not suspended for ever.
Fairness ==
    \A r \in Request : SF_vars(LockNext(r)) /\ WF_vars(Progress(r))

FairSpec == Spec /\ Fairness

----------------------------------------------------------------------------
(* Properties *)

TypeOK ==
    /\ row \in [Booking -> Row]
    /\ active \in [Staff -> BOOLEAN]
    /\ lock \in [Staff -> Request \cup {NoRequest}]
    /\ pc \in [Request -> Control]
    /\ job \in [Request -> Job \cup {NoJob}]
    /\ \A r \in Request : pc[r] # "idle" => job[r] \in Job

\* What booking b has of the staff calendar.
SlotOf(b) ==
    IF IsActive(b)
    THEN [phase |-> "held", staff |-> row[b].staff, start |-> row[b].start, end |-> row[b].end]
    ELSE [phase |-> IF row[b].status = "absent" THEN "new" ELSE "over",
          staff |-> NoStaff, start |-> 0, end |-> 0]

Calendar == INSTANCE StaffCalendar WITH calendar <- [b \in Booking |-> SlotOf(b)]

\* Every step of the handlers is a step of the staff calendar or leaves it alone:
\* a slot is only ever taken while it is free, and an ended booking stays ended,
\* whatever the interleaving of the requests.
ImplementsCalendar == Calendar!Spec

Overlap(x, y) == x.start < y.end /\ y.start < x.end

\* No two bookings that occupy time are given overlapping times of one staff
\* member: the promise of the lock-and-check-again in _create_booking and the
\* handlers that use the same lock.
NoDoubleBooking ==
    \A b, c \in Booking :
        /\ b # c /\ IsActive(b) /\ IsActive(c)
        /\ row[b].staff # NoStaff
        /\ row[b].staff = row[c].staff
        => ~Overlap(row[b], row[c])

\* Two transactions never wait for each other's BookingStaff rows, because
\* every handler locks them in primary-key order.
NoCircularWait ==
    \A q, r \in Request, s, t \in Staff :
        ~(/\ q # r
          /\ pc[q] = "locking" /\ pc[r] = "locking"
          /\ s \in Missing(q) /\ lock[s] = r
          /\ t \in Missing(r) /\ lock[t] = q
          /\ \A u \in Missing(q) : s <= u
          /\ \A u \in Missing(r) : t <= u)

\* A booking that is over (completed, cancelled, no-show) or deleted never takes
\* time on the calendar again: the handlers refuse to act on one, and must not
\* bring it back with a save that was decided before it ended.
FinalStaysFinal ==
    [][\A b \in Booking :
         row[b].status \in FINAL_BOOKING_STATUSES \cup {"deleted"}
            => row'[b].status \notin ACTIVE_BOOKING_STATUSES]_vars

\* A request that has started ends: no handler waits for ever on a lock.
RequestsEnd == \A r \in Request : pc[r] # "idle" ~> pc[r] = "idle"

\* An active booking lies inside the working hours of its staff member, who
\* provides the service.
InWorkingHours ==
    \A b \in Booking :
        IsActive(b) /\ row[b].staff # NoStaff =>
            /\ row[b].staff \in Members[row[b].service]
            /\ row[b].end = row[b].start + total_duration_minutes(row[b].service)
            /\ _fits_working_hours(row[b].staff, row[b].start,
                                   total_duration_minutes(row[b].service))

=============================================================================
