------------------------ MODULE BookingScheduleProofs ------------------------
(***************************************************************************)
(* Proofs about BookingSchedule, for any number of bookings, staff members,*)
(* services and workers and any working hours.                             *)
(***************************************************************************)
EXTENDS BookingSchedule, WellFoundedInduction, TLAPS

\* A nonempty set of staff members has a first one by primary key, so
\* find_available_staff's order_by picks somebody.
LEMMA LeastStaff ==
    ASSUME NEW S \in SUBSET Nat, S # {}
    PROVE  \E s \in S : \A u \in S : s <= u
<1>1. PICK s \in S : \A u \in S : ~(<<u, s>> \in OpToRel(<, Nat))
  BY NatLessThanWellFounded, WFMin
<1>2. SUFFICES ASSUME NEW u \in S, u < s PROVE FALSE
  OBVIOUS
<1>3. <<u, s>> \in Nat \X Nat /\ <<u, s>>[1] < <<u, s>>[2]
  BY <1>2
<1>4. <<u, s>> \in OpToRel(<, Nat)
  BY ONLY <1>3, Zenon DEF OpToRel
<1> QED
  BY <1>1, <1>4

\* A time of day plus a length is a time, and no wrap happens before midnight.
LEMMA AddMinutes ==
    ASSUME NEW t \in Nat, NEW m \in Nat
    PROVE  /\ add_minutes_to_time(t, m) \in Nat
           /\ t + m < DayMinutes => add_minutes_to_time(t, m) = t + m
BY ClockAssumption DEF add_minutes_to_time

LEMMA TotalDuration ==
    ASSUME NEW svc \in Service
    PROVE  total_duration_minutes(svc) \in Nat
BY ServiceAssumption DEF total_duration_minutes

\* find_available_staff returns an active provider with a free slot, or None.
LEMMA FoundStaff ==
    ASSUME NEW svc \in Service, NEW t, NEW exclude, NEW grid
    PROVE  /\ find_available_staff(svc, t, exclude, grid) \in Staff \cup {NoStaff}
           /\ find_available_staff(svc, t, exclude, grid) # NoStaff =>
                find_available_staff(svc, t, exclude, grid)
                  \in AvailableStaff(svc, t, exclude, grid)
<1> DEFINE free == AvailableStaff(svc, t, exclude, grid)
<1>1. free \subseteq Staff
  BY ServiceAssumption DEF AvailableStaff
<1>2. free \in SUBSET Nat
  BY <1>1, StaffAssumption
<1>3. CASE free = {}
  BY <1>3 DEF find_available_staff
<1>4. CASE free # {}
  <2>1. \E s \in free : \A u \in free : s <= u
    BY <1>2, <1>4, LeastStaff
  <2>2. find_available_staff(svc, t, exclude, grid) \in free
    BY <1>4, <2>1 DEF find_available_staff
  <2> QED
    BY <2>2, <1>1, StaffAssumption
<1> QED
  BY <1>3, <1>4

----------------------------------------------------------------------------
(* Type correctness *)

LEMMA NewRowType ==
    ASSUME NEW svc \in Service, NEW s \in Staff \cup {NoStaff}, NEW t \in Start,
           NEW status \in {"pending", "confirmed"}, NEW method \in {"cash", "card"}
    PROVE  NewRow(svc, s, t, status, method) \in Row
<1>1. t \in Nat
  BY ClockAssumption
<1>2. add_minutes_to_time(t, total_duration_minutes(svc)) \in Nat
  BY <1>1, AddMinutes, TotalDuration
<1> QED
  BY <1>1, <1>2 DEF NewRow, Row, Status, ACTIVE_BOOKING_STATUSES

LEMMA NoRowType == NoRow \in Row
BY ServiceAssumption DEF NoRow, Row, Status

LEMMA JobFields ==
    ASSUME NEW j \in Job
    PROVE  /\ j.op \in AllOps /\ j.id \in Booking /\ j.obj \in Row
           /\ j.obj.service \in Service /\ j.obj.start \in Nat /\ j.obj.end \in Nat
           /\ j.staff \in Staff \cup {NoStaff} /\ j.start \in Nat
BY DEF Job, Row

LEMMA ChosenType ==
    ASSUME NEW j \in Job
    PROVE  Chosen(j) \in Staff \cup {NoStaff}
<1>1. /\ j.staff \in Staff \cup {NoStaff}
      /\ find_available_staff(j.obj.service, j.start, {}, FALSE) \in Staff \cup {NoStaff}
      /\ find_available_staff(j.obj.service, j.start, {j.id}, TRUE) \in Staff \cup {NoStaff}
  BY JobFields, FoundStaff
<1> QED
  BY <1>1 DEF Chosen

LEMMA SavedType ==
    ASSUME TypeOK, NEW j \in Job
    PROVE  Saved(j) \in Row
<1>1. /\ j.obj \in Row /\ row[j.id] \in Row
      /\ j.staff \in Staff \cup {NoStaff} /\ j.start \in Nat
  BY JobFields DEF TypeOK
<1>2. add_minutes_to_time(j.start, total_duration_minutes(j.obj.service)) \in Nat
  BY JobFields, AddMinutes, TotalDuration
<1> QED
  BY <1>1, <1>2 DEF Saved, Row

LEMMA UpdatedType ==
    ASSUME TypeOK, NEW b \in Booking, NEW new \in Row
    PROVE  Updated(b, new) \in [Booking -> Row]
BY DEF TypeOK, Updated

LEMMA BeginType ==
    ASSUME TypeOK, NEW r \in Request, NEW j \in Job, NEW where \in Control, Begin(r, j, where)
    PROVE  TypeOK'
BY DEF Begin, TypeOK

LEMMA UnlockedType ==
    ASSUME TypeOK, NEW r
    PROVE  Unlocked(r) \in [Staff -> Request \cup {NoRequest}]
BY DEF TypeOK, Unlocked

LEMMA FinishType ==
    ASSUME TypeOK, NEW r \in Request, Finish(r)
    PROVE  /\ pc' \in [Request -> Control]
           /\ job' \in [Request -> Job \cup {NoJob}]
           /\ \A q \in Request : pc'[q] # "idle" => job'[q] \in Job
BY DEF TypeOK, Finish, Control

LEMMA TypeStep ==
    ASSUME TypeOK, [Next]_vars
    PROVE  TypeOK'
<1> USE DEF TypeOK
<1>1. ASSUME NEW r \in Request, ClientCreate(r)
      PROVE  TypeOK'
  <2>1. PICK b \in Booking, svc \in Service, t \in Start, method \in {"cash", "card"},
             s \in Staff \cup {NoStaff}, auto \in BOOLEAN :
               Begin(r, [op |-> "client_create", id |-> b,
                         obj |-> NewRow(svc, s, t, "pending", method),
                         staff |-> s, start |-> t, auto_assign_staff |-> auto], "locking")
    BY <1>1 DEF ClientCreate
  <2>2. NewRow(svc, s, t, "pending", method) \in Row /\ t \in Nat
    BY NewRowType, ClockAssumption
  <2> QED
    BY <2>1, <2>2, BeginType DEF Job, AllOps, PlacingOps, Control
<1>2. ASSUME NEW r \in Request, AdminCreate(r)
      PROVE  TypeOK'
  <2>1. PICK b \in Booking, svc \in Service, t \in Start, s \in Staff,
             status \in {"pending", "confirmed"} :
               Begin(r, [op |-> "admin_create", id |-> b,
                         obj |-> NewRow(svc, s, t, status, "cash"),
                         staff |-> s, start |-> t, auto_assign_staff |-> FALSE], "locking")
    BY <1>2 DEF AdminCreate
  <2>2. NewRow(svc, s, t, status, "cash") \in Row /\ t \in Nat
    BY NewRowType, ClockAssumption
  <2> QED
    BY <2>1, <2>2, BeginType DEF Job, AllOps, PlacingOps, Control
<1>3. ASSUME NEW r \in Request, NEW op \in Reschedules, Reschedule(r, op)
      PROVE  TypeOK'
  <2>1. PICK b \in Booking, t \in Start :
               Begin(r, [op |-> op, id |-> b, obj |-> row[b], staff |-> row[b].staff,
                         start |-> t, auto_assign_staff |-> FALSE], "locking")
    BY <1>3 DEF Reschedule
  <2>2. row[b] \in Row /\ row[b].staff \in Staff \cup {NoStaff} /\ t \in Nat
    BY ClockAssumption DEF Row
  <2> QED
    BY <2>1, <2>2, BeginType DEF Job, AllOps, PlacingOps, Control
<1>4. ASSUME NEW r \in Request, AssignStaff(r)
      PROVE  TypeOK'
  <2>1. PICK b \in Booking, s \in Staff :
               Begin(r, [op |-> "assign_staff", id |-> b, obj |-> row[b], staff |-> s,
                         start |-> row[b].start, auto_assign_staff |-> FALSE], "locking")
    BY <1>4 DEF AssignStaff
  <2>2. row[b] \in Row /\ row[b].start \in Nat
    BY DEF Row
  <2> QED
    BY <2>1, <2>2, BeginType DEF Job, AllOps, PlacingOps, Control
<1>5. ASSUME NEW r \in Request, NEW op \in StatusOps, ReadBooking(r, op)
      PROVE  TypeOK'
  <2>1. PICK b \in Booking :
               Begin(r, [op |-> op, id |-> b, obj |-> row[b], staff |-> row[b].staff,
                         start |-> row[b].start, auto_assign_staff |-> FALSE], "read")
    BY <1>5 DEF ReadBooking
  <2>2. row[b] \in Row /\ row[b].start \in Nat /\ row[b].staff \in Staff \cup {NoStaff}
    BY DEF Row
  <2> QED
    BY <2>1, <2>2, BeginType DEF Job, AllOps, Control
<1>6. ASSUME NEW r \in Request, LockNext(r)
      PROVE  TypeOK'
  BY <1>6 DEF LockNext
<1>7. ASSUME NEW r \in Request, Check(r)
      PROVE  TypeOK'
  <2>1. job[r] \in Job
    BY <1>7 DEF Check
  <2>2. [job[r] EXCEPT !.staff = Chosen(job[r])] \in Job
    BY <2>1, ChosenType DEF Job
  <2> QED
    BY <1>7, <2>2 DEF Check, Control
<1>8. ASSUME NEW r \in Request, Refuse(r)
      PROVE  TypeOK'
  BY <1>8, UnlockedType, FinishType DEF Refuse
<1>9. ASSUME NEW r \in Request, Commit(r)
      PROVE  TypeOK'
  <2>1. job[r] \in Job
    BY <1>9 DEF Commit
  <2>2. Updated(job[r].id, Saved(job[r])) \in [Booking -> Row]
    BY <2>1, SavedType, UpdatedType, JobFields
  <2>3. CASE Finish(r)
    BY <1>9, <2>2, <2>3, UnlockedType, FinishType DEF Commit
  <2>4. CASE pc' = [pc EXCEPT ![r] = "paying"] /\ UNCHANGED job
    BY <1>9, <2>1, <2>2, <2>4, UnlockedType DEF Commit, Control
  <2> QED
    BY <1>9, <2>3, <2>4 DEF Commit
<1>10. ASSUME NEW r \in Request, PaymentStarted(r) \/ PaymentInitFailed(r)
       PROVE  TypeOK'
  <2>1. job[r].id \in Booking /\ row[job[r].id] \in Row
    BY <1>10, JobFields DEF PaymentStarted, PaymentInitFailed
  <2>2. /\ [row[job[r].id] EXCEPT !.bog_order_id = TRUE] \in Row
        /\ [row[job[r].id] EXCEPT !.status = "cancelled"] \in Row
    BY <2>1 DEF Row, Status, FINAL_BOOKING_STATUSES
  <2>3. row' \in [Booking -> Row]
    BY <1>10, <2>1, <2>2, UpdatedType DEF PaymentStarted, PaymentInitFailed
  <2> QED
    BY <1>10, <2>3, FinishType DEF PaymentStarted, PaymentInitFailed
<1>11. ASSUME NEW r \in Request, SaveBooking(r)
       PROVE  TypeOK'
  <2>1. job[r].id \in Booking /\ row[job[r].id] \in Row /\ job[r].obj \in Row
    BY <1>11, JobFields DEF SaveBooking
  <2>2. SavedStatus(job[r]) \in Row
    BY <2>1 DEF SavedStatus, Row, Status, FINAL_BOOKING_STATUSES, ACTIVE_BOOKING_STATUSES
  <2>3. row' \in [Booking -> Row]
    BY <1>11, <2>1, <2>2, UpdatedType DEF SaveBooking
  <2> QED
    BY <1>11, <2>3, FinishType DEF SaveBooking
<1>12. ASSUME NEW r \in Request, Crash(r)
       PROVE  TypeOK'
  BY <1>12, UnlockedType, FinishType DEF Crash
<1>13. ASSUME NEW b \in Booking, CancelBooking(b) \/ Webhook(b)
       PROVE  TypeOK'
  <2>1. PICK status \in Status : row' = [row EXCEPT ![b].status = status]
    BY <1>13 DEF CancelBooking, Webhook, Status, FINAL_BOOKING_STATUSES,
                 ACTIVE_BOOKING_STATUSES
  <2>2. row' \in [Booking -> Row]
    BY <2>1 DEF Row
  <2> QED
    BY <1>13, <2>2 DEF CancelBooking, Webhook
<1>14. ASSUME NEW b \in Booking, Destroy(b)
       PROVE  TypeOK'
  <2>1. [NoRow EXCEPT !.status = "deleted"] \in Row
    BY NoRowType DEF Row, Status
  <2> QED
    BY <1>14, <2>1 DEF Destroy
<1>15. ASSUME NEW b \in Booking, RecurringInsert(b)
       PROVE  TypeOK'
  <2>1. PICK svc \in Service, s \in Staff \cup {NoStaff}, t \in Start :
         row' = [row EXCEPT ![b] = [NewRow(svc, s, t, "confirmed", "cash")
                                    EXCEPT !.end = add_minutes_to_time(t, Duration[svc])]]
    BY <1>15 DEF RecurringInsert
  <2>2. add_minutes_to_time(t, Duration[svc]) \in Nat
    BY AddMinutes, ServiceAssumption, ClockAssumption
  <2>3. NewRow(svc, s, t, "confirmed", "cash") \in Row
    BY NewRowType
  <2>4. [NewRow(svc, s, t, "confirmed", "cash")
           EXCEPT !.end = add_minutes_to_time(t, Duration[svc])] \in Row
    BY <2>2, <2>3 DEF Row
  <2> QED
    BY <1>15, <2>1, <2>4 DEF RecurringInsert
<1>16. ASSUME NEW s \in Staff, ToggleActive(s)
       PROVE  TypeOK'
  BY <1>16 DEF ToggleActive
<1>17. CASE UNCHANGED vars
  BY <1>17 DEF vars
<1> QED
  BY <1>1, <1>2, <1>3, <1>4, <1>5, <1>6, <1>7, <1>8, <1>9, <1>10, <1>11, <1>12, <1>13,
     <1>14, <1>15, <1>16, <1>17 DEF Next, Place, Progress, Reschedules

\* The tables and the requests' memory keep their types through every handler.
THEOREM TypeCorrect == Spec => []TypeOK
<1>1. Init => TypeOK
  BY NoRowType DEF Init, TypeOK, Control
<1>2. TypeOK /\ [Next]_vars => TypeOK'
  BY TypeStep
<1> QED
  BY <1>1, <1>2, PTL DEF Spec

----------------------------------------------------------------------------
(* No deadlock on the BookingStaff rows *)

InTransaction == {"locking", "checked"}

\* Only a request inside its transaction holds locks, and the rows it holds come
\* before every row it still has to lock.
LockOrder ==
    \A r \in Request, s \in Staff :
        lock[s] = r =>
            /\ pc[r] \in InTransaction
            /\ pc[r] = "locking" => \A t \in Missing(r) : s < t

LEMMA NeededType ==
    ASSUME NEW j \in Job
    PROVE  Needed(j) \subseteq Staff
BY JobFields, ServiceAssumption DEF Needed

\* A request whose control, memory and locks a step leaves alone keeps its order.
LEMMA LockOrderFrame ==
    ASSUME LockOrder, TypeOK,
           \A r \in Request, s \in Staff : lock'[s] = r =>
               lock[s] = r /\ pc'[r] = pc[r] /\ job'[r] = job[r]
                 /\ \A t \in Staff : lock[t] = r => lock'[t] = r
    PROVE  LockOrder'
BY DEF LockOrder, Missing, Held, Needed, TypeOK

\* Every handler that starts a request does so with Begin.
LEMMA StartsWithBegin ==
    ASSUME NEW r, Place(r) \/ \E op \in StatusOps : ReadBooking(r, op)
    PROVE  \E j, where : Begin(r, j, where)
BY DEF Place, ClientCreate, AdminCreate, Reschedule, AssignStaff, ReadBooking

LEMMA LockOrderStep ==
    ASSUME LockOrder, TypeOK, [Next]_vars
    PROVE  LockOrder'
<1> USE DEF TypeOK
<1>1. ASSUME NEW r \in Request, NEW j, NEW where, Begin(r, j, where)
      PROVE  LockOrder'
  <2>1. \A s \in Staff : lock[s] # r
    BY <1>1 DEF Begin, LockOrder, InTransaction
  <2> QED
    BY <1>1, <2>1, LockOrderFrame DEF Begin
<1>2. ASSUME NEW r \in Request, Place(r) \/ \E op \in StatusOps : ReadBooking(r, op)
      PROVE  LockOrder'
  BY <1>1, <1>2, StartsWithBegin
<1>3. ASSUME NEW r \in Request, LockNext(r)
      PROVE  LockOrder'
  <2>1. PICK s \in Missing(r) : /\ \A u \in Missing(r) : s <= u
                                /\ lock[s] = NoRequest
                                /\ lock' = [lock EXCEPT ![s] = r]
    BY <1>3 DEF LockNext
  <2>2. Missing(r) \subseteq Staff /\ Staff \subseteq Nat /\ pc[r] = "locking"
    BY <1>3, NeededType, StaffAssumption DEF LockNext, Missing
  <2>3. Missing(r)' = Missing(r) \ {s}
    BY <1>3, <2>1, <2>2 DEF LockNext, Missing, Held, Needed
  <2>4. \A q \in Request : q # r => Missing(q)' = Missing(q)
    BY <1>3, <2>1, <2>2, StaffAssumption DEF LockNext, Missing, Held, Needed
  <2>5. ASSUME NEW q \in Request, NEW t \in Staff, lock'[t] = q
        PROVE  /\ pc'[q] \in InTransaction
               /\ pc'[q] = "locking" => \A u \in Missing(q)' : t < u
    <3>1. CASE q = r /\ t = s
      <4>1. \A u \in Missing(r) \ {s} : s \in Nat /\ u \in Nat /\ s <= u /\ s # u
        BY <2>1, <2>2
      <4>2. \A u \in Missing(r) \ {s} : s < u
        BY <4>1
      <4> QED
        BY <1>3, <2>2, <2>3, <3>1, <4>2 DEF LockNext, InTransaction
    <3>2. CASE q = r /\ t # s
      BY <1>3, <2>1, <2>2, <2>3, <2>5, <3>2 DEF LockNext, LockOrder
    <3>3. CASE q # r
      BY <1>3, <2>1, <2>2, <2>4, <2>5, <3>3 DEF LockNext, LockOrder
    <3> QED
      BY <3>1, <3>2, <3>3
  <2> QED
    BY <2>5 DEF LockOrder
<1>4. ASSUME NEW r \in Request, Check(r)
      PROVE  LockOrder'
  <2>1. \A q \in Request : q # r => Missing(q)' = Missing(q)
    BY <1>4 DEF Check, Missing, Held, Needed
  <2> QED
    BY <1>4, <2>1 DEF Check, LockOrder, InTransaction
<1>5. ASSUME NEW r \in Request, lock' = Unlocked(r),
             \A q \in Request : q # r => pc'[q] = pc[q] /\ job'[q] = job[q]
      PROVE  LockOrder'
  BY <1>5, LockOrderFrame, StaffAssumption DEF Unlocked
<1>6. ASSUME NEW r \in Request, Refuse(r) \/ Commit(r) \/ Crash(r)
      PROVE  LockOrder'
  BY <1>5, <1>6 DEF Refuse, Commit, Crash, Finish
<1>7. ASSUME NEW r \in Request, PaymentStarted(r) \/ PaymentInitFailed(r) \/ SaveBooking(r)
      PROVE  LockOrder'
  <2>1. \A s \in Staff : lock[s] # r
    BY <1>7 DEF PaymentStarted, PaymentInitFailed, SaveBooking, LockOrder, InTransaction
  <2> QED
    BY <1>7, <2>1, LockOrderFrame DEF PaymentStarted, PaymentInitFailed, SaveBooking, Finish
<1>8. ASSUME UNCHANGED <<lock, pc, job>>
      PROVE  LockOrder'
  BY <1>8, LockOrderFrame
<1> QED
  BY <1>2, <1>3, <1>4, <1>6, <1>7, <1>8
     DEF Next, Progress, CancelBooking, Destroy, Webhook, RecurringInsert, ToggleActive, vars

LEMMA LockOrderHolds == Spec => []LockOrder
<1>1. Init => LockOrder
  BY StaffAssumption DEF Init, LockOrder
<1>2. LockOrder /\ TypeOK /\ [Next]_vars => LockOrder'
  BY LockOrderStep
<1> QED
  BY <1>1, <1>2, TypeCorrect, PTL DEF Spec

\* Two transactions never wait for each other's BookingStaff rows: both take
\* them in primary-key order.
THEOREM NoDeadlock == Spec => []NoCircularWait
<1>1. TypeOK /\ LockOrder => NoCircularWait
  <2> SUFFICES ASSUME TypeOK, LockOrder,
                      NEW q \in Request, NEW r \in Request, NEW s \in Staff, NEW t \in Staff,
                      pc[q] = "locking", pc[r] = "locking",
                      s \in Missing(q), lock[s] = r, t \in Missing(r), lock[t] = q
               PROVE  FALSE
    BY DEF NoCircularWait
  <2>1. t < s /\ s < t
    BY DEF LockOrder
  <2>2. t \in Nat /\ s \in Nat
    BY StaffAssumption
  <2> QED
    BY <2>1, <2>2
<1> QED
  BY <1>1, TypeCorrect, LockOrderHolds, PTL

----------------------------------------------------------------------------
(* No double booking, when only handlers that respect the lock run *)

\* Without the handlers that save what they decided outside the lock: confirm,
\* check_in and PATCH (status or whole row), the recurring-booking task, and
\* a reassignment racing a reschedule of the same booking.
LockGuarded ==
    /\ Ops \cap {"confirm", "check_in", "patch", "recurring"} = {}
    /\ "assign_staff" \in Ops => Ops \cap Reschedules = {}

CreateOps == {"client_create", "admin_create"}
MoveOps   == Reschedules \cup {"assign_staff"}

Creating(r) == pc[r] \in InTransaction /\ job[r].op \in CreateOps
Moving(r)   == pc[r] \in InTransaction /\ job[r].op \in MoveOps

\* x occupies time its staff member works, and who provides the service.
Placed(x) ==
    /\ x.staff \in Members[x.service]
    /\ x.end = x.start + total_duration_minutes(x.service)
    /\ _fits_working_hours(x.staff, x.start, total_duration_minutes(x.service))

\* The staff member and the time a request has chosen go together.
WellChosen(j) ==
    /\ j.staff \in Members[j.obj.service]
    /\ _fits_working_hours(j.staff, j.start, total_duration_minutes(j.obj.service))

RowsPlaced == \A b \in Booking : row[b].status \notin {"absent", "deleted"} => Placed(row[b])

\* Where a request can be with which operation, and that only a create works
\* on a booking that is not in the table yet.
JobsKnown ==
    \A r \in Request : pc[r] # "idle" =>
        /\ job[r].op \in Ops
        /\ pc[r] = "read" => job[r].op \in {"complete", "no_show", "sweep"}
        /\ pc[r] = "paying" => job[r].op = "client_create"
        /\ pc[r] \in InTransaction => job[r].op \in PlacingOps
        /\ ~Creating(r) => row[job[r].id].status # "absent"

\* The unsaved instance a create holds is well formed, and its key is its own.
CreateFresh(r) ==
    /\ row[job[r].id].status = "absent"
    /\ job[r].obj.status \in {"pending", "confirmed"}
    /\ job[r].obj.start = job[r].start
    /\ job[r].obj.end = add_minutes_to_time(job[r].start,
                                            total_duration_minutes(job[r].obj.service))
    /\ job[r].staff = NoStaff => job[r].op = "client_create" /\ pc[r] = "locking"
    /\ job[r].staff # NoStaff => WellChosen(job[r])
    /\ \A q \in Request : q # r /\ Creating(q) => job[q].id # job[r].id

CreatesFresh == \A r \in Request : Creating(r) => CreateFresh(r)

\* What a reschedule or a reassignment read of the columns it relies on is
\* still what the table holds.
MoveAgrees(r) ==
    /\ job[r].staff \in Members[job[r].obj.service]
    /\ row[job[r].id].status # "deleted" =>
         /\ row[job[r].id].service = job[r].obj.service
         /\ IF job[r].op = "assign_staff" THEN row[job[r].id].start = job[r].start
            ELSE row[job[r].id].staff = job[r].staff
    /\ pc[r] = "checked" => WellChosen(job[r])

MovesAgree == \A r \in Request : Moving(r) => MoveAgrees(r)

\* Between the check and the save the slot stays free, under the lock of its
\* staff member.
SlotKept(r) ==
    /\ lock[job[r].staff] = r
    /\ ~is_slot_booked(job[r].staff, job[r].start,
                       total_duration_minutes(job[r].obj.service), {job[r].id})

SlotsKept == \A r \in Request : pc[r] = "checked" => SlotKept(r)

ScheduleInv ==
    /\ TypeOK
    /\ RowsPlaced
    /\ JobsKnown
    /\ CreatesFresh
    /\ MovesAgree
    /\ SlotsKept
    /\ NoDoubleBooking

\* A step of this kind places nothing: bookings stay where they are or end.
NothingPlaced ==
    \A b \in Booking :
        /\ row'[b].status = "absent" <=> row[b].status = "absent"
        /\ row[b].status = "deleted" => row'[b].status = "deleted"
        /\ row'[b].status \in ACTIVE_BOOKING_STATUSES => IsActive(b)
        /\ row'[b].status # "deleted" =>
             /\ row'[b].staff = row[b].staff /\ row'[b].service = row[b].service
             /\ row'[b].start = row[b].start /\ row'[b].end = row[b].end

\* ... and no request starts or gets further than it was.
NobodyAdvances ==
    \A r \in Request :
        /\ pc'[r] # "idle" => pc'[r] = pc[r] /\ job'[r] = job[r]
        /\ pc'[r] = "checked" => \A s \in Staff : lock[s] = r => lock'[s] = r

LEMMA QuietStep ==
    ASSUME ScheduleInv, NothingPlaced, NobodyAdvances
    PROVE  RowsPlaced' /\ JobsKnown' /\ CreatesFresh' /\ MovesAgree' /\ SlotsKept'
             /\ NoDoubleBooking'
<1> USE DEF ScheduleInv
<1>0. \A r \in Request : pc[r] # "idle" => job[r] \in Job /\ job[r].id \in Booking
  BY JobFields DEF TypeOK
<1>1. RowsPlaced'
  BY DEF RowsPlaced, Placed, NothingPlaced, _fits_working_hours
<1>2. JobsKnown'
  BY <1>0 DEF JobsKnown, NothingPlaced, NobodyAdvances, Creating
<1>3. CreatesFresh'
  BY <1>0 DEF CreatesFresh, CreateFresh, NothingPlaced, NobodyAdvances, Creating, InTransaction, WellChosen,
          _fits_working_hours, add_minutes_to_time
<1>4. MovesAgree'
  BY <1>0 DEF MovesAgree, MoveAgrees, NothingPlaced, NobodyAdvances, Moving, InTransaction, WellChosen,
          _fits_working_hours
<1>5. SlotsKept'
  <2> SUFFICES ASSUME NEW r \in Request, pc'[r] = "checked"
               PROVE  SlotKept(r)'
    BY DEF SlotsKept
  <2>1. pc[r] = "checked" /\ job'[r] = job[r] /\ SlotKept(r)
    BY DEF NobodyAdvances, SlotsKept
  <2>2. job[r].staff \in Staff
    BY <2>1, <1>0, JobFields, ServiceAssumption
       DEF JobsKnown, MovesAgree, MoveAgrees, CreatesFresh, CreateFresh, Creating, Moving, InTransaction, PlacingOps,
           CreateOps, MoveOps, WellChosen, Job, Row
  <2>3. lock'[job[r].staff] = r
    BY <2>1, <2>2 DEF NobodyAdvances, SlotKept
  <2>4. ~is_slot_booked(job[r].staff, job[r].start,
                        total_duration_minutes(job[r].obj.service), {job[r].id})'
    BY <2>1 DEF SlotKept, is_slot_booked, NothingPlaced, IsActive, ACTIVE_BOOKING_STATUSES,
           add_minutes_to_time
  <2> QED
    BY <2>1, <2>3, <2>4 DEF SlotKept
<1>6. NoDoubleBooking'
  BY DEF NoDoubleBooking, NothingPlaced, IsActive, Overlap, ACTIVE_BOOKING_STATUSES
<1> QED
  BY <1>1, <1>2, <1>3, <1>4, <1>5, <1>6

\* What a handler has made sure of when it opens its transaction (or, for the
\* status handlers, when it has read the booking).
GoodStart(j, where) ==
    \/ /\ where = "read"
       /\ j.op \in {"complete", "no_show", "sweep"}
       /\ row[j.id].status # "absent"
    \/ /\ where = "locking" /\ j.op \in CreateOps
       /\ Fresh(j.id)
       /\ j.obj.status \in {"pending", "confirmed"}
       /\ j.obj.start = j.start
       /\ j.obj.end = add_minutes_to_time(j.start, total_duration_minutes(j.obj.service))
       /\ IF j.staff = NoStaff THEN j.op = "client_create" ELSE WellChosen(j)
    \/ /\ where = "locking" /\ j.op \in MoveOps
       /\ row[j.id].status \notin {"absent", "deleted"}
       /\ row[j.id].service = j.obj.service
       /\ j.staff \in Members[j.obj.service]
       /\ IF j.op = "assign_staff" THEN row[j.id].start = j.start
          ELSE row[j.id].staff = j.staff

LEMMA BeginStep ==
    ASSUME ScheduleInv, NEW r \in Request, NEW j \in Job, NEW where,
           Begin(r, j, where), GoodStart(j, where)
    PROVE  RowsPlaced' /\ JobsKnown' /\ CreatesFresh' /\ MovesAgree' /\ SlotsKept'
             /\ NoDoubleBooking'
<1> USE DEF ScheduleInv
<1>0. /\ pc[r] = "idle" /\ j.op \in Ops
      /\ job' = [job EXCEPT ![r] = j] /\ pc' = [pc EXCEPT ![r] = where]
      /\ row' = row /\ lock' = lock
      /\ where \in {"read", "locking"}
      /\ \A q \in Request : q # r => pc'[q] = pc[q] /\ job'[q] = job[q]
      /\ pc'[r] = where /\ job'[r] = j
  BY DEF Begin, GoodStart, TypeOK
<1>1. RowsPlaced'
  BY <1>0 DEF RowsPlaced, Placed, _fits_working_hours
<1>2. JobsKnown'
  BY <1>0 DEF JobsKnown, GoodStart, Creating, InTransaction, PlacingOps, CreateOps, MoveOps,
          Reschedules
<1>3. CreatesFresh'
  <2> SUFFICES ASSUME NEW q \in Request, Creating(q)'
               PROVE  CreateFresh(q)'
    BY DEF CreatesFresh
  <2>1. CASE q = r
    <3>1. j.op \in CreateOps /\ where = "locking"
      BY <1>0, <2>1 DEF Creating, InTransaction
    <3>2. /\ Fresh(j.id) /\ j.obj.start = j.start
          /\ j.obj.end = add_minutes_to_time(j.start, total_duration_minutes(j.obj.service))
          /\ IF j.staff = NoStaff THEN j.op = "client_create" ELSE WellChosen(j)
          /\ j.obj.status \in {"pending", "confirmed"}
      BY <3>1 DEF GoodStart, CreateOps, MoveOps, Reschedules
    <3>4. \A p \in Request : p # q /\ Creating(p)' => job'[p].id # job'[q].id
      BY <1>0, <2>1, <3>2 DEF Fresh, Creating, InTransaction
    <3> QED
      BY <1>0, <2>1, <3>1, <3>2, <3>4
         DEF CreateFresh, Fresh, WellChosen, _fits_working_hours, add_minutes_to_time
  <2>2. CASE q # r
    <3>1. Creating(q)
      BY <1>0, <2>2 DEF Creating
    <3>2. \A p \in Request : p # q /\ Creating(p)' => job'[p].id # job'[q].id
      <4>1. Creating(r)' => j.id # job[q].id
        <5>1. Creating(r)' => Fresh(j.id)
          BY <1>0 DEF GoodStart, Creating, CreateOps, MoveOps, Reschedules, InTransaction
        <5> QED
          BY <5>1, <3>1 DEF Fresh, Creating, InTransaction
      <4>2. \A p \in Request : p # q /\ p # r /\ Creating(p)' => job[p].id # job[q].id
        BY <1>0, <3>1 DEF CreatesFresh, CreateFresh, Creating
      <4> QED
        BY <1>0, <2>2, <4>1, <4>2
    <3> QED
      BY <1>0, <2>2, <3>1, <3>2
         DEF CreatesFresh, CreateFresh, WellChosen, _fits_working_hours, add_minutes_to_time
  <2> QED
    BY <2>1, <2>2
<1>4. MovesAgree'
  BY <1>0 DEF MovesAgree, MoveAgrees, GoodStart, Moving, InTransaction, CreateOps, MoveOps, Reschedules,
          _fits_working_hours
<1>5. SlotsKept'
  BY <1>0 DEF SlotsKept, SlotKept, is_slot_booked, IsActive, add_minutes_to_time
<1>6. NoDoubleBooking'
  BY <1>0 DEF NoDoubleBooking, IsActive, Overlap
<1> QED
  BY <1>1, <1>2, <1>3, <1>4, <1>5, <1>6

\* The second look, under the locks, finds a staff member of the service who
\* works then, is free, and is locked.
LEMMA CheckedSlot ==
    ASSUME ScheduleInv, NEW r \in Request, Check(r)
    PROVE  LET j == job[r]
               s == Chosen(j)
           IN  /\ s \in Members[j.obj.service]
               /\ lock[s] = r
               /\ _fits_working_hours(s, j.start, total_duration_minutes(j.obj.service))
               /\ ~is_slot_booked(s, j.start, total_duration_minutes(j.obj.service), {j.id})
               /\ j.op # "client_create" => s = j.staff
<1> USE DEF ScheduleInv
<1> DEFINE j == job[r]
           svc == j.obj.service
           len == total_duration_minutes(svc)
<1>1. /\ j \in Job /\ svc \in Service /\ pc[r] = "locking" /\ Accepts(j)
      /\ Needed(j) \subseteq {s \in Staff : lock[s] = r}
      /\ j.op \in PlacingOps
      /\ Members[svc] \subseteq Staff
  BY JobFields, ServiceAssumption
     DEF Check, TypeOK, JobsKnown, InTransaction, Missing, Held
<1>2. /\ j.op \in CreateOps /\ j.staff # NoStaff =>
           j.staff \in Members[svc] /\ _fits_working_hours(j.staff, j.start, len)
      /\ j.op = "admin_create" => j.staff # NoStaff
      /\ j.op \in MoveOps => j.staff \in Members[svc]
  BY <1>1 DEF CreatesFresh, CreateFresh, Creating, MovesAgree, MoveAgrees, Moving,
              InTransaction, WellChosen, CreateOps
<1>3. ASSUME NEW s, NEW grid, check_staff_slot(svc, s, j.start, {j.id}, grid)
      PROVE  /\ _fits_working_hours(s, j.start, len)
             /\ ~is_slot_booked(s, j.start, len, {j.id})
  BY <1>3 DEF check_staff_slot
<1>4. ASSUME NEW s, ~is_slot_booked(s, j.start, len, {})
      PROVE  ~is_slot_booked(s, j.start, len, {j.id})
  BY <1>4 DEF is_slot_booked
<1>5. CASE j.op = "client_create"
  <2>1. Chosen(j) # NoStaff /\ Needed(j) = Members[svc]
    BY <1>1, <1>5 DEF Accepts, Needed
  <2>2. CASE j.staff # NoStaff /\ ~is_slot_booked(j.staff, j.start, len, {})
    <3>1. Chosen(j) = j.staff
      BY <1>5, <2>2 DEF Chosen
    <3> QED
      BY <1>1, <1>2, <1>4, <1>5, <2>1, <2>2, <3>1 DEF CreateOps
  <2>3. CASE j.staff = NoStaff \/ is_slot_booked(j.staff, j.start, len, {})
    <3>1. Chosen(j) = find_available_staff(svc, j.start, {}, FALSE)
      BY <1>5, <2>1, <2>3 DEF Chosen
    <3>2. Chosen(j) \in AvailableStaff(svc, j.start, {}, FALSE)
      <4>1. find_available_staff(svc, j.start, {}, FALSE) # NoStaff =>
              find_available_staff(svc, j.start, {}, FALSE)
                \in AvailableStaff(svc, j.start, {}, FALSE)
        BY <1>1, FoundStaff
      <4> QED
        BY <2>1, <3>1, <4>1
    <3>3. Chosen(j) \in Members[svc] /\ check_staff_slot(svc, Chosen(j), j.start, {}, FALSE)
      BY <3>2 DEF AvailableStaff
    <3>4. /\ _fits_working_hours(Chosen(j), j.start, len)
          /\ ~is_slot_booked(Chosen(j), j.start, len, {})
      BY <3>3 DEF check_staff_slot
    <3> QED
      BY <1>1, <1>4, <1>5, <2>1, <3>3, <3>4
  <2> QED
    BY <2>2, <2>3
<1>6. CASE j.op = "admin_create"
  <2>1. Chosen(j) = j.staff /\ ~is_slot_booked(j.staff, j.start, len, {})
    BY <1>1, <1>6 DEF Chosen, Accepts
  <2>2. j.staff \in Needed(j)
    BY <1>1, <1>2, <1>6, StaffAssumption DEF Needed, CreateOps
  <2> QED
    BY <1>1, <1>2, <1>4, <1>6, <2>1, <2>2 DEF CreateOps
<1>7. CASE j.op \in MoveOps
  <2>1. j.staff \in Members[svc] /\ j.staff # NoStaff
    BY <1>1, <1>2, <1>7, StaffAssumption
  <2>2. Chosen(j) = j.staff
    BY <1>7, <2>1 DEF Chosen, MoveOps, Reschedules
  <2>3. \E grid \in BOOLEAN : check_staff_slot(svc, j.staff, j.start, {j.id}, grid)
    BY <1>1, <1>7, <2>1 DEF Accepts, validate_booking_availability, MoveOps, Reschedules
  <2>4. j.staff \in Needed(j)
    BY <1>7, <2>1 DEF Needed, MoveOps, Reschedules
  <2> QED
    BY <1>1, <1>3, <1>7, <2>1, <2>2, <2>3, <2>4
<1> QED
  BY <1>1, <1>5, <1>6, <1>7 DEF PlacingOps, MoveOps

LEMMA CheckStep ==
    ASSUME ScheduleInv, NEW r \in Request, Check(r)
    PROVE  RowsPlaced' /\ JobsKnown' /\ CreatesFresh' /\ MovesAgree' /\ SlotsKept'
             /\ NoDoubleBooking'
<1> USE DEF ScheduleInv
<1> DEFINE j == job[r]
           s == Chosen(j)
<1>0. /\ j \in Job /\ j.obj \in Row /\ pc[r] = "locking"
      /\ row' = row /\ lock' = lock
      /\ pc' = [pc EXCEPT ![r] = "checked"]
      /\ job' = [job EXCEPT ![r].staff = s]
      /\ \A q \in Request : q # r => pc'[q] = pc[q] /\ job'[q] = job[q]
      /\ pc'[r] = "checked"
      /\ job'[r].staff = s /\ job'[r].op = j.op /\ job'[r].id = j.id
      /\ job'[r].obj = j.obj /\ job'[r].start = j.start
  BY JobFields DEF Check, TypeOK, Job
<1>1. /\ s \in Members[j.obj.service]
      /\ lock[s] = r
      /\ _fits_working_hours(s, j.start, total_duration_minutes(j.obj.service))
      /\ ~is_slot_booked(s, j.start, total_duration_minutes(j.obj.service), {j.id})
      /\ j.op # "client_create" => s = j.staff
  BY CheckedSlot
<1> HIDE DEF s
<1>2. RowsPlaced'
  BY <1>0 DEF RowsPlaced, Placed, _fits_working_hours
<1>3. \A q \in Request : /\ Creating(q)' <=> Creating(q)
                         /\ Moving(q)' <=> Moving(q)
                         /\ job'[q].id = job[q].id /\ job'[q].op = job[q].op
                         /\ job'[q].obj = job[q].obj /\ job'[q].start = job[q].start
  BY <1>0 DEF Creating, Moving, InTransaction
<1>4. JobsKnown'
  BY <1>0, <1>3 DEF JobsKnown, InTransaction
<1>5. CreatesFresh'
  <2> SUFFICES ASSUME NEW q \in Request, Creating(q)
               PROVE  CreateFresh(q)'
    BY <1>3 DEF CreatesFresh
  <2>1. CreateFresh(q) /\ row' = row
    BY <1>0 DEF CreatesFresh
  <2>2. \A p \in Request : p # q /\ Creating(p)' => job'[p].id # job'[q].id
    BY <1>3, <2>1 DEF CreateFresh
  <2>3. /\ job'[q].staff = NoStaff => job'[q].op = "client_create" /\ pc'[q] = "locking"
        /\ job'[q].staff # NoStaff => WellChosen(job'[q])
    <3>1. CASE q = r
      <4>1. s # NoStaff
        BY <1>0, <1>1, ServiceAssumption, StaffAssumption DEF Row
      <4> QED
        BY <1>0, <1>1, <3>1, <4>1 DEF WellChosen
    <3>2. CASE q # r
      BY <1>0, <2>1, <3>2 DEF CreateFresh
    <3> QED
      BY <3>1, <3>2
  <2>4. /\ row'[job'[q].id].status = "absent"
        /\ job'[q].obj.status \in {"pending", "confirmed"}
        /\ job'[q].obj.start = job'[q].start
        /\ job'[q].obj.end = add_minutes_to_time(job'[q].start,
                                                 total_duration_minutes(job'[q].obj.service))
    BY <1>3, <2>1 DEF CreateFresh
  <2> QED
    BY <2>2, <2>3, <2>4 DEF CreateFresh, WellChosen, _fits_working_hours, add_minutes_to_time
<1>6. MovesAgree'
  <2> SUFFICES ASSUME NEW q \in Request, Moving(q)
               PROVE  /\ job'[q].staff \in Members[job[q].obj.service]
                      /\ row[job[q].id].status # "deleted" =>
                           /\ row[job[q].id].service = job[q].obj.service
                           /\ IF job[q].op = "assign_staff"
                              THEN row[job[q].id].start = job[q].start
                              ELSE row[job[q].id].staff = job'[q].staff
                      /\ pc'[q] = "checked" => WellChosen(job'[q])
    BY <1>0, <1>3 DEF MovesAgree, MoveAgrees, WellChosen, _fits_working_hours
  <2>1. CASE q = r
    <3>1. s = j.staff
      BY <1>1, <2>1 DEF Moving, MoveOps, Reschedules
    <3> QED
      BY <1>0, <1>1, <2>1, <3>1 DEF MovesAgree, MoveAgrees, WellChosen
  <2>2. CASE q # r
    BY <1>0, <2>2 DEF MovesAgree, MoveAgrees
  <2> QED
    BY <2>1, <2>2
<1>7. SlotsKept'
  <2> SUFFICES ASSUME NEW q \in Request, pc'[q] = "checked"
               PROVE  SlotKept(q)'
    BY DEF SlotsKept
  <2>1. CASE q = r
    BY <1>0, <1>1, <2>1 DEF SlotKept, is_slot_booked, IsActive, add_minutes_to_time
  <2>2. CASE q # r
    BY <1>0, <2>2 DEF SlotsKept, SlotKept, is_slot_booked, IsActive, add_minutes_to_time
  <2> QED
    BY <2>1, <2>2
<1>8. NoDoubleBooking'
  BY <1>0 DEF NoDoubleBooking, IsActive, Overlap
<1> QED
  BY <1>2, <1>4, <1>5, <1>6, <1>7, <1>8

\* What the save of a create, a reschedule or a reassignment leaves in the table.
LEMMA CommittedRow ==
    ASSUME ScheduleInv, NEW r \in Request, Commit(r)
    PROVE  /\ job[r] \in Job /\ job[r].id \in Booking
           /\ \A b \in Booking : b # job[r].id => row'[b] = row[b]
           /\ row[job[r].id].status = "deleted" => row'[job[r].id] = row[job[r].id]
           /\ row[job[r].id].status # "deleted" =>
                /\ row'[job[r].id].staff = job[r].staff
                /\ row'[job[r].id].start = job[r].start
                /\ row'[job[r].id].end =
                     add_minutes_to_time(job[r].start, total_duration_minutes(job[r].obj.service))
                /\ row'[job[r].id].service = job[r].obj.service
                /\ Placed(row'[job[r].id])
                /\ IF job[r].op \in CreateOps
                   THEN row'[job[r].id].status \in {"pending", "confirmed"}
                   ELSE row'[job[r].id].status = row[job[r].id].status
<1> USE DEF ScheduleInv
<1> DEFINE j == job[r]
           old == row[j.id]
           len == total_duration_minutes(j.obj.service)
           end == add_minutes_to_time(j.start, len)
<1>1. /\ j \in Job /\ j.id \in Booking /\ j.obj \in Row /\ j.obj.service \in Service
      /\ j.staff \in Staff \cup {NoStaff} /\ j.start \in Nat
      /\ pc[r] = "checked" /\ j.op \in PlacingOps /\ old \in Row
  BY JobFields DEF Commit, TypeOK, JobsKnown, InTransaction
<1>2. /\ row' = [row EXCEPT ![j.id] = IF old.status = "deleted" THEN old ELSE Saved(j)]
      /\ \A b \in Booking : b # j.id => row'[b] = row[b]
      /\ row'[j.id] = IF old.status = "deleted" THEN old ELSE Saved(j)
  BY <1>1 DEF Commit, Updated, TypeOK
<1>3. len \in Nat /\ end \in Nat
  BY <1>1, TotalDuration, AddMinutes
<1>4. ASSUME NEW s \in Staff, _fits_working_hours(s, j.start, len)
      PROVE  end = j.start + len
  <2>1. j.start + len <= WorkEnd[s] /\ WorkEnd[s] < DayMinutes
    BY <1>4, ClockAssumption DEF _fits_working_hours
  <2>2. j.start + len < DayMinutes
    BY <2>1, <1>1, <1>3, ClockAssumption
  <2> QED
    BY <2>2, <1>1, <1>3, AddMinutes
<1>5. Members[j.obj.service] \subseteq Staff
  BY <1>1, ServiceAssumption
<1>6. CASE j.op \in CreateOps
  <2> DEFINE new == [j.obj EXCEPT !.staff = j.staff]
  <2>1. /\ old.status = "absent" /\ j.obj.status \in {"pending", "confirmed"}
        /\ j.obj.start = j.start /\ j.obj.end = end
        /\ j.staff \in Members[j.obj.service] /\ _fits_working_hours(j.staff, j.start, len)
    BY <1>1, <1>6 DEF CreatesFresh, CreateFresh, Creating, InTransaction, WellChosen
  <2>2. row'[j.id] = new
    BY <1>2, <1>6, <2>1 DEF Saved, CreateOps
  <2>3. /\ new.staff = j.staff /\ new.start = j.start /\ new.service = j.obj.service
        /\ new.status = j.obj.status /\ new.end = j.obj.end
    BY <1>1, <2>1 DEF Row
  <2>4. new.end = end /\ end = j.start + len
    BY <1>4, <1>5, <2>1, <2>3
  <2>5. Placed(new)
    BY <2>1, <2>3, <2>4 DEF Placed
  <2> HIDE DEF new
  <2> QED
    BY <1>1, <1>2, <1>6, <2>1, <2>2, <2>3, <2>4, <2>5
<1>7. CASE j.op \in MoveOps /\ old.status # "deleted"
  <2>1. /\ j.staff \in Members[j.obj.service] /\ old.service = j.obj.service
        /\ j.op = "assign_staff" => old.start = j.start
        /\ j.op # "assign_staff" => old.staff = j.staff
        /\ _fits_working_hours(j.staff, j.start, len)
        /\ old.status # "absent"
    BY <1>1, <1>7 DEF MovesAgree, MoveAgrees, Moving, InTransaction, JobsKnown, Creating, CreateOps,
           MoveOps, Reschedules, WellChosen
  <2>2. end = j.start + len
    BY <1>4, <1>5, <2>1
  <2>3. j.op = "assign_staff" => old.end = end
    BY <1>1, <1>7, <2>1, <2>2 DEF RowsPlaced, Placed
  <2>4. /\ row'[j.id].staff = j.staff /\ row'[j.id].start = j.start
        /\ row'[j.id].end = end /\ row'[j.id].service = j.obj.service
        /\ row'[j.id].status = old.status
    <3>1. row'[j.id] = Saved(j)
      BY <1>2, <1>7
    <3>2. CASE j.op = "client_reschedule"
      <4>1. Saved(j) = [old EXCEPT !.staff = j.staff, !.start = j.start, !.end = end]
        BY <3>2 DEF Saved
      <4> QED
        BY <1>1, <2>1, <3>1, <4>1 DEF Row
    <3>3. CASE j.op = "admin_reschedule"
      <4>1. Saved(j) = [old EXCEPT !.start = j.start, !.end = end]
        BY <3>3 DEF Saved
      <4> QED
        BY <1>1, <2>1, <3>1, <3>3, <4>1 DEF Row
    <3>4. CASE j.op = "assign_staff"
      <4>1. Saved(j) = [old EXCEPT !.staff = j.staff]
        BY <3>4 DEF Saved
      <4> QED
        BY <1>1, <2>1, <2>3, <3>1, <3>4, <4>1 DEF Row
    <3> QED
      BY <1>7, <3>2, <3>3, <3>4 DEF MoveOps, Reschedules
  <2>5. Placed(row'[j.id])
    BY <2>1, <2>2, <2>4 DEF Placed
  <2>6. j.op \notin CreateOps
    BY <1>7 DEF CreateOps, MoveOps, Reschedules
  <2> QED
    BY <1>1, <1>2, <1>7, <2>4, <2>5, <2>6
<1>8. CASE old.status = "deleted"
  BY <1>1, <1>2, <1>8
<1> QED
  BY <1>1, <1>6, <1>7, <1>8 DEF PlacingOps, CreateOps, MoveOps

LEMMA CommitStep ==
    ASSUME ScheduleInv, LockGuarded, NEW r \in Request, Commit(r)
    PROVE  RowsPlaced' /\ JobsKnown' /\ CreatesFresh' /\ MovesAgree' /\ SlotsKept'
             /\ NoDoubleBooking'
<1> USE DEF ScheduleInv
<1> DEFINE j == job[r]
           len == total_duration_minutes(j.obj.service)
<1>1. /\ pc[r] = "checked" /\ j.op \in PlacingOps /\ j.op \in Ops
      /\ \A q \in Request : q # r => pc'[q] = pc[q] /\ job'[q] = job[q]
      /\ \/ pc'[r] = "idle"
         \/ pc'[r] = "paying" /\ job'[r] = j /\ j.op = "client_create"
      /\ lock' = Unlocked(r)
      /\ \A q \in Request : pc[q] # "idle" => job[q] \in Job /\ job[q].id \in Booking
  BY JobFields DEF Commit, Finish, TypeOK, JobsKnown, InTransaction
<1>2. /\ j \in Job /\ j.id \in Booking
      /\ \A b \in Booking : b # j.id => row'[b] = row[b]
      /\ row[j.id].status = "deleted" => row'[j.id] = row[j.id]
      /\ row[j.id].status # "deleted" =>
           /\ row'[j.id].staff = j.staff
           /\ row'[j.id].start = j.start
           /\ row'[j.id].end = add_minutes_to_time(j.start, len)
           /\ row'[j.id].service = j.obj.service
           /\ Placed(row'[j.id])
           /\ IF j.op \in CreateOps
              THEN row'[j.id].status \in {"pending", "confirmed"}
              ELSE row'[j.id].status = row[j.id].status
  BY CommittedRow
<1>3. SlotKept(r) /\ (j.op \in CreateOps => row[j.id].status = "absent")
      /\ (j.op \notin CreateOps => row[j.id].status # "absent")
  BY <1>1 DEF SlotsKept, CreatesFresh, CreateFresh, Creating, InTransaction, JobsKnown
<1>4. \A b \in Booking : row'[b].status = "absent" => row[b].status = "absent"
  BY <1>2, <1>3
<1>5. row'[j.id].status # "absent"
  BY <1>2, <1>3
<1>6. RowsPlaced'
  <2>1. \A b \in Booking : row'[b].status \notin {"absent", "deleted"} => Placed(row'[b])
    BY <1>2 DEF RowsPlaced
  <2> QED
    BY <2>1 DEF RowsPlaced, Placed, _fits_working_hours
<1>7. JobsKnown'
  <2> SUFFICES ASSUME NEW q \in Request, pc'[q] # "idle"
               PROVE  /\ job'[q].op \in Ops
                      /\ pc'[q] = "read" => job'[q].op \in {"complete", "no_show", "sweep"}
                      /\ pc'[q] = "paying" => job'[q].op = "client_create"
                      /\ pc'[q] \in InTransaction => job'[q].op \in PlacingOps
                      /\ ~Creating(q)' => row'[job'[q].id].status # "absent"
    BY DEF JobsKnown
  <2>1. CASE q = r
    BY <1>1, <1>5, <2>1 DEF InTransaction
  <2>2. CASE q # r
    BY <1>1, <1>4, <2>2 DEF JobsKnown, Creating
  <2> QED
    BY <2>1, <2>2
<1>8. \A q \in Request : pc'[q] \in InTransaction => q # r /\ pc[q] # "idle"
  BY <1>1 DEF InTransaction
<1>9. CreatesFresh'
  <2> SUFFICES ASSUME NEW q \in Request, Creating(q)'
               PROVE  CreateFresh(q)'
    BY DEF CreatesFresh
  <2>1. q # r /\ job'[q] = job[q] /\ Creating(q) /\ job[q].id \in Booking
    BY <1>1, <1>8 DEF Creating
  <2>2. \A p \in Request : Creating(p)' => job'[p] = job[p] /\ Creating(p)
    BY <1>1, <1>8 DEF Creating
  <2>3. job[q].id # j.id
    BY <1>1, <1>3, <2>1 DEF CreatesFresh, CreateFresh, Creating, InTransaction
  <2> QED
    BY <1>1, <1>2, <2>1, <2>2, <2>3
       DEF CreatesFresh, CreateFresh, WellChosen, _fits_working_hours, add_minutes_to_time
<1>10. MovesAgree'
  <2> SUFFICES ASSUME NEW q \in Request, Moving(q)'
               PROVE  /\ job'[q].staff \in Members[job'[q].obj.service]
                      /\ row'[job'[q].id].status # "deleted" =>
                           /\ row'[job'[q].id].service = job'[q].obj.service
                           /\ IF job'[q].op = "assign_staff"
                              THEN row'[job'[q].id].start = job'[q].start
                              ELSE row'[job'[q].id].staff = job'[q].staff
                      /\ pc'[q] = "checked" => WellChosen(job'[q])
    BY DEF MovesAgree, MoveAgrees, WellChosen, _fits_working_hours
  <2>1. /\ q # r /\ pc'[q] = pc[q] /\ job'[q] = job[q] /\ Moving(q)
        /\ job[q].id \in Booking /\ job[q].op \in Ops /\ row[job[q].id].status # "absent"
    BY <1>1, <1>8 DEF Moving, JobsKnown, Creating, CreateOps, MoveOps, Reschedules
  <2>2. CASE job[q].id # j.id
    BY <1>2, <2>1, <2>2 DEF MovesAgree, MoveAgrees
  <2>3. CASE job[q].id = j.id /\ row[j.id].status = "deleted"
    BY <1>2, <2>1, <2>3 DEF MovesAgree, MoveAgrees
  <2>4. CASE job[q].id = j.id /\ row[j.id].status # "deleted"
    <3>1. Moving(r)
      BY <1>1, <1>3, <2>1, <2>4 DEF Moving, InTransaction, PlacingOps, CreateOps, MoveOps
    <3>2. /\ row[j.id].service = j.obj.service
          /\ j.op = "assign_staff" => row[j.id].start = j.start
          /\ j.op # "assign_staff" => row[j.id].staff = j.staff
      BY <2>4, <3>1 DEF MovesAgree, MoveAgrees
    <3>3. /\ row[j.id].service = job[q].obj.service
          /\ job[q].op = "assign_staff" => row[j.id].start = job[q].start
          /\ job[q].op # "assign_staff" => row[j.id].staff = job[q].staff
      BY <2>1, <2>4 DEF MovesAgree, MoveAgrees
    <3>4. j.op = "assign_staff" <=> job[q].op = "assign_staff"
      BY <1>1, <2>1, <3>1 DEF LockGuarded, Moving, MoveOps
    <3> QED
      BY <1>2, <2>1, <2>4, <3>2, <3>3, <3>4 DEF MovesAgree, MoveAgrees
  <2> QED
    BY <2>2, <2>3, <2>4
<1>11. \A b \in Booking : /\ b # j.id
                          /\ row[b].status \in ACTIVE_BOOKING_STATUSES
                          /\ row[b].staff = j.staff
                          => ~(row[b].start < add_minutes_to_time(j.start, len)
                               /\ row[b].end > j.start)
  BY <1>3 DEF SlotKept, is_slot_booked, IsActive
<1>12. SlotsKept'
  <2> SUFFICES ASSUME NEW q \in Request, pc'[q] = "checked"
               PROVE  SlotKept(q)'
    BY DEF SlotsKept
  <2>1. q # r /\ pc[q] = "checked" /\ job'[q] = job[q] /\ SlotKept(q) /\ job[q] \in Job
    BY <1>1, <1>8 DEF SlotsKept, InTransaction
  <2>2. job[q].staff \in Staff
    BY <2>1, JobFields, ServiceAssumption
       DEF JobsKnown, MovesAgree, MoveAgrees, CreatesFresh, CreateFresh, Creating, Moving, InTransaction, PlacingOps,
           CreateOps, MoveOps, WellChosen, Job, Row
  <2>3. lock'[job[q].staff] = q
    BY <1>1, <2>1, <2>2 DEF Unlocked, SlotKept
  <2>4. j.staff # job[q].staff
    BY <1>3, <2>1 DEF SlotKept
  <2>5. ASSUME NEW b \in Booking, b # job[q].id,
               row'[b].status \in ACTIVE_BOOKING_STATUSES, row'[b].staff = job[q].staff
        PROVE  row'[b] = row[b]
    BY <1>2, <2>4, <2>5
  <2>6. ~is_slot_booked(job[q].staff, job[q].start,
                        total_duration_minutes(job[q].obj.service), {job[q].id})'
    BY <2>1, <2>5 DEF SlotKept, is_slot_booked, IsActive, add_minutes_to_time
  <2> QED
    BY <2>1, <2>3, <2>6 DEF SlotKept
<1>13. NoDoubleBooking'
  <2> SUFFICES ASSUME NEW b \in Booking, NEW c \in Booking, b # c,
                      row'[b].status \in ACTIVE_BOOKING_STATUSES,
                      row'[c].status \in ACTIVE_BOOKING_STATUSES,
                      row'[b].staff # NoStaff, row'[b].staff = row'[c].staff
               PROVE  ~Overlap(row'[b], row'[c])
    BY DEF NoDoubleBooking, IsActive, Overlap
  <2>1. CASE row[j.id].status = "deleted" \/ (b # j.id /\ c # j.id)
    BY <1>2, <2>1 DEF NoDoubleBooking, IsActive
  <2>2. CASE row[j.id].status # "deleted" /\ b = j.id
    BY <1>2, <1>11, <2>2 DEF Overlap
  <2>3. CASE row[j.id].status # "deleted" /\ c = j.id
    BY <1>2, <1>11, <2>3 DEF Overlap
  <2> QED
    BY <2>1, <2>2, <2>3
<1> QED
  BY <1>6, <1>7, <1>9, <1>10, <1>12, <1>13

\* Every handler that starts has made sure of what its transaction relies on.
LEMMA HandlersStartGood ==
    ASSUME ScheduleInv, LockGuarded, NEW r \in Request,
           Place(r) \/ \E op \in StatusOps : ReadBooking(r, op)
    PROVE  \E j \in Job, where \in {"read", "locking"} : Begin(r, j, where) /\ GoodStart(j, where)
<1> USE DEF ScheduleInv
<1>1. ASSUME NEW svc \in Service, NEW s \in Staff \cup {NoStaff}, NEW t \in Start,
             NEW status \in {"pending", "confirmed"}, NEW method \in {"cash", "card"}
      PROVE  /\ NewRow(svc, s, t, status, method) \in Row
             /\ NewRow(svc, s, t, status, method).service = svc
             /\ NewRow(svc, s, t, status, method).start = t
             /\ NewRow(svc, s, t, status, method).end =
                  add_minutes_to_time(t, total_duration_minutes(svc))
             /\ NewRow(svc, s, t, status, method).status = status
             /\ t \in Nat
  BY <1>1, NewRowType, ClockAssumption DEF NewRow
<1>2. CASE ClientCreate(r)
  <2>1. PICK b \in Booking, svc \in Service, t \in Start, method \in {"cash", "card"},
             s \in Staff \cup {NoStaff}, auto \in BOOLEAN :
          /\ Fresh(b)
          /\ validate_booking_availability(svc, IF auto THEN NoStaff ELSE s, t, {}, TRUE)
          /\ IF auto THEN s \in {NoStaff, find_available_staff(svc, t, {}, TRUE)}
                     ELSE staff_can_perform(svc, s)
          /\ Begin(r, [op |-> "client_create", id |-> b,
                       obj |-> NewRow(svc, s, t, "pending", method),
                       staff |-> s, start |-> t, auto_assign_staff |-> auto], "locking")
    BY <1>2 DEF ClientCreate
  <2>2. s # NoStaff => s \in Members[svc] /\ check_staff_slot(svc, s, t, {}, TRUE)
    <3>1. CASE auto
      <4>1. s # NoStaff => s = find_available_staff(svc, t, {}, TRUE)
        BY <2>1, <3>1
      <4>2. find_available_staff(svc, t, {}, TRUE) # NoStaff =>
              find_available_staff(svc, t, {}, TRUE) \in AvailableStaff(svc, t, {}, TRUE)
        BY FoundStaff
      <4> QED
        BY <4>1, <4>2 DEF AvailableStaff
    <3>2. CASE ~auto
      BY <2>1, <3>2 DEF validate_booking_availability, staff_can_perform
    <3> QED
      BY <3>1, <3>2
  <2> DEFINE new == NewRow(svc, s, t, "pending", method)
             j == [op |-> "client_create", id |-> b, obj |-> new, staff |-> s, start |-> t,
                   auto_assign_staff |-> auto]
  <2>3. /\ new \in Row /\ new.service = svc /\ new.start = t /\ new.status = "pending"
        /\ new.end = add_minutes_to_time(t, total_duration_minutes(svc)) /\ t \in Nat
    BY <1>1
  <2>4. Begin(r, j, "locking")
    BY <2>1
  <2> HIDE DEF new
  <2>5. j \in Job
    BY <2>3 DEF Job, AllOps, PlacingOps
  <2>6. j.staff # NoStaff => WellChosen(j)
    BY <2>2, <2>3 DEF WellChosen, check_staff_slot
  <2>7. GoodStart(j, "locking")
    BY <2>1, <2>3, <2>6 DEF GoodStart, CreateOps
  <2> QED
    BY <2>4, <2>5, <2>7
<1>3. CASE AdminCreate(r)
  <2>1. PICK b \in Booking, svc \in Service, t \in Start, s \in Staff,
             status \in {"pending", "confirmed"} :
          /\ Fresh(b)
          /\ staff_can_perform(svc, s)
          /\ check_staff_slot(svc, s, t, {}, FALSE)
          /\ Begin(r, [op |-> "admin_create", id |-> b,
                       obj |-> NewRow(svc, s, t, status, "cash"),
                       staff |-> s, start |-> t, auto_assign_staff |-> FALSE], "locking")
    BY <1>3 DEF AdminCreate
  <2> DEFINE new == NewRow(svc, s, t, status, "cash")
             j == [op |-> "admin_create", id |-> b, obj |-> new, staff |-> s, start |-> t,
                   auto_assign_staff |-> FALSE]
  <2>2. /\ new \in Row /\ new.service = svc /\ new.start = t /\ new.status = status
        /\ new.end = add_minutes_to_time(t, total_duration_minutes(svc)) /\ t \in Nat
    BY <1>1
  <2>3. Begin(r, j, "locking")
    BY <2>1
  <2> HIDE DEF new
  <2>4. j \in Job
    BY <2>2 DEF Job, AllOps, PlacingOps
  <2>5. WellChosen(j) /\ j.staff # NoStaff
    BY <2>1, <2>2, StaffAssumption DEF WellChosen, check_staff_slot, staff_can_perform
  <2>6. GoodStart(j, "locking")
    BY <2>1, <2>2, <2>5 DEF GoodStart, CreateOps
  <2> QED
    BY <2>3, <2>4, <2>6
<1>4. ASSUME NEW op \in Reschedules, Reschedule(r, op)
      PROVE  \E j \in Job, where \in {"read", "locking"} :
                 Begin(r, j, where) /\ GoodStart(j, where)
  <2>1. PICK b \in Booking, t \in Start :
          /\ row[b].status \in {"pending", "confirmed"}
          /\ Begin(r, [op |-> op, id |-> b, obj |-> row[b], staff |-> row[b].staff,
                       start |-> t, auto_assign_staff |-> FALSE], "locking")
    BY <1>4 DEF Reschedule
  <2> DEFINE j == [op |-> op, id |-> b, obj |-> row[b], staff |-> row[b].staff,
                   start |-> t, auto_assign_staff |-> FALSE]
  <2>2. row[b] \in Row /\ row[b].staff \in Members[row[b].service] /\ t \in Nat
    BY <2>1, ClockAssumption DEF TypeOK, RowsPlaced, Placed
  <2>3. j \in Job
    BY <2>2 DEF Job, Row, AllOps, PlacingOps
  <2>4. GoodStart(j, "locking")
    BY <2>1, <2>2 DEF GoodStart, MoveOps, Reschedules
  <2> QED
    BY <2>1, <2>3, <2>4
<1>5. CASE AssignStaff(r)
  <2>1. PICK b \in Booking, s \in Staff :
          /\ row[b].status \in {"pending", "confirmed"}
          /\ staff_can_perform(row[b].service, s)
          /\ Begin(r, [op |-> "assign_staff", id |-> b, obj |-> row[b], staff |-> s,
                       start |-> row[b].start, auto_assign_staff |-> FALSE], "locking")
    BY <1>5 DEF AssignStaff
  <2> DEFINE j == [op |-> "assign_staff", id |-> b, obj |-> row[b], staff |-> s,
                   start |-> row[b].start, auto_assign_staff |-> FALSE]
  <2>2. row[b] \in Row /\ s \in Members[row[b].service]
    BY <2>1 DEF TypeOK, staff_can_perform
  <2>3. j \in Job
    BY <2>2 DEF Job, Row, AllOps, PlacingOps
  <2>4. GoodStart(j, "locking")
    BY <2>1, <2>2 DEF GoodStart, MoveOps
  <2> QED
    BY <2>1, <2>3, <2>4
<1>6. ASSUME NEW op \in StatusOps, ReadBooking(r, op)
      PROVE  \E j \in Job, where \in {"read", "locking"} :
                 Begin(r, j, where) /\ GoodStart(j, where)
  <2>1. PICK b \in Booking :
          /\ MayRead(op, b)
          /\ Begin(r, [op |-> op, id |-> b, obj |-> row[b], staff |-> row[b].staff,
                       start |-> row[b].start, auto_assign_staff |-> FALSE], "read")
    BY <1>6 DEF ReadBooking
  <2> DEFINE j == [op |-> op, id |-> b, obj |-> row[b], staff |-> row[b].staff,
                   start |-> row[b].start, auto_assign_staff |-> FALSE]
  <2>2. j \in Job
    BY DEF TypeOK, Job, Row, AllOps
  <2>3. op \in {"complete", "no_show", "sweep"}
    BY <2>1 DEF Begin, LockGuarded, StatusOps
  <2>4. row[b].status # "absent"
    BY <2>1, <2>3 DEF MayRead
  <2>5. GoodStart(j, "read")
    BY <2>3, <2>4 DEF GoodStart
  <2> QED
    BY <2>1, <2>2, <2>5
<1> QED
  BY <1>2, <1>3, <1>4, <1>5, <1>6 DEF Place, Reschedules

\* The steps other than a start, a check and a commit place nothing.
LEMMA OtherStepsQuiet ==
    ASSUME ScheduleInv, LockGuarded, [Next]_vars,
           \A r \in Request : ~Place(r) /\ ~Check(r) /\ ~Commit(r)
                                /\ \A op \in StatusOps : ~ReadBooking(r, op)
    PROVE  NothingPlaced /\ NobodyAdvances
<1> USE DEF ScheduleInv
<1>1. ASSUME UNCHANGED row
      PROVE  NothingPlaced
  BY <1>1 DEF NothingPlaced, IsActive
<1>2. ASSUME NEW b \in Booking, NEW new, row' = [row EXCEPT ![b] = new],
             row[b].status # "absent", new.status # "absent",
             row[b].status = "deleted" => new.status = "deleted",
             new.status \in ACTIVE_BOOKING_STATUSES => IsActive(b),
             new.status # "deleted" =>
               /\ new.staff = row[b].staff /\ new.service = row[b].service
               /\ new.start = row[b].start /\ new.end = row[b].end
      PROVE  NothingPlaced
  BY <1>2 DEF NothingPlaced, IsActive, TypeOK
<1>3. ASSUME NEW b \in Booking, NEW status \in {"confirmed", "completed", "no_show", "cancelled"},
             row[b].status \notin {"absent", "deleted"},
             status = "confirmed" => IsActive(b),
             row' = [row EXCEPT ![b] = [row[b] EXCEPT !.status = status]]
      PROVE  NothingPlaced
  <2> DEFINE new == [row[b] EXCEPT !.status = status]
  <2>1. /\ new.status = status /\ new.staff = row[b].staff /\ new.service = row[b].service
        /\ new.start = row[b].start /\ new.end = row[b].end
    BY DEF TypeOK, Row
  <2> HIDE DEF new
  <2>2. row' = [row EXCEPT ![b] = new]
    BY <1>3 DEF new
  <2> QED
    BY <1>2, <1>3, <2>1, <2>2 DEF ACTIVE_BOOKING_STATUSES
<1>4. ASSUME NEW b \in Booking, NEW new, row' = Updated(b, new), row[b].status # "absent",
             \/ new = [row[b] EXCEPT !.bog_order_id = TRUE]
             \/ \E status \in {"completed", "no_show", "cancelled"} :
                  new = [row[b] EXCEPT !.status = status]
      PROVE  NothingPlaced
  <2>1. CASE row[b].status = "deleted"
    BY <1>1, <1>4, <2>1 DEF Updated, TypeOK
  <2>2. CASE row[b].status # "deleted" /\ new = [row[b] EXCEPT !.bog_order_id = TRUE]
    <3>1. /\ new.status = row[b].status /\ new.staff = row[b].staff
          /\ new.service = row[b].service /\ new.start = row[b].start /\ new.end = row[b].end
      BY <2>2 DEF TypeOK, Row
    <3>2. row' = [row EXCEPT ![b] = new]
      BY <1>4, <2>2 DEF Updated
    <3> QED
      BY <1>2, <1>4, <2>2, <3>1, <3>2 DEF IsActive
  <2>3. CASE row[b].status # "deleted" /\ \E status \in {"completed", "no_show", "cancelled"} :
                                            new = [row[b] EXCEPT !.status = status]
    <3>1. row' = [row EXCEPT ![b] = new]
      BY <1>4, <2>3 DEF Updated
    <3> QED
      BY <1>3, <1>4, <2>3, <3>1
  <2> QED
    BY <1>4, <2>1, <2>2, <2>3
<1>5. ASSUME NEW r \in Request, Finish(r), UNCHANGED lock \/ lock' = Unlocked(r)
      PROVE  NobodyAdvances
  BY <1>5 DEF Finish, NobodyAdvances, TypeOK, Unlocked
<1>6. ASSUME NEW r \in Request, LockNext(r)
      PROVE  NothingPlaced /\ NobodyAdvances
  <2>1. NobodyAdvances
    BY <1>6, StaffAssumption DEF LockNext, NobodyAdvances, TypeOK
  <2> QED
    BY <1>1, <1>6, <2>1 DEF LockNext
<1>7. ASSUME NEW r \in Request, Refuse(r) \/ Crash(r)
      PROVE  NothingPlaced /\ NobodyAdvances
  BY <1>1, <1>5, <1>7 DEF Refuse, Crash
<1>8. ASSUME NEW r \in Request, pc[r] \in {"read", "paying"}
      PROVE  job[r].id \in Booking /\ row[job[r].id].status # "absent"
  BY <1>8, JobFields DEF TypeOK, JobsKnown, Creating, InTransaction
<1>9. ASSUME NEW r \in Request, PaymentStarted(r) \/ PaymentInitFailed(r)
      PROVE  NothingPlaced /\ NobodyAdvances
  BY <1>4, <1>5, <1>8, <1>9 DEF PaymentStarted, PaymentInitFailed
<1>10. ASSUME NEW r \in Request, SaveBooking(r)
       PROVE  NothingPlaced /\ NobodyAdvances
  <2>1. pc[r] = "read" /\ job[r].op \in {"complete", "no_show", "sweep"}
    BY <1>10 DEF SaveBooking, JobsKnown
  <2>2. row' = Updated(job[r].id, SavedStatus(job[r]))
    BY <1>10, <2>1 DEF SaveBooking
  <2>3. \E status \in {"completed", "no_show", "cancelled"} :
          SavedStatus(job[r]) = [row[job[r].id] EXCEPT !.status = status]
    BY <2>1 DEF SavedStatus
  <2> QED
    BY <1>4, <1>5, <1>8, <1>10, <2>1, <2>2, <2>3 DEF SaveBooking
<1>11. ASSUME UNCHANGED <<lock, pc, job>>
       PROVE  NobodyAdvances
  BY <1>11 DEF NobodyAdvances
<1>12. ASSUME NEW b \in Booking, CancelBooking(b) \/ Webhook(b)
       PROVE  NothingPlaced /\ NobodyAdvances
  <2>1. IsActive(b) /\ row[b].status \notin {"absent", "deleted"}
    BY <1>12 DEF CancelBooking, Webhook, IsActive, ACTIVE_BOOKING_STATUSES
  <2>2. \E status \in {"confirmed", "cancelled"} :
          row' = [row EXCEPT ![b] = [row[b] EXCEPT !.status = status]]
    BY <1>12 DEF CancelBooking, Webhook
  <2> QED
    BY <1>3, <1>11, <1>12, <2>1, <2>2 DEF CancelBooking, Webhook
<1>13. ASSUME NEW b \in Booking, Destroy(b)
       PROVE  NothingPlaced /\ NobodyAdvances
  <2>1. [NoRow EXCEPT !.status = "deleted"].status = "deleted"
    BY DEF NoRow
  <2>2. NothingPlaced
    BY <1>2, <1>13, <2>1 DEF Destroy, ACTIVE_BOOKING_STATUSES
  <2> QED
    BY <1>11, <1>13, <2>2 DEF Destroy
<1>14. ASSUME NEW b \in Booking
       PROVE  ~RecurringInsert(b)
  BY DEF RecurringInsert, LockGuarded
<1>15. ASSUME NEW s \in Staff, ToggleActive(s)
       PROVE  NothingPlaced /\ NobodyAdvances
  BY <1>1, <1>11, <1>15 DEF ToggleActive
<1>16. CASE UNCHANGED vars
  BY <1>1, <1>11, <1>16 DEF vars
<1> QED
  BY <1>6, <1>7, <1>9, <1>10, <1>12, <1>13, <1>14, <1>15, <1>16 DEF Next, Progress

LEMMA ScheduleStep ==
    ASSUME ScheduleInv, LockGuarded, [Next]_vars
    PROVE  ScheduleInv'
<1>1. TypeOK'
  BY TypeStep DEF ScheduleInv
<1>2. CASE \E r \in Request : Place(r) \/ \E op \in StatusOps : ReadBooking(r, op)
  BY <1>1, <1>2, HandlersStartGood, BeginStep DEF ScheduleInv
<1>3. CASE \E r \in Request : Check(r)
  BY <1>1, <1>3, CheckStep DEF ScheduleInv
<1>4. CASE \E r \in Request : Commit(r)
  BY <1>1, <1>4, CommitStep DEF ScheduleInv
<1>5. CASE \A r \in Request : ~Place(r) /\ ~Check(r) /\ ~Commit(r)
                                /\ \A op \in StatusOps : ~ReadBooking(r, op)
  BY <1>1, <1>5, OtherStepsQuiet, QuietStep DEF ScheduleInv
<1> QED
  BY <1>2, <1>3, <1>4, <1>5

LEMMA ScheduleInvHolds == LockGuarded /\ Spec => []ScheduleInv
<1>1. Init => ScheduleInv
  <2> SUFFICES ASSUME Init PROVE ScheduleInv
    OBVIOUS
  <2>1. TypeOK
    BY NoRowType DEF Init, TypeOK, Control
  <2>2. \A b \in Booking : row[b].status = "absent"
    BY DEF Init, NoRow
  <2>3. RowsPlaced /\ NoDoubleBooking
    BY <2>2 DEF RowsPlaced, NoDoubleBooking, IsActive, ACTIVE_BOOKING_STATUSES
  <2>4. JobsKnown /\ CreatesFresh /\ MovesAgree /\ SlotsKept
    BY DEF Init, JobsKnown, CreatesFresh, CreateFresh, MovesAgree, MoveAgrees, SlotsKept, Creating, Moving, InTransaction
  <2> QED
    BY <2>1, <2>3, <2>4 DEF ScheduleInv
<1>2. ScheduleInv /\ LockGuarded /\ [Next]_vars => ScheduleInv'
  BY ScheduleStep
<1>3. LockGuarded /\ [Next]_vars => LockGuarded'
  BY DEF LockGuarded, Reschedules
<1> QED
  BY <1>1, <1>2, <1>3, PTL DEF Spec

\* No staff member is ever given two overlapping bookings, as long as only
\* handlers run that decide under the BookingStaff lock or end bookings.
THEOREM NeverDoubleBooked == LockGuarded => (Spec => []NoDoubleBooking)
<1>1. ScheduleInv => NoDoubleBooking
  BY DEF ScheduleInv
<1> QED
  BY <1>1, ScheduleInvHolds, PTL

\* ... and every active booking stays inside its staff member's working hours.
THEOREM AlwaysInWorkingHours == LockGuarded => (Spec => []InWorkingHours)
<1>1. ScheduleInv => InWorkingHours
  BY DEF ScheduleInv, RowsPlaced, Placed, InWorkingHours, IsActive, ACTIVE_BOOKING_STATUSES
<1> QED
  BY <1>1, ScheduleInvHolds, PTL

----------------------------------------------------------------------------
(* The handlers implement the staff calendar *)

\* A step is quiet, leaves the table alone, or is a commit.
LEMMA StepKinds ==
    ASSUME ScheduleInv, LockGuarded, [Next]_vars
    PROVE  NothingPlaced \/ \E r \in Request : Commit(r)
<1>1. CASE \E r \in Request : Place(r) \/ (\E op \in StatusOps : ReadBooking(r, op)) \/ Check(r)
  <2>1. row' = row
    BY <1>1, StartsWithBegin DEF Begin, Check
  <2> QED
    BY <2>1 DEF NothingPlaced, IsActive
<1>2. CASE \A r \in Request : ~Place(r) /\ ~Check(r) /\ ~Commit(r)
                                /\ \A op \in StatusOps : ~ReadBooking(r, op)
  BY <1>2, OtherStepsQuiet
<1> QED
  BY <1>1, <1>2

\* One step writes one row.
LEMMA OneRowWritten ==
    ASSUME TypeOK, [Next]_vars
    PROVE  \E b : \A c \in Booking : c # b => row'[c] = row[c]
<1>1. ASSUME NEW b, NEW new, row' = [row EXCEPT ![b] = new]
      PROVE  \A c \in Booking : c # b => row'[c] = row[c]
  BY <1>1 DEF TypeOK
<1>2. ASSUME NEW r \in Request, Commit(r) \/ PaymentStarted(r) \/ PaymentInitFailed(r)
                                  \/ SaveBooking(r)
      PROVE  \E b, new : row' = [row EXCEPT ![b] = new]
  BY <1>2 DEF Commit, PaymentStarted, PaymentInitFailed, SaveBooking, Updated
<1>3. ASSUME NEW b \in Booking, CancelBooking(b) \/ Destroy(b) \/ Webhook(b) \/ RecurringInsert(b)
      PROVE  \E new : row' = [row EXCEPT ![b] = new]
  BY <1>3 DEF CancelBooking, Destroy, Webhook, RecurringInsert
<1>4. CASE UNCHANGED row
  BY <1>4
<1>5. (\E b, new : row' = [row EXCEPT ![b] = new]) \/ UNCHANGED row
  <2>1. ASSUME NEW r \in Request, Place(r) \/ \E op \in StatusOps : ReadBooking(r, op)
        PROVE  UNCHANGED row
    BY <2>1, StartsWithBegin DEF Begin
  <2> QED
    BY <1>2, <1>3, <2>1
       DEF Next, Progress, LockNext, Check, Refuse, Crash, ToggleActive, vars
<1> QED
  BY <1>1, <1>4, <1>5

\* A booking that is over never takes time again, if the handlers that decide
\* outside the lock are left out.
THEOREM FinalForGood == LockGuarded => (Spec => FinalStaysFinal)
<1> DEFINE Kept == \A b \in Booking :
                     row[b].status \in FINAL_BOOKING_STATUSES \cup {"deleted"}
                        => row'[b].status \notin ACTIVE_BOOKING_STATUSES
<1>1. ScheduleInv /\ LockGuarded /\ [Next]_vars => Kept
  <2> SUFFICES ASSUME ScheduleInv, LockGuarded, [Next]_vars PROVE Kept
    OBVIOUS
  <2>1. CASE NothingPlaced
    BY <2>1 DEF NothingPlaced, IsActive, FINAL_BOOKING_STATUSES, ACTIVE_BOOKING_STATUSES
  <2>2. ASSUME NEW r \in Request, Commit(r)
        PROVE  Kept
    <3>1. job[r].op \in CreateOps => row[job[r].id].status = "absent"
      BY <2>2 DEF Commit, ScheduleInv, CreatesFresh, CreateFresh, Creating, InTransaction
    <3> QED
      BY <2>2, <3>1, CommittedRow DEF FINAL_BOOKING_STATUSES, ACTIVE_BOOKING_STATUSES
  <2> QED
    BY <2>1, <2>2, StepKinds
<1>2. LockGuarded /\ [Next]_vars => LockGuarded'
  BY DEF LockGuarded, Reschedules
<1> QED
  BY <1>1, <1>2, ScheduleInvHolds, PTL DEF Spec, FinalStaysFinal

\* The refinement mapping, as a function of the bookings.
cal == [b \in Booking |-> SlotOf(b)]

LEMMA QuietCalendar ==
    ASSUME ScheduleInv, LockGuarded, [Next]_vars, NothingPlaced
    PROVE  Calendar!Next \/ cal' = cal
<1> USE DEF ScheduleInv
<1>1. PICK b : \A c \in Booking : c # b => row'[c] = row[c]
  BY OneRowWritten
<1>2. \A c \in Booking : c # b => SlotOf(c)' = SlotOf(c)
  BY <1>1 DEF SlotOf, IsActive
<1>3. CASE b \in Booking /\ IsActive(b) /\ row'[b].status \notin ACTIVE_BOOKING_STATUSES
  <2>1. SlotOf(b)' = Calendar!Over /\ SlotOf(b) # Calendar!Over
    <3>1. row'[b].status # "absent"
      BY <1>3 DEF NothingPlaced, IsActive, ACTIVE_BOOKING_STATUSES
    <3>2. SlotOf(b)' = Calendar!Over
      BY <1>3, <3>1 DEF SlotOf, IsActive, Calendar!Over, Calendar!NoSlot
    <3>3. SlotOf(b).phase = "held" /\ Calendar!Over.phase = "over"
      BY <1>3 DEF SlotOf, Calendar!Over, Calendar!NoSlot
    <3> QED
      BY <3>2, <3>3
  <2> QED
    BY <1>2, <1>3, <2>1 DEF Calendar!Next, Calendar!Release
<1>4. CASE ~(b \in Booking /\ IsActive(b) /\ row'[b].status \notin ACTIVE_BOOKING_STATUSES)
  <2>1. ASSUME b \in Booking
        PROVE  SlotOf(b)' = SlotOf(b)
    <3>1. CASE IsActive(b)
      BY <1>4, <2>1, <3>1 DEF NothingPlaced, SlotOf, IsActive, ACTIVE_BOOKING_STATUSES
    <3>2. CASE ~IsActive(b)
      BY <2>1, <3>2 DEF NothingPlaced, SlotOf, IsActive
    <3> QED
      BY <3>1, <3>2
  <2> QED
    BY <1>2, <2>1 DEF cal
<1> QED
  BY <1>3, <1>4

LEMMA CommitCalendar ==
    ASSUME ScheduleInv, NEW r \in Request, Commit(r)
    PROVE  Calendar!Next \/ cal' = cal
<1> USE DEF ScheduleInv
<1>0. PICK j \in Job : j = job[r]
  BY CommittedRow
<1> DEFINE len == total_duration_minutes(j.obj.service)
<1>1. /\ j \in Job /\ j.id \in Booking
      /\ \A b \in Booking : b # j.id => row'[b] = row[b]
      /\ row[j.id].status = "deleted" => row'[j.id] = row[j.id]
      /\ row[j.id].status # "deleted" =>
           /\ row'[j.id].staff = j.staff
           /\ row'[j.id].start = j.start
           /\ row'[j.id].end = add_minutes_to_time(j.start, len)
           /\ IF j.op \in CreateOps
              THEN row'[j.id].status \in {"pending", "confirmed"}
              ELSE row'[j.id].status = row[j.id].status
  BY <1>0, CommittedRow
<1>2. SlotKept(r) /\ (j.op \in CreateOps => row[j.id].status = "absent")
      /\ (j.op \notin CreateOps => row[j.id].status # "absent")
  BY <1>0 DEF Commit, SlotsKept, CreatesFresh, CreateFresh, Creating, InTransaction, JobsKnown
<1>3. \A c \in Booking : c # j.id => SlotOf(c)' = SlotOf(c)
  BY <1>1 DEF SlotOf, IsActive
<1>4. CASE row'[j.id].status \notin ACTIVE_BOOKING_STATUSES
  <2>1. SlotOf(j.id)' = SlotOf(j.id)
    BY <1>1, <1>2, <1>4 DEF SlotOf, IsActive, ACTIVE_BOOKING_STATUSES
  <2> QED
    BY <1>3, <2>1 DEF cal
<1>5. CASE row'[j.id].status \in ACTIVE_BOOKING_STATUSES
  <2>1. /\ row[j.id].status # "deleted"
        /\ SlotOf(j.id)' = [phase |-> "held", staff |-> j.staff, start |-> j.start,
                            end |-> add_minutes_to_time(j.start, len)]
    BY <1>1, <1>5 DEF SlotOf, IsActive, ACTIVE_BOOKING_STATUSES
  <2>2. SlotOf(j.id)' \in Calendar!Slot
    <3>1. j.staff \in Staff \cup {NoStaff} /\ j.start \in Nat
          /\ add_minutes_to_time(j.start, len) \in Nat
      BY <1>1, JobFields, TotalDuration, AddMinutes
    <3> QED
      BY <2>1, <3>1 DEF Calendar!Slot
  <2>3. ASSUME NEW c \in Booking \ {j.id}, SlotOf(c).phase = "held"
        PROVE  ~Calendar!Clash(SlotOf(j.id)', SlotOf(c))
    <3>1. /\ IsActive(c) /\ SlotOf(c).staff = row[c].staff
          /\ SlotOf(c).start = row[c].start /\ SlotOf(c).end = row[c].end
      BY <2>3 DEF SlotOf
    <3>2. row[c].staff = j.staff => ~(row[c].start < add_minutes_to_time(j.start, len)
                                      /\ row[c].end > j.start)
      BY <1>0, <1>2, <3>1 DEF SlotKept, is_slot_booked
    <3>3. /\ SlotOf(j.id)'.staff = j.staff /\ SlotOf(j.id)'.start = j.start
          /\ SlotOf(j.id)'.end = add_minutes_to_time(j.start, len)
      BY <2>1
    <3> QED
      BY <3>1, <3>2, <3>3 DEF Calendar!Clash
  <2>4. Calendar!GetsFreeSlot(j.id)
    BY <1>1, <1>3, <2>2, <2>3 DEF Calendar!GetsFreeSlot, Calendar!Occupies
  <2>5. CASE j.op \in CreateOps
    <3>1. SlotOf(j.id) = Calendar!New
      BY <1>2, <2>5 DEF SlotOf, IsActive, ACTIVE_BOOKING_STATUSES, Calendar!New, Calendar!NoSlot
    <3> QED
      BY <1>1, <2>4, <3>1 DEF Calendar!Next, Calendar!Take
  <2>6. CASE j.op \notin CreateOps
    <3>1. SlotOf(j.id).phase = "held"
      BY <1>1, <1>5, <2>1, <2>6 DEF SlotOf, IsActive
    <3> QED
      BY <1>1, <2>4, <3>1 DEF Calendar!Next, Calendar!Move, Calendar!Occupies
  <2> QED
    BY <2>5, <2>6
<1> QED
  BY <1>4, <1>5

\* The booking handlers, locks and second looks together implement the abstract
\* staff calendar: slots are taken only when free and given up for good.
THEOREM CalendarImplemented == LockGuarded => (Spec => ImplementsCalendar)
<1>1. Init => Calendar!Init
  BY DEF Init, Calendar!Init, SlotOf, IsActive, NoRow, ACTIVE_BOOKING_STATUSES, Calendar!New,
         Calendar!NoSlot
<1>2. ScheduleInv /\ LockGuarded /\ [Next]_vars => [Calendar!Next]_cal
  BY StepKinds, QuietCalendar, CommitCalendar
<1>3. LockGuarded /\ [Next]_vars => LockGuarded'
  BY DEF LockGuarded, Reschedules
<1> QED
  BY <1>1, <1>2, <1>3, ScheduleInvHolds, PTL DEF Spec, ImplementsCalendar, Calendar!Spec, cal

=============================================================================
