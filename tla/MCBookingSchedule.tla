-------------------------- MODULE MCBookingSchedule --------------------------
(***************************************************************************)
(* Instances of BookingSchedule for TLC: a day of six minutes.  "cut" takes*)
(* one minute and one minute of cleaning up, and both staff members provide*)
(* it; "wash" takes three minutes, is offered at minute 0 only, and is     *)
(* provided by staff member 1.  Staff member 2 has a break at minute 3.    *)
(***************************************************************************)
EXTENDS BookingSchedule, TLC

MCMembers    == [svc \in Service |-> IF svc = "cut" THEN Staff ELSE {1}]
MCDuration   == [svc \in Service |-> IF svc = "cut" THEN 1 ELSE 3]
MCBuffer     == [svc \in Service |-> IF svc = "cut" THEN 1 ELSE 0]
MCFixedSlots == {"wash"} \cap Service
MCTimeSlots  == [svc \in Service |-> {0}]
MCWorkStart  == [s \in Staff |-> 0]
MCWorkEnd    == [s \in Staff |-> IF s = 1 THEN 5 ELSE 4]
MCBreakStart == [s \in Staff |-> IF s = 2 THEN 3 ELSE 0]
MCBreakEnd   == [s \in Staff |-> IF s = 2 THEN 4 ELSE 0]

\* Which worker runs a request, and which key a booking gets, make no difference.
Symmetry == Permutations(Request) \cup Permutations(Booking)

=============================================================================
