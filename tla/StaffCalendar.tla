---------------------------- MODULE StaffCalendar ----------------------------
(***************************************************************************)
(* What the booking subsystem promises about staff time, with none of its  *)
(* machinery: a booking takes a free slot, may move to another free slot,  *)
(* and gives its slot up for good.                                         *)
(***************************************************************************)
EXTENDS Naturals

CONSTANTS Booking, Staff, NoStaff

VARIABLE calendar   \* [Booking -> what the booking has of the calendar]

\* A booking has no slot yet, has one, or has given it up.
Slot == [phase : {"held"}, staff : Staff \cup {NoStaff}, start : Nat, end : Nat]
NoSlot(phase) == [phase |-> phase, staff |-> NoStaff, start |-> 0, end |-> 0]
New  == NoSlot("new")
Over == NoSlot("over")

Clash(x, y) ==
    /\ x.staff # NoStaff
    /\ x.staff = y.staff
    /\ x.start < y.end
    /\ y.start < x.end

Occupies(b) == calendar[b].phase = "held"

\* b gets a slot nobody else occupies; nobody else is affected.
GetsFreeSlot(b) ==
    /\ calendar'[b] \in Slot
    /\ \A c \in Booking \ {b} :
         /\ calendar'[c] = calendar[c]
         /\ Occupies(c) => ~Clash(calendar'[b], calendar[c])

Take(b) == calendar[b] = New /\ GetsFreeSlot(b)

Move(b) == Occupies(b) /\ GetsFreeSlot(b)

Release(b) ==
    /\ calendar[b] # Over
    /\ calendar'[b] = Over
    /\ \A c \in Booking \ {b} : calendar'[c] = calendar[c]

Init == calendar = [b \in Booking |-> New]

Next == \E b \in Booking : Take(b) \/ Move(b) \/ Release(b)

Spec == Init /\ [][Next]_calendar

=============================================================================
