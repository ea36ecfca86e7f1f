-------------------------------- MODULE Leave ---------------------------------
(***************************************************************************)
(* The leave of one employee of one type in one year: the LeaveRequest     *)
(* rows with the consents of substitutes, the LeaveBalance row, and the    *)
(* approval chain, which administrators may change at any time.            *)
(*                                                                         *)
(* A view reads a request, checks it, and decides in a transaction on the  *)
(* row it has locked and read again; the form that submits or edits a      *)
(* request is validated before its transaction.  `mem' is what a worker    *)
(* read.  Days are numbers, and total_days counts the working ones.        *)
(***************************************************************************)
EXTENDS Integers, FiniteSets, Sequences, FiniteSetsExt, Sums

CONSTANTS
    Worker,        \* web workers
    NoMem,         \* an idle worker holds nothing
    Request,       \* bound: keys of LeaveRequests
    LastDay,       \* the days are 1..LastDay
    Holiday,       \* the days that are no working days
    Sub,           \* colleagues who may substitute
    Chain,         \* the approval chains administrators configure
    Allocation,    \* what they set allocated_days to
    MaxNegative,   \* max_negative_days, 0 when a negative balance is not allowed
    Races          \* which of the unguarded overlaps may occur

Role == {"manager", "hr", "admin"}
Day == 1..LastDay
NoDay == 0

ASSUME NameAssumption == NoMem \notin Worker /\ IsFiniteSet(Request) /\ IsFiniteSet(Sub)
ASSUME LeaveAssumption ==
    /\ LastDay \in Nat /\ MaxNegative \in Nat
    /\ Chain \subseteq Seq(Role) /\ Chain # {}
    /\ Allocation \subseteq Nat /\ Allocation # {}
    /\ Races \subseteq {"double_submit", "stale_balance", "staff_edit"}

VARIABLES
    request,   \* the LeaveRequest rows
    balance,   \* the LeaveBalance row
    chain,     \* the approval chain in force
    pc, mem    \* where each worker is, and what it holds

vars == <<request, balance, chain, pc, mem>>

OpenApproval == {"pending", "manager_approved", "hr_approved"}
OpenRequest == OpenApproval \cup {"awaiting_substitutes"}
Closed == {"approved", "rejected", "cancelled"}

\* A substitute's answer; `on' is history: the dates it was given for.
Consent == [status : {"pending", "accepted", "skipped"}, on : (Day \X Day) \cup {<<NoDay, NoDay>>}]
Asked == [status |-> "pending", on |-> <<NoDay, NoDay>>]

Consents == UNION {[S -> Consent] : S \in SUBSET Sub}

Row == [status : OpenRequest \cup {"approved"}, start : Day, end : Day, total_days : Nat,
        manager_approver : BOOLEAN, hr_approver : BOOLEAN,
        substitutes : Consents]
Balance == [allocated_days : Nat, used_days : Nat, pending_days : Nat]
NoRow == [status |-> "none"]
Deleted == [status |-> "deleted"]

\* A rejected or cancelled request: no handler reads its other columns.
Shut(s) == [status |-> s]

WithStatus(s) == {r \in Request : request[r].status \in s}

calculate_working_days(s, e) == Cardinality((s..e) \ Holiday)

----------------------------------------------------------------------------
(* Workers and the balance *)

Goes(w, where, m) ==
    /\ pc' = [pc EXCEPT ![w] = where]
    /\ mem' = [mem EXCEPT ![w] = m]

Ends(w) == Goes(w, "idle", NoMem)

Less(x, y) == IF x > y THEN x - y ELSE 0

update_leave_balance(b, action, days) ==
    CASE action = "pending" -> [b EXCEPT !.pending_days = @ + days]
      [] action = "approve" -> [b EXCEPT !.pending_days = Less(@, days), !.used_days = @ + days]
      [] action \in {"reject", "cancel"} -> [b EXCEPT !.pending_days = Less(@, days)]
      [] action = "cancel_approved" -> [b EXCEPT !.used_days = Less(@, days)]

\* A request's days are counted under the lock of the balance row.  An administrator who
\* edits the balance saves the whole row as read; without the race no request is
\* counted in between.
Counts(b) ==
    /\ "stale_balance" \in Races \/ \A w \in Worker : pc[w] # "balance"
    /\ balance' = b

----------------------------------------------------------------------------
(* The employee's form *)

\* Mutant: requests that await their substitutes are forgotten.
check_overlapping_leaves_OpenOnly(s, e, except) ==
    \E r \in WithStatus(OpenApproval \cup {"approved"}) \ except : request[r].start <= e /\ request[r].end >= s

check_overlapping_leaves(s, e, except) ==
    \E r \in WithStatus(OpenRequest \cup {"approved"}) \ except : request[r].start <= e /\ request[r].end >= s

check_leave_balance(days) == balance.used_days + balance.pending_days + days <= balance.allocated_days + MaxNegative

\* Without the race one form about the employee's leave is on the way at a time.
FormFree == "double_submit" \in Races \/ \A w \in Worker : pc[w] \notin {"create", "edit", "staff_edit"}

\* The staff's edit saves the whole row as read, without its lock; without the race
\* nobody writes the request in between.
Writable(r) == "staff_edit" \in Races \/ \A w \in Worker : pc[w] = "staff_edit" => mem[w].request # r

\* A valid new request: its dates, its days, its substitutes when its type needs some.
Submit(w) ==
    /\ pc[w] = "idle" /\ FormFree /\ WithStatus({"none"}) # {}
    /\ \E s, e \in Day, subs \in SUBSET Sub :
        LET days == calculate_working_days(s, e)
        IN  /\ days > 0
            /\ ~check_overlapping_leaves(s, e, {}) /\ check_leave_balance(days)
            /\ Goes(w, "create", [start |-> s, end |-> e, days |-> days, substitutes |-> subs])
    /\ UNCHANGED <<request, balance, chain>>

Create(w) ==
    /\ pc[w] = "create"
    /\ \E r \in WithStatus({"none"}) :
        /\ \A q \in WithStatus({"none"}) : r <= q
        /\ request' = [request EXCEPT ![r] =
            [status |-> IF mem[w].substitutes = {} THEN "pending" ELSE "awaiting_substitutes",
             start |-> mem[w].start, end |-> mem[w].end, total_days |-> mem[w].days,
             manager_approver |-> FALSE, hr_approver |-> FALSE,
             substitutes |-> [s \in mem[w].substitutes |-> Asked]]]
    /\ Counts(update_leave_balance(balance, "pending", mem[w].days))
    /\ Ends(w)
    /\ UNCHANGED chain

Editable == {"pending", "awaiting_substitutes"}

\* Mutant: the days are only counted again when both dates are given.
EditLoad_BothDates(w) ==
    /\ pc[w] = "idle" /\ FormFree
    /\ \E r \in WithStatus(Editable), s, e \in Day \cup {NoDay} :
        LET start == IF s = NoDay THEN request[r].start ELSE s
            end == IF e = NoDay THEN request[r].end ELSE e
            days == IF NoDay \in {s, e} THEN request[r].total_days ELSE calculate_working_days(start, end)
        IN  /\ ~(s = NoDay /\ e = NoDay) /\ start <= end
            /\ days > 0 /\ ~check_overlapping_leaves(start, end, {r})
            /\ \E by \in {"edit", "staff_edit"} :
                Goes(w, by, [request |-> r, start |-> s, end |-> e, days |-> days,
                             row |-> IF by = "edit" THEN NoMem ELSE request[r]])
    /\ UNCHANGED <<request, balance, chain>>

\* An edit by the employee or the staff gives the first day, the last, or both; the days
\* are counted, and the overlap is looked for, with the row as read.  The balance is not
\* looked at.
EditLoad(w) ==
    /\ pc[w] = "idle" /\ FormFree
    /\ \E r \in WithStatus(Editable), s, e \in Day \cup {NoDay} :
        LET start == IF s = NoDay THEN request[r].start ELSE s
            end == IF e = NoDay THEN request[r].end ELSE e
            days == calculate_working_days(start, end)
        IN  /\ ~(s = NoDay /\ e = NoDay)
            /\ days > 0 /\ ~check_overlapping_leaves(start, end, {r})
            /\ \E by \in {"edit", "staff_edit"} :
                Goes(w, by, [request |-> r, start |-> s, end |-> e, days |-> days,
                             row |-> IF by = "edit" THEN NoMem ELSE request[r]])
    /\ UNCHANGED <<request, balance, chain>>

\* Mutant: the substitutes are not asked again.
Edited_KeepsConsent(row, m) ==
    [row EXCEPT !.start = IF m.start = NoDay THEN @ ELSE m.start,
                !.end = IF m.end = NoDay THEN @ ELSE m.end,
                !.total_days = m.days]

\* The edited row: new dates need the consent of the substitutes again.
Edited(row, m) ==
    LET new == [row EXCEPT !.start = IF m.start = NoDay THEN @ ELSE m.start,
                           !.end = IF m.end = NoDay THEN @ ELSE m.end,
                           !.total_days = m.days]
        moved == <<new.start, new.end>> # <<row.start, row.end>>
    IN  IF moved /\ DOMAIN row.substitutes # {}
        THEN [new EXCEPT !.status = "awaiting_substitutes", !.substitutes = [s \in DOMAIN @ |-> Asked]]
        ELSE new

\* The old days of the row leave the balance, the new ones enter it.
Saves(w, row) ==
    /\ request' = [request EXCEPT ![mem[w].request] = Edited(row, mem[w])]
    /\ IF row.total_days = mem[w].days THEN UNCHANGED balance
       ELSE Counts(update_leave_balance(update_leave_balance(balance, "cancel", row.total_days),
                                        "pending", mem[w].days))

\* The employee's edit, on the locked row.
Edit(w) ==
    /\ pc[w] = "edit" /\ Writable(mem[w].request)
    /\ LET row == request[mem[w].request]
       IN  IF row.status \in Editable THEN Saves(w, row) ELSE UNCHANGED <<request, balance>>
    /\ Ends(w)
    /\ UNCHANGED chain

\* The staff's edit, on the row as read; the consents are rows of their own.
StaffEdit(w) ==
    /\ pc[w] = "staff_edit"
    /\ LET now == request[mem[w].request]
       IN  Saves(w, [mem[w].row EXCEPT !.substitutes =
                        IF now.status \in OpenRequest \cup {"approved"} THEN now.substitutes ELSE @])
    /\ Ends(w)
    /\ UNCHANGED chain

----------------------------------------------------------------------------
(* The approval chain *)

step_signed(row, role) ==
    \/ role = "manager" /\ row.manager_approver
    \/ role = "hr" /\ row.hr_approver

\* Mutant: the steps below the rank of the last sign-off count as signed.
get_next_approver_role_ByRank(row) ==
    LET open == {i \in DOMAIN chain : ~step_signed(row, chain[i])
                                      /\ ~(row.status = "hr_approved" /\ chain[i] = "manager")}
    IN  IF row.status \notin OpenApproval \/ open = {} THEN "none" ELSE chain[Min(open)]

\* The first step of the chain nobody signed, "none" when there is none.  Status and
\* approver columns are always written together, so the status alone tells nothing.
get_next_approver_role(row) ==
    LET open == {i \in DOMAIN chain : ~step_signed(row, chain[i])}
    IN  IF row.status \notin OpenApproval \/ open = {} THEN "none" ELSE chain[Min(open)]

\* Mutant: an administrator's step names its role like the others.
apply_approval_step_AdminStatus(row) ==
    LET role == get_next_approver_role(row)
        signed == CASE role = "manager" -> [row EXCEPT !.manager_approver = TRUE, !.status = "manager_approved"]
                    [] role = "hr" -> [row EXCEPT !.hr_approver = TRUE, !.status = "hr_approved"]
                    [] OTHER -> row
    IN  CASE role = "admin" -> [row EXCEPT !.status = "admin_approved"]
          [] get_next_approver_role(signed) = "none" -> [signed EXCEPT !.status = "approved"]
          [] OTHER -> signed

\* The row after the next open step was signed.
apply_approval_step(row) ==
    LET role == get_next_approver_role(row)
        signed == CASE role = "manager" -> [row EXCEPT !.manager_approver = TRUE, !.status = "manager_approved"]
                    [] role = "hr" -> [row EXCEPT !.hr_approver = TRUE, !.status = "hr_approved"]
                    [] OTHER -> row
    IN  IF role = "admin" \/ get_next_approver_role(signed) = "none"
        THEN [signed EXCEPT !.status = "approved"]
        ELSE signed

EditChain(c) ==
    /\ c # chain
    /\ chain' = c
    /\ UNCHANGED <<request, balance, pc, mem>>

----------------------------------------------------------------------------
(* Decisions *)

Decision == {"approve", "manager_approve", "reject", "manager_reject", "cancel", "delete", "staff_delete"}

\* Checked when the request is read, and again under its lock.
Allowed(kind, row) ==
    CASE kind \in {"approve", "reject"} -> row.status \in OpenApproval
      [] kind = "manager_approve" -> get_next_approver_role(row) = "manager"
      [] kind = "manager_reject" -> row.status = "pending" \/ get_next_approver_role(row) = "manager"
      [] kind = "cancel" -> row.status \in OpenRequest \cup {"approved"}
      [] kind = "delete" -> row.status \in Editable
      [] kind = "staff_delete" -> row.status \in OpenRequest \cup Closed

DecideLoad(w) ==
    /\ pc[w] = "idle"
    /\ \E r \in WithStatus(OpenRequest \cup Closed), kind \in Decision :
        /\ Allowed(kind, request[r])
        /\ Goes(w, "decide", [request |-> r, kind |-> kind])
    /\ UNCHANGED <<request, balance, chain>>

\* The row a decision leaves, and what it does to the balance.
Decided(kind, row) ==
    CASE kind \in {"approve", "manager_approve"} -> apply_approval_step(row)
      [] kind \in {"reject", "manager_reject"} -> Shut("rejected")
      [] kind = "cancel" -> Shut("cancelled")
      [] kind \in {"delete", "staff_delete"} -> Deleted

DaysOf(kind, row) ==
    CASE kind \in {"approve", "manager_approve"} ->
            IF Decided(kind, row).status = "approved" THEN "approve" ELSE "none"
      [] kind \in {"reject", "manager_reject"} -> "reject"
      [] kind \in {"cancel", "delete", "staff_delete"} ->
            IF row.status = "approved" THEN "cancel_approved"
            ELSE IF row.status \in OpenRequest THEN "cancel" ELSE "none"

Applies(w, r, kind) ==
    /\ request' = [request EXCEPT ![r] = Decided(kind, @)]
    /\ LET action == DaysOf(kind, request[r])
       IN  IF action = "none" THEN UNCHANGED balance
           ELSE Counts(update_leave_balance(balance, action, request[r].total_days))

\* Mutant: under the lock the status is not checked again, but for a closed request.
Decide_Stale(w) ==
    /\ pc[w] = "decide" /\ Writable(mem[w].request)
    /\ IF request[mem[w].request].status \in OpenApproval \cup {"approved"}
       THEN Applies(w, mem[w].request, mem[w].kind)
       ELSE UNCHANGED <<request, balance>>
    /\ Ends(w)
    /\ UNCHANGED chain

Decide(w) ==
    /\ pc[w] = "decide" /\ Writable(mem[w].request)
    /\ IF Allowed(mem[w].kind, request[mem[w].request])
       THEN Applies(w, mem[w].request, mem[w].kind)
       ELSE UNCHANGED <<request, balance>>
    /\ Ends(w)
    /\ UNCHANGED chain

----------------------------------------------------------------------------
(* Substitutes, on the locked request *)

\* A substitute agrees; the last one sends the request to its approvers.
Accept(r, s) ==
    /\ request[r].status = "awaiting_substitutes" /\ Writable(r)
    /\ s \in DOMAIN request[r].substitutes /\ request[r].substitutes[s].status = "pending"
    /\ LET row == [request[r] EXCEPT !.substitutes[s] =
                        [status |-> "accepted", on |-> <<request[r].start, request[r].end>>]]
           all == \A t \in DOMAIN row.substitutes : row.substitutes[t].status \in {"accepted", "skipped"}
       IN  request' = [request EXCEPT ![r] = IF all THEN [row EXCEPT !.status = "pending"] ELSE row]
    /\ UNCHANGED <<balance, chain, pc, mem>>

\* One refusal rejects the request.
Refuse(r, s) ==
    /\ request[r].status = "awaiting_substitutes" /\ Writable(r)
    /\ s \in DOMAIN request[r].substitutes /\ request[r].substitutes[s].status = "pending"
    /\ request' = [request EXCEPT ![r] = Shut("rejected")]
    /\ Counts(update_leave_balance(balance, "reject", request[r].total_days))
    /\ UNCHANGED <<chain, pc, mem>>

skip_pending(r) ==
    /\ request[r].status = "awaiting_substitutes" /\ Writable(r)
    /\ request' = [request EXCEPT
            ![r].status = "pending",
            ![r].substitutes = [s \in DOMAIN @ |-> IF @[s].status = "pending" THEN [@[s] EXCEPT !.status = "skipped"]
                                                  ELSE @[s]]]
    /\ UNCHANGED <<balance, chain, pc, mem>>

----------------------------------------------------------------------------
(* The administrator's edit of the balance: read, and every column saved *)

BalanceLoad(w) ==
    /\ pc[w] = "idle"
    /\ \E days \in Allocation \ {balance.allocated_days} :
        Goes(w, "balance", [balance EXCEPT !.allocated_days = days])
    /\ UNCHANGED <<request, balance, chain>>

BalanceSave(w) ==
    /\ pc[w] = "balance"
    /\ balance' = mem[w]
    /\ Ends(w)
    /\ UNCHANGED <<request, chain>>

----------------------------------------------------------------------------
Init ==
    /\ request = [r \in Request |-> NoRow]
    /\ balance \in [allocated_days : Allocation, used_days : {0}, pending_days : {0}]
    /\ chain \in Chain
    /\ pc = [w \in Worker |-> "idle"] /\ mem = [w \in Worker |-> NoMem]

Next ==
    \/ \E w \in Worker :
        \/ Submit(w) \/ Create(w) \/ EditLoad(w) \/ Edit(w) \/ StaffEdit(w) \/ DecideLoad(w) \/ Decide(w)
        \/ BalanceLoad(w) \/ BalanceSave(w)
    \/ \E r \in Request : skip_pending(r) \/ \E s \in Sub : Accept(r, s) \/ Refuse(r, s)
    \/ \E c \in Chain : EditChain(c)

Spec == Init /\ [][Next]_vars

----------------------------------------------------------------------------
(* Properties *)

\* What a worker holds at each place.  The staff's edit holds the row as read.
NewMem == [start : Day, end : Day, days : Nat, substitutes : SUBSET Sub]
EditMem(held) == [request : Request, start : Day \cup {NoDay}, end : Day \cup {NoDay}, days : Nat, row : held]
DecideMem == [request : Request, kind : Decision]

MemOf(where) ==
    CASE where = "idle" -> {NoMem}
      [] where = "create" -> NewMem
      [] where = "edit" -> EditMem({NoMem})
      [] where = "staff_edit" -> EditMem({row \in Row : row.status \in Editable})
      [] where = "decide" -> DecideMem
      [] where = "balance" -> Balance

\* The rows have the columns and choices of the models, and a worker holds what the
\* place it is at in its view has read.
TypeOK ==
    /\ request \in [Request -> Row \cup {NoRow, Deleted, Shut("rejected"), Shut("cancelled")}]
    /\ balance \in Balance
    /\ chain \in Chain
    /\ pc \in [Worker -> {"idle", "create", "edit", "staff_edit", "decide", "balance"}]
    /\ DOMAIN mem = Worker /\ \A w \in Worker : mem[w] \in MemOf(pc[w])

TotalDays(S) == SumOver([r \in S |-> request[r].total_days], S)

\* The balance is the sum over the requests: used days those of approved requests,
\* pending days those of open ones, whoever decides a request at the same time; the
\* clamps at zero of update_leave_balance never hide a day (lock_leave_request:
\* "no double-counted days").
BalanceMatches ==
    /\ balance.used_days = TotalDays(WithStatus({"approved"}))
    /\ balance.pending_days = TotalDays(WithStatus(OpenRequest))

\* A request stands for the dates its days were counted for: an edit that gives one
\* date is not mixed with another edit (LeaveRequestUpdateSerializer).
DaysMatchDates ==
    \A r \in WithStatus(OpenRequest \cup {"approved"}) :
        request[r].total_days = calculate_working_days(request[r].start, request[r].end)

\* The employee is never absent twice on a day (check_overlapping_leaves).
NoOverlap ==
    \A r, q \in WithStatus(OpenRequest \cup {"approved"}) :
        r # q => request[r].end < request[q].start \/ request[q].end < request[r].start

\* A request that is with its approvers, or approved, has the consent of each substitute
\* for the dates it has now, unless staff skipped it (substitutes.py: "every substitute
\* has to accept before the approval chain starts").
ConsentHolds ==
    \A r \in WithStatus(OpenApproval \cup {"approved"}) :
        \A s \in DOMAIN request[r].substitutes :
            LET c == request[r].substitutes[s]
            IN  c.status = "skipped" \/ (c.status = "accepted" /\ c.on = <<request[r].start, request[r].end>>)

\* A request becomes approved only when every step of the chain in force is signed, up
\* to an administrator's, which ends the chain (get_next_approver_role).
ApprovedBySteps ==
    [][\A r \in Request : request[r].status # "approved" /\ request'[r].status = "approved" =>
        \A i \in DOMAIN chain :
            step_signed(request'[r], chain[i]) \/ \E j \in 1..i : chain[j] = "admin"]_vars

============================================================================
