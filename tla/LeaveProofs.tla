------------------------------ MODULE LeaveProofs ------------------------------
(***************************************************************************)
(* Proofs about Leave, for any number of workers, requests, days and       *)
(* substitutes, any holidays and any approval chains.                      *)
(***************************************************************************)
EXTENDS Leave, SumTheorems

----------------------------------------------------------------------------
(* The inductive invariants *)

\* The rows that stand for days of leave.
Live == OpenRequest \cup {"approved"}

Forms == {"create", "edit", "staff_edit"}

\* The dates a form gives its request, when the row is the one it is saved over.
NewStart(m, row) == IF m.start = NoDay THEN row.start ELSE m.start
NewEnd(m, row) == IF m.end = NoDay THEN row.end ELSE m.end

Free(rows, s, e, except) ==
    \A r \in Request \ except : rows[r].status \in Live => rows[r].end < s \/ e < rows[r].start

\* One form about the employee's leave is on the way.
FormAlone ==
    \A v, w \in Worker : pc[v] \in Forms /\ pc[w] \in Forms => v = w

\* The row the staff's edit will save over is the one it read.
StaffHolds ==
    \A w \in Worker : pc[w] = "staff_edit" => mem[w].row = request[mem[w].request]

\* What a new request was validated against still stands when it is inserted.
CreateFits ==
    \A w \in Worker : pc[w] = "create" =>
        /\ mem[w].days = calculate_working_days(mem[w].start, mem[w].end)
        /\ Free(request, mem[w].start, mem[w].end, {})

\* The row an edit starts from: the locked one, for the staff the one it read.
Base(place, m, rows) == IF place = "staff_edit" THEN m.row ELSE rows[m.request]

\* The same for an edit, as long as its request stands for days of leave: the dates it
\* does not give are those of the row it starts from.
EditFits ==
    \A w \in Worker : pc[w] \in {"edit", "staff_edit"} =>
        LET row == Base(pc[w], mem[w], request)
        IN  row.status \in Live =>
                /\ mem[w].days = calculate_working_days(NewStart(mem[w], row), NewEnd(mem[w], row))
                /\ Free(request, NewStart(mem[w], row), NewEnd(mem[w], row), {mem[w].request})

DatesInv ==
    /\ TypeOK /\ FormAlone /\ CreateFits /\ EditFits
    /\ DaysMatchDates /\ NoOverlap

\* A consent is for the dates of its row also while others are awaited.
AcceptedFits ==
    \A r \in WithStatus(Live) : \A s \in DOMAIN request[r].substitutes :
        LET c == request[r].substitutes[s]
        IN  c.status = "accepted" => c.on = <<request[r].start, request[r].end>>

ConsentInv ==
    /\ TypeOK /\ FormAlone /\ StaffHolds
    /\ AcceptedFits /\ ConsentHolds

\* What an administrator who edits the balance read is still what the row says.
BalanceHeld ==
    \A w \in Worker : pc[w] = "balance" =>
        mem[w].used_days = balance.used_days /\ mem[w].pending_days = balance.pending_days

BalanceInv ==
    /\ TypeOK /\ FormAlone /\ StaffHolds
    /\ BalanceHeld /\ BalanceMatches

----------------------------------------------------------------------------
(* Rows *)

AnyRow == Row \cup {NoRow, Deleted, Shut("rejected"), Shut("cancelled")}

\* The columns of a row.
LEMMA RowFields ==
    ASSUME NEW row \in Row
    PROVE  /\ row.status \in Live /\ row.start \in Day /\ row.end \in Day /\ row.total_days \in Nat
           /\ row.manager_approver \in BOOLEAN /\ row.hr_approver \in BOOLEAN
           /\ row.substitutes \in Consents
BY DEF Row, Live

\* A row with a status of a standing request has all columns.
LEMMA LiveRow ==
    ASSUME TypeOK, NEW r \in Request, request[r].status \in Live
    PROVE  request[r] \in Row
<1>1. request[r] \in Row \cup {NoRow, Deleted, Shut("rejected"), Shut("cancelled")}
  BY DEF TypeOK
<1> QED
  BY <1>1 DEF NoRow, Deleted, Shut, Live, OpenRequest, OpenApproval

\* Consents by their members: the functions from sets of substitutes.
LEMMA ConsentsFun ==
    /\ \A f \in Consents : DOMAIN f \subseteq Sub /\ \A s \in DOMAIN f : f[s] \in Consent
    /\ \A S \in SUBSET Sub : \A f \in [S -> Consent] : f \in Consents
BY DEF Consents

\* The working days of a period are a natural number, whatever the holidays.
LEMMA WorkingDays ==
    ASSUME NEW s \in Day, NEW e \in Day
    PROVE  calculate_working_days(s, e) \in Nat
<1>1. s \in Int /\ e \in Int
  BY LeaveAssumption DEF Day
<1>2. IsFiniteSet(s..e)
  BY <1>1, FS_Interval
<1>3. IsFiniteSet((s..e) \ Holiday)
  BY <1>2, FS_Difference
<1> QED
  BY <1>3, FS_CardinalityType DEF calculate_working_days

\* update_leave_balance keeps the columns natural numbers: the clamps.
LEMMA BalanceType ==
    ASSUME NEW b \in Balance, NEW days \in Nat,
           NEW action \in {"pending", "approve", "reject", "cancel", "cancel_approved"}
    PROVE  update_leave_balance(b, action, days) \in Balance
<1> DEFINE less(x) == IF x > days THEN x - days ELSE 0
<1>1. b.used_days \in Nat /\ b.pending_days \in Nat
  BY DEF Balance
<1>2. \A x \in Nat : less(x) \in Nat /\ x + days \in Nat
  OBVIOUS
<1>3. \A x : Less(x, days) = less(x)
  BY DEF Less
<1> HIDE DEF less
<1>4. CASE action = "pending"
  BY <1>1, <1>2, <1>4 DEF update_leave_balance, Balance
<1>5. CASE action = "approve"
  BY <1>1, <1>2, <1>3, <1>5 DEF update_leave_balance, Balance
<1>6. CASE action \in {"reject", "cancel"}
  BY <1>1, <1>2, <1>3, <1>6 DEF update_leave_balance, Balance
<1>7. CASE action = "cancel_approved"
  BY <1>1, <1>2, <1>3, <1>7 DEF update_leave_balance, Balance
<1> QED
  BY <1>4, <1>5, <1>6, <1>7

\* The row an edit leaves.
LEMMA EditedRow ==
    ASSUME NEW row \in Row, NEW m, m.start \in Day \cup {NoDay}, m.end \in Day \cup {NoDay}, m.days \in Nat
    PROVE  /\ Edited(row, m) \in Row
           /\ Edited(row, m).start = NewStart(m, row) /\ Edited(row, m).end = NewEnd(m, row)
           /\ Edited(row, m).total_days = m.days
           /\ Edited(row, m).status \in {row.status, "awaiting_substitutes"}
           /\ \/ Edited(row, m).status = row.status /\ Edited(row, m).substitutes = row.substitutes
                 /\ (DOMAIN row.substitutes = {} \/ (NewStart(m, row) = row.start /\ NewEnd(m, row) = row.end))
              \/ Edited(row, m).status = "awaiting_substitutes"
                 /\ \A s \in DOMAIN Edited(row, m).substitutes : Edited(row, m).substitutes[s] = Asked
<1> DEFINE new == [row EXCEPT !.start = NewStart(m, row), !.end = NewEnd(m, row), !.total_days = m.days]
           moved == <<new.start, new.end>> # <<row.start, row.end>>
           asked == [new EXCEPT !.status = "awaiting_substitutes",
                                !.substitutes = [s \in DOMAIN new.substitutes |-> Asked]]
<1>1. Edited(row, m) = IF moved /\ DOMAIN row.substitutes # {} THEN asked ELSE new
  BY DEF Edited, NewStart, NewEnd
<1>2. NewStart(m, row) \in Day /\ NewEnd(m, row) \in Day
  BY RowFields DEF NewStart, NewEnd
<1>3. /\ new \in Row /\ new.status = row.status /\ new.substitutes = row.substitutes
      /\ new.start = NewStart(m, row) /\ new.end = NewEnd(m, row) /\ new.total_days = m.days
  BY <1>2 DEF Row
<1>4. [s \in DOMAIN row.substitutes |-> Asked] \in Consents
  <2>1. Asked \in Consent
    BY DEF Asked, Consent
  <2>2. DOMAIN row.substitutes \in SUBSET Sub
    BY RowFields, ConsentsFun
  <2> QED
    BY <2>1, <2>2, ConsentsFun
<1> HIDE DEF new
<1>5. /\ asked \in Row /\ asked.status = "awaiting_substitutes"
      /\ asked.substitutes = [s \in DOMAIN row.substitutes |-> Asked]
      /\ asked.start = new.start /\ asked.end = new.end /\ asked.total_days = new.total_days
  <2>1. asked = [new EXCEPT !.status = "awaiting_substitutes",
                            !.substitutes = [s \in DOMAIN row.substitutes |-> Asked]]
    BY <1>3
  <2> HIDE DEF asked
  <2>2. "awaiting_substitutes" \in OpenRequest \cup {"approved"}
    BY DEF OpenRequest
  <2> QED
    BY <1>3, <1>4, <2>1, <2>2 DEF Row
<1> HIDE DEF asked
<1>6. CASE moved /\ DOMAIN row.substitutes # {}
  BY <1>1, <1>3, <1>5, <1>6
<1>7. CASE ~(moved /\ DOMAIN row.substitutes # {})
  BY <1>1, <1>3, <1>7
<1> QED
  BY <1>6, <1>7

\* A nonempty set of positions in the chain has a first one.
LEMMA First ==
    ASSUME NEW S \in SUBSET Nat, S # {}
    PROVE  Min(S) \in S /\ \A u \in S : Min(S) <= u
<1>1. PICK s \in S : \A u \in S : ~(<<u, s>> \in OpToRel(<, Nat))
  BY NatLessThanWellFounded, WFMin
<1>2. ASSUME NEW u \in S PROVE s <= u
  <2>1. SUFFICES ASSUME u < s PROVE FALSE
    OBVIOUS
  <2>2. <<u, s>> \in Nat \X Nat /\ <<u, s>>[1] < <<u, s>>[2]
    BY <2>1
  <2>3. <<u, s>> \in OpToRel(<, Nat)
    BY ONLY <2>2, Zenon DEF OpToRel
  <2> QED
    BY <1>1, <2>3
<1> QED
  BY <1>2 DEF Min

\* The chain in force is a sequence of roles.
LEMMA ChainRoles ==
    ASSUME TypeOK
    PROVE  chain \in Seq(Role) /\ DOMAIN chain \in SUBSET Nat /\ \A i \in DOMAIN chain : chain[i] \in Role
BY LeaveAssumption DEF TypeOK

\* The next approver is the role of an unsigned step with none before it; nobody's turn
\* it is when all steps are signed.
LEMMA NextRole ==
    ASSUME TypeOK, NEW row, row.status \in OpenApproval
    PROVE  LET role == get_next_approver_role(row)
           IN  \/ /\ role = "none"
                  /\ \A i \in DOMAIN chain : step_signed(row, chain[i])
               \/ \E i \in DOMAIN chain :
                    /\ role = chain[i] /\ role \in Role /\ ~step_signed(row, role)
                    /\ \A j \in DOMAIN chain : j < i => step_signed(row, chain[j])
<1> DEFINE open == {i \in DOMAIN chain : ~step_signed(row, chain[i])}
<1>1. open \in SUBSET Nat /\ open \subseteq DOMAIN chain
  BY ChainRoles
<1>2. get_next_approver_role(row) = IF open = {} THEN "none" ELSE chain[Min(open)]
  BY DEF get_next_approver_role
<1>3. CASE open = {}
  BY <1>2, <1>3
<1>4. CASE open # {}
  <2>1. Min(open) \in open /\ \A u \in open : Min(open) <= u
    BY <1>1, <1>4, First
  <2>2. \A j \in DOMAIN chain : j < Min(open) => step_signed(row, chain[j])
    <3> SUFFICES ASSUME NEW j \in DOMAIN chain, j < Min(open), ~step_signed(row, chain[j]) PROVE FALSE
      OBVIOUS
    <3>1. j \in open
      OBVIOUS
    <3>2. Min(open) \in Nat /\ j \in Nat
      BY <1>1, <2>1, <3>1
    <3> HIDE DEF open
    <3> QED
      BY <2>1, <3>1, <3>2
  <2> QED
    BY <1>1, <1>2, <1>4, <2>1, <2>2, ChainRoles
<1> QED
  BY <1>3, <1>4

\* What apply_approval_step does to a row that is with its approvers.
LEMMA StepRow ==
    ASSUME TypeOK, NEW row \in Row, row.status \in OpenApproval
    PROVE  LET new == apply_approval_step(row)
           IN  /\ new \in Row
               /\ new.status \in {"manager_approved", "hr_approved", "approved"}
               /\ new.start = row.start /\ new.end = row.end
               /\ new.total_days = row.total_days /\ new.substitutes = row.substitutes
               /\ new.status = "approved" =>
                    \A i \in DOMAIN chain : step_signed(new, chain[i]) \/ \E j \in 1..i : chain[j] = "admin"
<1> DEFINE role == get_next_approver_role(row)
           signed == CASE role = "manager" -> [row EXCEPT !.manager_approver = TRUE, !.status = "manager_approved"]
                       [] role = "hr" -> [row EXCEPT !.hr_approver = TRUE, !.status = "hr_approved"]
                       [] OTHER -> row
           last == get_next_approver_role(signed)
           new == apply_approval_step(row)
<1>1. new = IF role = "admin" \/ last = "none" THEN [signed EXCEPT !.status = "approved"] ELSE signed
  BY DEF apply_approval_step
<1>2. \/ /\ role = "none"
         /\ \A i \in DOMAIN chain : step_signed(row, chain[i])
      \/ \E i \in DOMAIN chain :
           /\ role = chain[i] /\ role \in Role /\ ~step_signed(row, role)
           /\ \A j \in DOMAIN chain : j < i => step_signed(row, chain[j])
  BY NextRole
<1> HIDE DEF role
<1>3. signed \in Row /\ signed.status \in OpenApproval
      /\ signed.start = row.start /\ signed.end = row.end
      /\ signed.total_days = row.total_days /\ signed.substitutes = row.substitutes
  <2>1. {"manager_approved", "hr_approved"} \subseteq OpenApproval /\ OpenApproval \subseteq OpenRequest \cup {"approved"}
    BY DEF OpenApproval, OpenRequest
  <2>2. CASE role = "manager"
    BY <2>1, <2>2 DEF Row
  <2>3. CASE role = "hr"
    BY <2>1, <2>3 DEF Row
  <2>4. CASE role \notin {"manager", "hr"}
    BY <2>4
  <2> QED
    BY <2>2, <2>3, <2>4
<1>4. \/ /\ last = "none"
         /\ \A i \in DOMAIN chain : step_signed(signed, chain[i])
      \/ last \in Role
  <2> HIDE DEF signed
  <2> QED
    BY <1>3, NextRole
<1>5. role \notin {"manager", "hr"} => signed = row
  OBVIOUS
<1>6. role = "none" => last = "none"
  BY <1>5 DEF role
<1>7. role \in {"manager", "hr"} => signed.status \in {"manager_approved", "hr_approved"}
  BY DEF Row
<1> HIDE DEF signed, last, new
<1>8. new \in Row /\ new.start = row.start /\ new.end = row.end
      /\ new.total_days = row.total_days /\ new.substitutes = row.substitutes
  BY <1>1, <1>3 DEF Row
<1>9. new.status \in {"manager_approved", "hr_approved", "approved"}
  BY <1>1, <1>2, <1>3, <1>6, <1>7 DEF Row, Role
<1>10. ASSUME new.status = "approved", NEW i \in DOMAIN chain
       PROVE  step_signed(new, chain[i]) \/ \E j \in 1..i : chain[j] = "admin"
  <2>1. new.manager_approver = signed.manager_approver /\ new.hr_approver = signed.hr_approver
    BY <1>1, <1>3 DEF Row
  <2>2. \A x : step_signed(new, x) <=> step_signed(signed, x)
    BY <2>1 DEF step_signed
  <2>3. new.status = "approved" => role = "admin" \/ last = "none"
    BY <1>1, <1>3 DEF OpenApproval
  <2>4. CASE last = "none"
    <3>1. step_signed(signed, chain[i])
      BY <1>4, <2>4 DEF Role
    <3> QED
      BY <2>2, <3>1
  <2>5. CASE role = "admin"
    <3>1. PICK k \in DOMAIN chain : chain[k] = "admin" /\ \A j \in DOMAIN chain : j < k => step_signed(row, chain[j])
      BY <1>2, <2>5
    <3>2. signed = row
      BY <1>5, <2>5
    <3>3. DOMAIN chain = 1..Len(chain) /\ Len(chain) \in Nat
      BY ChainRoles
    <3>4. CASE i < k
      BY <2>2, <3>1, <3>2, <3>4
    <3>5. CASE ~(i < k)
      <4>1. k \in 1..i
        BY <3>3, <3>5
      <4> QED
        BY <3>1, <4>1
    <3> QED
      BY <3>4, <3>5
  <2> QED
    BY <1>10, <2>3, <2>4, <2>5
<1> QED
  BY <1>8, <1>9, <1>10 DEF new

----------------------------------------------------------------------------
(* Type correctness *)

Place == {"idle", "create", "edit", "staff_edit", "decide", "balance"}

\* What a worker may come to hold.
LEMMA MayHold ==
    /\ NoMem \in MemOf("idle")
    /\ MemOf("create") = NewMem
    /\ MemOf("edit") = EditMem({NoMem})
    /\ MemOf("staff_edit") = EditMem({row \in Row : row.status \in Editable})
    /\ MemOf("decide") = DecideMem
    /\ MemOf("balance") = Balance
BY Zenon DEF MemOf

\* What a worker holds, by its place.
LEMMA Holds ==
    ASSUME TypeOK, NEW w \in Worker
    PROVE  /\ pc[w] = "create" => mem[w] \in NewMem
           /\ pc[w] \in {"edit", "staff_edit"} =>
                /\ mem[w].request \in Request /\ mem[w].days \in Nat
                /\ mem[w].start \in Day \cup {NoDay} /\ mem[w].end \in Day \cup {NoDay}
           /\ pc[w] = "staff_edit" => mem[w].row \in Row /\ mem[w].row.status \in Editable
           /\ pc[w] = "decide" => mem[w].request \in Request /\ mem[w].kind \in Decision
           /\ pc[w] = "balance" => mem[w] \in Balance
<1>1. mem[w] \in MemOf(pc[w])
  BY DEF TypeOK
<1>2. /\ MemOf("create") = NewMem
      /\ MemOf("edit") = EditMem({NoMem})
      /\ MemOf("staff_edit") = EditMem({row \in Row : row.status \in Editable})
      /\ MemOf("decide") = DecideMem
      /\ MemOf("balance") = Balance
  BY MayHold
<1>3. ASSUME NEW held, mem[w] \in EditMem(held)
      PROVE  /\ mem[w].request \in Request /\ mem[w].days \in Nat
             /\ mem[w].start \in Day \cup {NoDay} /\ mem[w].end \in Day \cup {NoDay}
             /\ mem[w].row \in held
  BY <1>3 DEF EditMem
<1>4. pc[w] = "edit" => mem[w] \in EditMem({NoMem})
  BY <1>1, <1>2
<1>5. pc[w] = "staff_edit" => mem[w] \in EditMem({row \in Row : row.status \in Editable})
  BY <1>1, <1>2
<1>6. pc[w] = "staff_edit" => mem[w].row \in {row \in Row : row.status \in Editable}
  BY <1>3, <1>5
<1>7. pc[w] = "decide" => mem[w] \in DecideMem
  BY <1>1, <1>2
<1>8. pc[w] = "decide" => mem[w].request \in Request /\ mem[w].kind \in Decision
  BY <1>7 DEF DecideMem
<1> QED
  BY <1>1, <1>2, <1>3, <1>4, <1>5, <1>6, <1>8

LEMMA GoesType ==
    ASSUME TypeOK, NEW w \in Worker, NEW where \in Place, NEW m \in MemOf(where), Goes(w, where, m)
    PROVE  /\ pc' \in [Worker -> Place]
           /\ DOMAIN mem' = Worker /\ \A v \in Worker : mem'[v] \in MemOf(pc'[v])
<1>1. pc \in [Worker -> Place] /\ DOMAIN mem = Worker /\ \A v \in Worker : mem[v] \in MemOf(pc[v])
  BY DEF TypeOK, Place
<1>2. pc' = [pc EXCEPT ![w] = where] /\ mem' = [mem EXCEPT ![w] = m]
  BY DEF Goes
<1> QED
  BY <1>1, <1>2

LEMMA EndsType ==
    ASSUME TypeOK, NEW w \in Worker, Ends(w)
    PROVE  /\ pc' \in [Worker -> Place]
           /\ DOMAIN mem' = Worker /\ \A v \in Worker : mem'[v] \in MemOf(pc'[v])
<1>1. NoMem \in MemOf("idle") /\ "idle" \in Place
  BY MayHold DEF Place
<1> QED
  BY <1>1, GoesType DEF Ends

LEMMA WriteType ==
    ASSUME TypeOK, NEW r \in Request, NEW new \in AnyRow, request' = [request EXCEPT ![r] = new]
    PROVE  request' \in [Request -> AnyRow]
BY DEF TypeOK, AnyRow

\* The parts of TypeOK in the next state.
LEMMA TypeParts ==
    ASSUME request' \in [Request -> AnyRow], balance' \in Balance, chain' \in Chain,
           pc' \in [Worker -> Place],
           DOMAIN mem' = Worker, \A v \in Worker : mem'[v] \in MemOf(pc'[v])
    PROVE  TypeOK'
BY DEF TypeOK, AnyRow, Place

\* The parts of TypeOK a step leaves alone.
LEMMA TypeNow ==
    ASSUME TypeOK
    PROVE  /\ request \in [Request -> AnyRow] /\ balance \in Balance /\ chain \in Chain
           /\ pc \in [Worker -> Place]
           /\ DOMAIN mem = Worker /\ \A v \in Worker : mem[v] \in MemOf(pc[v])
BY DEF TypeOK, AnyRow, Place

\* Saves writes the edited row and moves the difference of the days.
LEMMA SavesType ==
    ASSUME TypeOK, NEW w \in Worker, pc[w] \in {"edit", "staff_edit"}, NEW row \in Row, Saves(w, row)
    PROVE  request' \in [Request -> AnyRow] /\ balance' \in Balance
<1>1. /\ mem[w].request \in Request /\ mem[w].days \in Nat
      /\ mem[w].start \in Day \cup {NoDay} /\ mem[w].end \in Day \cup {NoDay}
  BY Holds
<1>2. Edited(row, mem[w]) \in AnyRow
  BY <1>1, EditedRow DEF AnyRow
<1>3. request' \in [Request -> AnyRow]
  BY <1>1, <1>2, WriteType DEF Saves
<1>4. row.total_days \in Nat /\ balance \in Balance
  BY RowFields DEF TypeOK
<1>5. update_leave_balance(update_leave_balance(balance, "cancel", row.total_days),
                           "pending", mem[w].days) \in Balance
  BY <1>1, <1>4, BalanceType
<1>6. balance' \in Balance
  BY <1>4, <1>5 DEF Saves, Counts
<1> QED
  BY <1>3, <1>6

\* The decision writes a row, and the balance when it closes or approves the request.
LEMMA AppliesType ==
    ASSUME TypeOK, NEW w \in Worker, NEW r \in Request, NEW kind \in Decision,
           Allowed(kind, request[r]), Applies(w, r, kind)
    PROVE  request' \in [Request -> AnyRow] /\ balance' \in Balance
<1>1. kind \in {"approve", "manager_approve"} => request[r].status \in OpenApproval
  <2>1. kind = "approve" => request[r].status \in OpenApproval
    BY DEF Allowed
  <2>2. kind = "manager_approve" => get_next_approver_role(request[r]) = "manager"
    BY DEF Allowed
  <2> QED
    BY <2>1, <2>2 DEF get_next_approver_role
<1>2. Decided(kind, request[r]) \in AnyRow
  <2>1. CASE kind \in {"approve", "manager_approve"}
    <3>1. request[r] \in Row
      BY <1>1, <2>1, LiveRow DEF Live, OpenRequest
    <3>2. apply_approval_step(request[r]) \in Row
      BY <1>1, <2>1, <3>1, StepRow
    <3> QED
      BY <2>1, <3>2 DEF Decided, AnyRow
  <2>2. CASE kind \notin {"approve", "manager_approve"}
    BY <2>2 DEF Decided, AnyRow, Decision
  <2> QED
    BY <2>1, <2>2
<1>3. request' \in [Request -> AnyRow]
  BY <1>2, WriteType DEF Applies
<1>4. balance' \in Balance
  <2>1. DaysOf(kind, request[r]) \in {"approve", "reject", "cancel", "cancel_approved", "none"}
    BY DEF DaysOf, Decision
  <2>2. CASE DaysOf(kind, request[r]) = "none"
    BY <2>2 DEF Applies, TypeOK
  <2>3. CASE DaysOf(kind, request[r]) # "none"
    <3>1. request[r].status \in Live
      <4>1. CASE kind \in {"approve", "manager_approve"}
        BY <1>1, <4>1 DEF Live, OpenRequest
      <4>2. CASE kind = "reject"
        BY <4>2 DEF Allowed, Live, OpenRequest
      <4>3. CASE kind = "manager_reject"
        <5>1. request[r].status = "pending" \/ get_next_approver_role(request[r]) = "manager"
          BY <4>3 DEF Allowed
        <5> QED
          BY <5>1 DEF get_next_approver_role, Live, OpenRequest, OpenApproval
      <4>4. CASE kind \in {"cancel", "delete", "staff_delete"}
        BY <2>3, <4>4 DEF DaysOf, Live
      <4> QED
        BY <4>1, <4>2, <4>3, <4>4 DEF Decision
    <3>2. request[r].total_days \in Nat
      BY <3>1, LiveRow, RowFields
    <3>3. balance' = update_leave_balance(balance, DaysOf(kind, request[r]), request[r].total_days)
      BY <2>3 DEF Applies, Counts
    <3> QED
      BY <2>1, <2>3, <3>2, <3>3, BalanceType DEF TypeOK
  <2> QED
    BY <2>2, <2>3
<1> QED
  BY <1>3, <1>4

LEMMA TypeStep ==
    ASSUME TypeOK, [Next]_vars
    PROVE  TypeOK'
<1>0. /\ request \in [Request -> AnyRow] /\ balance \in Balance /\ chain \in Chain
      /\ pc \in [Worker -> Place]
      /\ DOMAIN mem = Worker /\ \A v \in Worker : mem[v] \in MemOf(pc[v])
  BY TypeNow
<1>1. ASSUME NEW w \in Worker, Submit(w) PROVE TypeOK'
  <2>1. PICK s \in Day, e \in Day, subs \in SUBSET Sub :
            Goes(w, "create", [start |-> s, end |-> e, days |-> calculate_working_days(s, e), substitutes |-> subs])
    BY <1>1 DEF Submit
  <2>2. [start |-> s, end |-> e, days |-> calculate_working_days(s, e), substitutes |-> subs] \in MemOf("create")
    BY WorkingDays, MayHold DEF NewMem
  <2>3. "create" \in Place
    BY DEF Place
  <2>4. /\ pc' \in [Worker -> Place]
        /\ DOMAIN mem' = Worker /\ \A v \in Worker : mem'[v] \in MemOf(pc'[v])
    BY <2>1, <2>2, <2>3, GoesType
  <2> QED
    BY <1>0, <1>1, <2>4, TypeParts DEF Submit
<1>2. ASSUME NEW w \in Worker, Create(w) PROVE TypeOK'
  <2>1. mem[w].start \in Day /\ mem[w].end \in Day /\ mem[w].days \in Nat /\ mem[w].substitutes \in SUBSET Sub
    BY <1>2, Holds DEF Create, NewMem
  <2>2. [s \in mem[w].substitutes |-> Asked] \in Consents
    <3>1. Asked \in Consent
      BY DEF Asked, Consent
    <3> QED
      BY <2>1, <3>1, ConsentsFun
  <2> DEFINE new == [status |-> IF mem[w].substitutes = {} THEN "pending" ELSE "awaiting_substitutes",
                     start |-> mem[w].start, end |-> mem[w].end, total_days |-> mem[w].days,
                     manager_approver |-> FALSE, hr_approver |-> FALSE,
                     substitutes |-> [s \in mem[w].substitutes |-> Asked]]
  <2>3. new \in AnyRow
    BY <2>1, <2>2 DEF AnyRow, Row, OpenRequest, OpenApproval
  <2>4. PICK r \in Request : request' = [request EXCEPT ![r] = new]
    BY <1>2 DEF Create, WithStatus
  <2> HIDE DEF new
  <2>5. request' \in [Request -> AnyRow]
    BY <2>3, <2>4, WriteType
  <2>6. balance' \in Balance
    BY <1>0, <1>2, <2>1, BalanceType DEF Create, Counts
  <2> QED
    BY <1>0, <1>2, <2>5, <2>6, EndsType, TypeParts DEF Create
<1>3. ASSUME NEW w \in Worker, EditLoad(w) PROVE TypeOK'
  <2>1. PICK r \in WithStatus(Editable), s \in Day \cup {NoDay}, e \in Day \cup {NoDay}, by \in {"edit", "staff_edit"} :
            Goes(w, by, [request |-> r, start |-> s, end |-> e,
                         days |-> calculate_working_days(IF s = NoDay THEN request[r].start ELSE s,
                                                         IF e = NoDay THEN request[r].end ELSE e),
                         row |-> IF by = "edit" THEN NoMem ELSE request[r]])
    BY <1>3 DEF EditLoad
  <2> DEFINE start == IF s = NoDay THEN request[r].start ELSE s
             end == IF e = NoDay THEN request[r].end ELSE e
             m == [request |-> r, start |-> s, end |-> e, days |-> calculate_working_days(start, end),
                   row |-> IF by = "edit" THEN NoMem ELSE request[r]]
  <2>2. r \in Request /\ request[r].status \in Editable
    BY DEF WithStatus
  <2>3. request[r] \in Row
    BY <2>2, LiveRow DEF Live, Editable, OpenRequest, OpenApproval
  <2>4. calculate_working_days(start, end) \in Nat
    <3>1. start \in Day /\ end \in Day
      BY <2>3, RowFields
    <3> HIDE DEF start, end
    <3> QED
      BY <3>1, WorkingDays
  <2>5. m \in MemOf(by)
    <3> DEFINE days == calculate_working_days(start, end)
    <3> HIDE DEF start, end, days
    <3>1. CASE by = "edit"
      <4>1. m.row \in {NoMem}
        BY <3>1
      <4> QED
        BY <2>2, <2>4, <3>1, <4>1, MayHold DEF EditMem, days
    <3>2. CASE by = "staff_edit"
      <4>1. request[r] \in {row \in Row : row.status \in Editable}
        BY <2>2, <2>3
      <4>2. m \in EditMem({row \in Row : row.status \in Editable})
        BY <2>2, <2>4, <3>2, <4>1 DEF EditMem, days
      <4> QED
        BY <3>2, <4>2, MayHold
    <3> QED
      BY <3>1, <3>2
  <2>6. by \in Place
    BY DEF Place
  <2> HIDE DEF m
  <2>7. Goes(w, by, m)
    BY <2>1 DEF m
  <2>8. /\ pc' \in [Worker -> Place]
        /\ DOMAIN mem' = Worker /\ \A v \in Worker : mem'[v] \in MemOf(pc'[v])
    BY <2>5, <2>6, <2>7, GoesType
  <2> QED
    BY <1>0, <1>3, <2>8, TypeParts DEF EditLoad
<1>4. ASSUME NEW w \in Worker, Edit(w) PROVE TypeOK'
  <2>1. mem[w].request \in Request
    BY <1>4, Holds DEF Edit
  <2>2. request' \in [Request -> AnyRow] /\ balance' \in Balance
    <3>1. CASE request[mem[w].request].status \in Editable
      <4>1. request[mem[w].request] \in Row
        BY <2>1, <3>1, LiveRow DEF Live, Editable, OpenRequest, OpenApproval
      <4> QED
        BY <1>4, <3>1, <4>1, SavesType DEF Edit
    <3>2. CASE request[mem[w].request].status \notin Editable
      BY <1>0, <1>4, <3>2 DEF Edit
    <3> QED
      BY <3>1, <3>2
  <2> QED
    BY <1>0, <1>4, <2>2, EndsType, TypeParts DEF Edit
<1>5. ASSUME NEW w \in Worker, StaffEdit(w) PROVE TypeOK'
  <2> DEFINE now == request[mem[w].request]
             row == [mem[w].row EXCEPT !.substitutes =
                        IF now.status \in OpenRequest \cup {"approved"} THEN now.substitutes ELSE @]
  <2>1. mem[w].request \in Request /\ mem[w].row \in Row
    BY <1>5, Holds DEF StaffEdit
  <2>2. now.status \in OpenRequest \cup {"approved"} => now.substitutes \in Consents
    BY <2>1, LiveRow, RowFields DEF Live
  <2>3. row \in Row
    BY <2>1, <2>2 DEF Row
  <2>4. Saves(w, row)
    BY <1>5 DEF StaffEdit
  <2> HIDE DEF row
  <2>5. request' \in [Request -> AnyRow] /\ balance' \in Balance
    BY <1>5, <2>3, <2>4, SavesType DEF StaffEdit
  <2> QED
    BY <1>0, <1>5, <2>5, EndsType, TypeParts DEF StaffEdit
<1>6. ASSUME NEW w \in Worker, DecideLoad(w) PROVE TypeOK'
  <2>1. PICK r \in Request, kind \in Decision : Goes(w, "decide", [request |-> r, kind |-> kind])
    BY <1>6 DEF DecideLoad, WithStatus
  <2>2. [request |-> r, kind |-> kind] \in MemOf("decide") /\ "decide" \in Place
    BY MayHold DEF DecideMem, Place
  <2>3. /\ pc' \in [Worker -> Place]
        /\ DOMAIN mem' = Worker /\ \A v \in Worker : mem'[v] \in MemOf(pc'[v])
    BY <2>1, <2>2, GoesType
  <2> QED
    BY <1>0, <1>6, <2>3, TypeParts DEF DecideLoad
<1>7. ASSUME NEW w \in Worker, Decide(w) PROVE TypeOK'
  <2>1. mem[w].request \in Request /\ mem[w].kind \in Decision
    BY <1>7, Holds DEF Decide
  <2>2. request' \in [Request -> AnyRow] /\ balance' \in Balance
    <3>1. CASE Allowed(mem[w].kind, request[mem[w].request])
      BY <1>7, <2>1, <3>1, AppliesType DEF Decide
    <3>2. CASE ~Allowed(mem[w].kind, request[mem[w].request])
      BY <1>0, <1>7, <3>2 DEF Decide
    <3> QED
      BY <3>1, <3>2
  <2> QED
    BY <1>0, <1>7, <2>2, EndsType, TypeParts DEF Decide
<1>8. ASSUME NEW w \in Worker, BalanceLoad(w) PROVE TypeOK'
  <2>1. PICK days \in Allocation : Goes(w, "balance", [balance EXCEPT !.allocated_days = days])
    BY <1>8 DEF BalanceLoad
  <2>2. [balance EXCEPT !.allocated_days = days] \in MemOf("balance") /\ "balance" \in Place
    BY <1>0, MayHold, LeaveAssumption DEF Balance, Place
  <2>3. /\ pc' \in [Worker -> Place]
        /\ DOMAIN mem' = Worker /\ \A v \in Worker : mem'[v] \in MemOf(pc'[v])
    BY <2>1, <2>2, GoesType
  <2> QED
    BY <1>0, <1>8, <2>3, TypeParts DEF BalanceLoad
<1>9. ASSUME NEW w \in Worker, BalanceSave(w) PROVE TypeOK'
  <2>1. balance' \in Balance
    BY <1>9, Holds DEF BalanceSave
  <2> QED
    BY <1>0, <1>9, <2>1, EndsType, TypeParts DEF BalanceSave
<1>10. ASSUME NEW r \in Request, skip_pending(r) PROVE TypeOK'
  <2> DEFINE old == request[r].substitutes
             subs == [s \in DOMAIN old |-> IF old[s].status = "pending" THEN [old[s] EXCEPT !.status = "skipped"]
                                           ELSE old[s]]
             new == [request[r] EXCEPT !.status = "pending", !.substitutes = subs]
  <2>1. request[r] \in Row
    BY <1>10, LiveRow DEF skip_pending, Live, OpenRequest
  <2>2. DOMAIN old \in SUBSET Sub /\ \A s \in DOMAIN old : old[s] \in Consent
    BY <2>1, RowFields, ConsentsFun
  <2>3. subs \in Consents
    <3>1. subs \in [DOMAIN old -> Consent]
      BY <2>2 DEF Consent
    <3> QED
      BY <2>2, <3>1, ConsentsFun
  <2>4. request' = [request EXCEPT ![r] = new]
    BY <1>10, <2>1 DEF skip_pending
  <2> HIDE DEF subs
  <2>5. new \in AnyRow
    BY <2>1, <2>3 DEF Row, AnyRow, OpenRequest, OpenApproval
  <2> HIDE DEF new
  <2> QED
    BY <1>0, <1>10, <2>4, <2>5, WriteType, TypeParts DEF skip_pending
<1>11. ASSUME NEW r \in Request, NEW s \in Sub, Accept(r, s) PROVE TypeOK'
  <2> DEFINE old == request[r].substitutes
             yes == [status |-> "accepted", on |-> <<request[r].start, request[r].end>>]
             subs == [old EXCEPT ![s] = yes]
             row == [request[r] EXCEPT !.substitutes = subs]
  <2>1. request[r] \in Row
    BY <1>11, LiveRow DEF Accept, Live, OpenRequest
  <2>2. DOMAIN old \in SUBSET Sub /\ old \in [DOMAIN old -> Consent]
    BY <2>1, RowFields DEF Consents
  <2>3. yes \in Consent
    BY <2>1, RowFields DEF Consent
  <2>4. subs \in Consents
    <3>1. subs \in [DOMAIN old -> Consent]
      BY <2>2, <2>3
    <3> QED
      BY <2>2, <3>1, ConsentsFun
  <2>5. row \in Row /\ [row EXCEPT !.status = "pending"] \in Row
    <3> HIDE DEF subs
    <3> QED
      BY <2>1, <2>4 DEF Row, OpenRequest, OpenApproval
  <2>6. \/ request' = [request EXCEPT ![r] = row]
        \/ request' = [request EXCEPT ![r] = [row EXCEPT !.status = "pending"]]
    BY <1>11 DEF Accept
  <2> HIDE DEF row
  <2>7. request' \in [Request -> AnyRow]
    BY <2>5, <2>6, WriteType DEF AnyRow
  <2> QED
    BY <1>0, <1>11, <2>7, TypeParts DEF Accept
<1>12. ASSUME NEW r \in Request, NEW s \in Sub, Refuse(r, s) PROVE TypeOK'
  <2>1. request[r].total_days \in Nat
    BY <1>12, LiveRow, RowFields DEF Refuse, Live, OpenRequest
  <2>2. balance' \in Balance
    BY <1>0, <1>12, <2>1, BalanceType DEF Refuse, Counts
  <2>3. Shut("rejected") \in AnyRow
    BY DEF AnyRow
  <2>4. request' \in [Request -> AnyRow]
    BY <1>12, <2>3, WriteType DEF Refuse
  <2> QED
    BY <1>0, <1>12, <2>2, <2>4, TypeParts DEF Refuse
<1>13. ASSUME NEW c \in Chain, EditChain(c) PROVE TypeOK'
  BY <1>0, <1>13, TypeParts DEF EditChain
<1>14. CASE UNCHANGED vars
  BY <1>0, <1>14, TypeParts DEF vars
<1> QED
  BY <1>1, <1>2, <1>3, <1>4, <1>5, <1>6, <1>7, <1>8, <1>9, <1>10, <1>11, <1>12, <1>13, <1>14 DEF Next

\* The type invariant holds in every state, whichever of the races may happen: rows,
\* balance and what a worker holds between two steps of its view always have the columns
\* that the next step of the view reads.
THEOREM TypeCorrect == Spec => []TypeOK
<1>1. Init => TypeOK
  <2> SUFFICES ASSUME Init PROVE TypeOK
    OBVIOUS
  <2>1. request \in [Request -> AnyRow]
    BY DEF Init, AnyRow
  <2>2. balance \in Balance
    <3>1. \A x \in Allocation : x \in Nat
      BY LeaveAssumption
    <3>2. balance \in [allocated_days : Allocation, used_days : {0}, pending_days : {0}]
      BY DEF Init
    <3> QED
      BY <3>1, <3>2 DEF Balance
  <2>3. DOMAIN mem = Worker /\ \A w \in Worker : mem[w] \in MemOf(pc[w])
    BY MayHold DEF Init
  <2> QED
    BY <2>1, <2>2, <2>3 DEF Init, TypeOK, AnyRow
<1>2. TypeOK /\ [Next]_vars => TypeOK'
  BY TypeStep
<1> QED
  BY <1>1, <1>2, PTL DEF Spec

----------------------------------------------------------------------------
(* Steps on rows *)

\* Decisions that write a row find it with one of the statuses the view allows.
LEMMA AllowedRow ==
    ASSUME TypeOK, NEW r \in Request, NEW kind \in Decision, Allowed(kind, request[r])
    PROVE  /\ kind \in {"approve", "manager_approve"} => request[r].status \in OpenApproval
           /\ kind \in {"reject", "manager_reject"} => request[r].status \in OpenApproval
           /\ kind = "cancel" => request[r].status \in Live
           /\ kind = "delete" => request[r].status \in OpenRequest
<1>1. ASSUME get_next_approver_role(request[r]) = "manager"
      PROVE  request[r].status \in OpenApproval
  BY <1>1 DEF get_next_approver_role
<1>2. CASE kind \in {"approve", "reject"}
  BY <1>2 DEF Allowed
<1>3. CASE kind = "manager_approve"
  BY <1>1, <1>3 DEF Allowed
<1>4. CASE kind = "manager_reject"
  BY <1>1, <1>4 DEF Allowed, OpenApproval
<1>5. CASE kind = "cancel"
  BY <1>5 DEF Allowed, Live
<1>6. CASE kind = "delete"
  BY <1>6 DEF Allowed, Editable, OpenRequest, OpenApproval
<1>7. CASE kind = "staff_delete"
  BY <1>7
<1> QED
  BY <1>2, <1>3, <1>4, <1>5, <1>6, <1>7 DEF Decision

\* The row a decision leaves.
LEMMA DecidedRow ==
    ASSUME TypeOK, NEW r \in Request, NEW kind \in Decision, Allowed(kind, request[r])
    PROVE  LET new == Decided(kind, request[r])
           IN  \/ /\ kind \in {"approve", "manager_approve"}
                  /\ request[r] \in Row /\ request[r].status \in OpenApproval
                  /\ new = apply_approval_step(request[r])
               \/ new.status \in {"rejected", "cancelled", "deleted"}
<1>1. CASE kind \in {"approve", "manager_approve"}
  <2>1. request[r].status \in OpenApproval
    BY <1>1, AllowedRow
  <2>2. request[r] \in Row
    BY <2>1, LiveRow DEF Live, OpenRequest
  <2> QED
    BY <1>1, <2>1, <2>2 DEF Decided
<1>2. CASE kind \notin {"approve", "manager_approve"}
  BY <1>2 DEF Decided, Decision, Shut, Deleted
<1> QED
  BY <1>1, <1>2

\* The staff's edit: the row it saves over its request, and the days it takes back.
StaffRow(w) ==
    [mem[w].row EXCEPT !.substitutes =
        IF request[mem[w].request].status \in OpenRequest \cup {"approved"}
        THEN request[mem[w].request].substitutes ELSE @]

LEMMA StaffRowType ==
    ASSUME TypeOK, NEW w \in Worker, pc[w] = "staff_edit"
    PROVE  /\ StaffRow(w) \in Row /\ StaffRow(w).status = mem[w].row.status
           /\ StaffRow(w).start = mem[w].row.start /\ StaffRow(w).end = mem[w].row.end
           /\ StaffRow(w).total_days = mem[w].row.total_days
           /\ mem[w].row = request[mem[w].request] =>
                StaffRow(w).substitutes = request[mem[w].request].substitutes
<1> DEFINE now == request[mem[w].request]
           old == mem[w].row
           subs == IF now.status \in OpenRequest \cup {"approved"} THEN now.substitutes ELSE old.substitutes
<1>1. mem[w].request \in Request /\ old \in Row /\ old.status \in Editable
  BY Holds
<1>2. now.status \in OpenRequest \cup {"approved"} => now.substitutes \in Consents
  BY <1>1, LiveRow, RowFields DEF Live
<1>3. old.substitutes \in Consents
  BY <1>1, RowFields
<1>4. subs \in Consents
  BY <1>2, <1>3
<1>5. StaffRow(w) = [old EXCEPT !.substitutes = subs]
  BY DEF StaffRow
<1>6. old = now => subs = now.substitutes
  OBVIOUS
<1> HIDE DEF subs, old, now
<1> QED
  BY <1>1, <1>4, <1>5, <1>6 DEF Row, old, now

\* Who saves an edit, and over what.
LEMMA EditSaves ==
    ASSUME TypeOK, NEW w \in Worker, Edit(w) \/ StaffEdit(w), request' # request \/ balance' # balance
    PROVE  \E row \in Row :
               /\ row.status \in Editable /\ Saves(w, row) /\ Ends(w)
               /\ mem[w].request \in Request /\ pc[w] \in {"edit", "staff_edit"}
               /\ \/ pc[w] = "edit" /\ row = request[mem[w].request]
                  \/ pc[w] = "staff_edit" /\ row = StaffRow(w)
<1>1. CASE Edit(w)
  <2> DEFINE row == request[mem[w].request]
  <2>1. mem[w].request \in Request
    BY <1>1, Holds DEF Edit
  <2>2. row.status \in Editable /\ Saves(w, row)
    BY <1>1 DEF Edit
  <2>3. row \in Row
    BY <2>1, <2>2, LiveRow DEF Live, Editable, OpenRequest, OpenApproval
  <2> QED
    BY <1>1, <2>1, <2>2, <2>3 DEF Edit
<1>2. CASE StaffEdit(w)
  <2>1. mem[w].request \in Request /\ mem[w].row.status \in Editable
    BY <1>2, Holds DEF StaffEdit
  <2>2. StaffRow(w) \in Row /\ StaffRow(w).status = mem[w].row.status
    BY <1>2, StaffRowType DEF StaffEdit
  <2>3. Saves(w, StaffRow(w))
    BY <1>2 DEF StaffEdit, StaffRow
  <2> QED
    BY <1>2, <2>1, <2>2, <2>3 DEF StaffEdit
<1> QED
  BY <1>1, <1>2

----------------------------------------------------------------------------
(* Approval *)

\* A row that becomes approved was with its approvers, and the last step was signed.
LEMMA NewlyApproved ==
    ASSUME TypeOK, [Next]_vars, NEW r \in Request,
           request[r].status # "approved", request'[r].status = "approved"
    PROVE  /\ request[r] \in Row /\ request[r].status \in OpenApproval
           /\ request'[r] = apply_approval_step(request[r])
<1> DEFINE Claim == /\ request[r] \in Row /\ request[r].status \in OpenApproval
                    /\ request'[r] = apply_approval_step(request[r])
<1>0. request \in [Request -> AnyRow] /\ request' # request
  BY TypeNow
<1>1. ASSUME NEW w \in Worker, Create(w) PROVE FALSE
  BY <1>0, <1>1 DEF Create, WithStatus
<1>2. ASSUME NEW w \in Worker, Edit(w) \/ StaffEdit(w) PROVE FALSE
  <2>1. PICK row \in Row : /\ row.status \in Editable /\ Saves(w, row)
                           /\ mem[w].request \in Request /\ pc[w] \in {"edit", "staff_edit"}
    BY <1>0, <1>2, EditSaves
  <2>2. Edited(row, mem[w]).status \in {row.status, "awaiting_substitutes"}
    BY <2>1, Holds, EditedRow
  <2>3. request' = [request EXCEPT ![mem[w].request] = Edited(row, mem[w])]
    BY <2>1 DEF Saves
  <2> QED
    BY <1>0, <2>1, <2>2, <2>3 DEF Editable
<1>3. ASSUME NEW w \in Worker, Decide(w) PROVE Claim
  <2>1. mem[w].request \in Request /\ mem[w].kind \in Decision
    BY <1>3, Holds DEF Decide
  <2>2. Allowed(mem[w].kind, request[mem[w].request])
    BY <1>0, <1>3 DEF Decide
  <2>3. request' = [request EXCEPT ![mem[w].request] = Decided(mem[w].kind, request[mem[w].request])]
    BY <1>3, <2>2 DEF Decide, Applies
  <2>4. r = mem[w].request /\ request'[r] = Decided(mem[w].kind, request[r])
    BY <1>0, <2>1, <2>3
  <2> QED
    BY <2>1, <2>2, <2>4, DecidedRow
<1>4. ASSUME NEW q \in Request, skip_pending(q) \/ \E s \in Sub : Accept(q, s) \/ Refuse(q, s) PROVE FALSE
  <2>1. ASSUME skip_pending(q) PROVE FALSE
    <3>1. request[q] \in Row
      BY <2>1, LiveRow DEF skip_pending, Live, OpenRequest
    <3> QED
      BY <1>0, <2>1, <3>1 DEF skip_pending, Row
  <2>2. ASSUME NEW s \in Sub, Accept(q, s) PROVE FALSE
    <3> DEFINE row == [request[q] EXCEPT !.substitutes[s] =
                          [status |-> "accepted", on |-> <<request[q].start, request[q].end>>]]
    <3>1. request[q] \in Row /\ request[q].status = "awaiting_substitutes"
      BY <2>2, LiveRow DEF Accept, Live, OpenRequest
    <3>2. row.status = "awaiting_substitutes" /\ [row EXCEPT !.status = "pending"].status = "pending"
      BY <3>1 DEF Row
    <3>3. \/ request' = [request EXCEPT ![q] = row]
          \/ request' = [request EXCEPT ![q] = [row EXCEPT !.status = "pending"]]
      BY <2>2 DEF Accept
    <3> HIDE DEF row
    <3> QED
      BY <1>0, <3>1, <3>2, <3>3
  <2>3. ASSUME NEW s \in Sub, Refuse(q, s) PROVE FALSE
    BY <1>0, <2>3 DEF Refuse, Shut
  <2> QED
    BY <1>4, <2>1, <2>2, <2>3
<1> HIDE DEF Claim
<1> QED
  BY <1>0, <1>1, <1>2, <1>3, <1>4 DEF Next, vars, Submit, EditLoad, DecideLoad, BalanceLoad, BalanceSave, EditChain, Claim

\* The approval chain cannot be passed round, whichever race happens and however often an
\* administrator changes the chain: get_next_approver_role reads the chain in force, and
\* no other view writes the status approved.
THEOREM ApprovedStepByStep == Spec => ApprovedBySteps
<1> DEFINE BySteps == \A r \in Request : request[r].status # "approved" /\ request'[r].status = "approved" =>
               \A i \in DOMAIN chain :
                   step_signed(request'[r], chain[i]) \/ \E j \in 1..i : chain[j] = "admin"
<1>1. TypeOK /\ [Next]_vars => BySteps
  BY NewlyApproved, StepRow
<1> QED
  BY <1>1, TypeCorrect, PTL DEF Spec, ApprovedBySteps

----------------------------------------------------------------------------
(* Forms, when one is on the way at a time *)

OneForm == "double_submit" \notin Races

\* ... and nobody writes a request that the staff is editing.
RowsGuarded == OneForm /\ "staff_edit" \notin Races

LEMMA FormAloneStep ==
    ASSUME OneForm, TypeOK, FormAlone, [Next]_vars
    PROVE  FormAlone'
<1>0. pc \in [Worker -> Place] /\ DOMAIN mem = Worker
  BY TypeNow
<1>1. ASSUME NEW w \in Worker, Submit(w) \/ EditLoad(w) PROVE FormAlone'
  <2>1. \A v \in Worker : pc[v] \notin Forms
    BY <1>1 DEF Submit, EditLoad, FormFree, OneForm, Forms
  <2>2. \E where : pc' = [pc EXCEPT ![w] = where]
    BY <1>1 DEF Submit, EditLoad, Goes
  <2> QED
    BY <1>0, <2>1, <2>2 DEF FormAlone
<1>2. ASSUME \A v \in Worker : pc'[v] \in Forms => pc[v] \in Forms PROVE FormAlone'
  BY <1>2 DEF FormAlone
<1>3. ASSUME NEW w \in Worker, Create(w) \/ Edit(w) \/ StaffEdit(w) \/ DecideLoad(w) \/ Decide(w)
                               \/ BalanceLoad(w) \/ BalanceSave(w)
      PROVE  FormAlone'
  <2>1. \E where \in {"idle", "decide", "balance"} : pc' = [pc EXCEPT ![w] = where]
    BY <1>3 DEF Create, Edit, StaffEdit, DecideLoad, Decide, BalanceLoad, BalanceSave, Ends, Goes
  <2> QED
    BY <1>0, <1>2, <2>1 DEF Forms
<1>4. ASSUME NEW r \in Request, skip_pending(r) \/ \E s \in Sub : Accept(r, s) \/ Refuse(r, s) PROVE FormAlone'
  BY <1>2, <1>4 DEF skip_pending, Accept, Refuse
<1>5. ASSUME NEW c \in Chain, EditChain(c) PROVE FormAlone'
  BY <1>2, <1>5 DEF EditChain
<1>6. CASE UNCHANGED vars
  BY <1>2, <1>6 DEF vars
<1> QED
  BY <1>1, <1>3, <1>4, <1>5, <1>6 DEF Next

\* After a form is saved no other is on the way.
LEMMA NoFormLeft ==
    ASSUME TypeOK, FormAlone, NEW w \in Worker, pc[w] \in Forms, Ends(w)
    PROVE  \A v \in Worker : pc'[v] \notin Forms
<1>1. pc' = [pc EXCEPT ![w] = "idle"] /\ pc \in [Worker -> Place]
  BY TypeNow DEF Ends, Goes
<1> QED
  BY <1>1 DEF FormAlone, Forms

\* A step of a worker that is no form leaves the forms of the others alone.
FormsKept ==
    \A v \in Worker : pc'[v] \in Forms => pc[v] = pc'[v] /\ mem'[v] = mem[v]

LEMMA OthersKept ==
    ASSUME TypeOK, NEW w \in Worker, NEW where \in {"idle", "decide", "balance"}, NEW m, Goes(w, where, m)
    PROVE  FormsKept
BY TypeNow DEF Goes, FormsKept, Forms

\* Steps that are neither the start nor the end of a form.
Aside(w) == DecideLoad(w) \/ Decide(w) \/ BalanceLoad(w) \/ BalanceSave(w)
Substitutes(r) == skip_pending(r) \/ \E s \in Sub : Accept(r, s) \/ Refuse(r, s)
OtherStep ==
    \/ \E w \in Worker : Aside(w)
    \/ \E r \in Request : Substitutes(r)
    \/ \E c \in Chain : EditChain(c)
    \/ UNCHANGED vars

LEMMA StepCases ==
    ASSUME [Next]_vars
    PROVE  \/ OtherStep
           \/ \E w \in Worker : Submit(w) \/ Create(w) \/ EditLoad(w) \/ Edit(w) \/ StaffEdit(w)
BY DEF Next, OtherStep, Aside, Substitutes

LEMMA OtherFormsKept ==
    ASSUME TypeOK, OtherStep
    PROVE  FormsKept
<1>1. ASSUME NEW w \in Worker, Aside(w) PROVE FormsKept
  <2>1. \E where \in {"idle", "decide", "balance"} : \E m : Goes(w, where, m)
    BY <1>1 DEF Aside, DecideLoad, Decide, BalanceLoad, BalanceSave, Ends
  <2> QED
    BY <2>1, OthersKept
<1>2. ASSUME NEW r \in Request, Substitutes(r) PROVE FormsKept
  BY <1>2 DEF Substitutes, skip_pending, Accept, Refuse, FormsKept
<1>3. ASSUME NEW c \in Chain, EditChain(c) PROVE FormsKept
  BY <1>3 DEF EditChain, FormsKept
<1>4. CASE UNCHANGED vars
  BY <1>4 DEF vars, FormsKept
<1> QED
  BY <1>1, <1>2, <1>3, <1>4 DEF OtherStep

\* The other steps write no row that a staff's edit holds.
LEMMA OtherStaffHolds ==
    ASSUME RowsGuarded, TypeOK, StaffHolds, OtherStep
    PROVE  StaffHolds'
<1>0. FormsKept
  BY OtherFormsKept
<1>1. SUFFICES ASSUME NEW v \in Worker, pc[v] = "staff_edit"
               PROVE  request'[mem[v].request] = request[mem[v].request]
  BY <1>0 DEF StaffHolds, FormsKept, Forms
<1>2. mem[v].request \in Request /\ request \in [Request -> AnyRow]
  BY <1>1, Holds, TypeNow
<1>3. ASSUME NEW r, Writable(r) PROVE r # mem[v].request
  BY <1>1, <1>3 DEF Writable, RowsGuarded
<1>4. ASSUME NEW w \in Worker, Aside(w) PROVE request'[mem[v].request] = request[mem[v].request]
  <2>1. CASE Decide(w)
    <3>1. mem[w].request # mem[v].request
      BY <1>3, <2>1 DEF Decide
    <3> QED
      BY <1>2, <2>1, <3>1 DEF Decide, Applies
  <2>2. CASE ~Decide(w)
    BY <1>4, <2>2 DEF Aside, DecideLoad, BalanceLoad, BalanceSave
  <2> QED
    BY <2>1, <2>2
<1>5. ASSUME NEW r \in Request, Substitutes(r) PROVE request'[mem[v].request] = request[mem[v].request]
  <2>1. r # mem[v].request
    BY <1>3, <1>5 DEF Substitutes, skip_pending, Accept, Refuse
  <2>2. \E new : request' = [request EXCEPT ![r] = new]
    BY <1>5 DEF Substitutes, skip_pending, Accept, Refuse
  <2> QED
    BY <1>2, <2>1, <2>2
<1>6. ASSUME NEW c \in Chain, EditChain(c) PROVE request'[mem[v].request] = request[mem[v].request]
  BY <1>6 DEF EditChain
<1>7. ASSUME UNCHANGED vars PROVE request'[mem[v].request] = request[mem[v].request]
  BY <1>7 DEF vars
<1> QED
  BY <1>4, <1>5, <1>6, <1>7 DEF OtherStep

LEMMA StaffHoldsStep ==
    ASSUME RowsGuarded, TypeOK, FormAlone, StaffHolds, [Next]_vars
    PROVE  StaffHolds'
<1>1. CASE OtherStep
  BY <1>1, OtherStaffHolds
<1>2. ASSUME NEW w \in Worker, Create(w) \/ Edit(w) \/ StaffEdit(w) PROVE StaffHolds'
  <2>1. \A v \in Worker : pc'[v] \notin Forms
    BY <1>2, NoFormLeft DEF Create, Edit, StaffEdit, Forms
  <2> QED
    BY <2>1 DEF StaffHolds, Forms
<1>3. ASSUME NEW w \in Worker, Submit(w) PROVE StaffHolds'
  <2>1. \A v \in Worker : pc[v] \notin Forms
    BY <1>3 DEF Submit, FormFree, RowsGuarded, OneForm, Forms
  <2>2. pc' = [pc EXCEPT ![w] = "create"] /\ pc \in [Worker -> Place]
    BY <1>3, TypeNow DEF Submit, Goes
  <2> QED
    BY <2>1, <2>2 DEF StaffHolds, Forms
<1>4. ASSUME NEW w \in Worker, EditLoad(w) PROVE StaffHolds'
  <2>1. \A v \in Worker : pc[v] \notin Forms
    BY <1>4 DEF EditLoad, FormFree, RowsGuarded, OneForm, Forms
  <2>2. PICK r \in WithStatus(Editable), s \in Day \cup {NoDay}, e \in Day \cup {NoDay}, by \in {"edit", "staff_edit"} :
            Goes(w, by, [request |-> r, start |-> s, end |-> e,
                         days |-> calculate_working_days(IF s = NoDay THEN request[r].start ELSE s,
                                                         IF e = NoDay THEN request[r].end ELSE e),
                         row |-> IF by = "edit" THEN NoMem ELSE request[r]])
    BY <1>4 DEF EditLoad
  <2>3. pc \in [Worker -> Place] /\ DOMAIN mem = Worker
    BY TypeNow
  <2>4. request' = request
    BY <1>4 DEF EditLoad
  <2> QED
    BY <2>1, <2>2, <2>3, <2>4 DEF StaffHolds, Forms, Goes
<1> QED
  BY <1>1, <1>2, <1>3, <1>4, StepCases

----------------------------------------------------------------------------
(* The dates *)

\* No row starts to stand for days of leave, or changes the days it stands for.
DatesKept ==
    \A r \in Request : request'[r].status \in Live =>
        /\ request[r].status \in Live
        /\ request'[r].start = request[r].start /\ request'[r].end = request[r].end
        /\ request'[r].total_days = request[r].total_days

LEMMA OtherDatesKept ==
    ASSUME TypeOK, OtherStep
    PROVE  DatesKept
<1>0. request \in [Request -> AnyRow]
  BY TypeNow
<1>1. ASSUME NEW r \in Request, NEW new, request' = [request EXCEPT ![r] = new],
             new.status \in Live =>
               /\ request[r].status \in Live /\ new.start = request[r].start /\ new.end = request[r].end
               /\ new.total_days = request[r].total_days
      PROVE  DatesKept
  BY <1>0, <1>1 DEF DatesKept
<1>2. ASSUME request' = request PROVE DatesKept
  BY <1>2 DEF DatesKept
<1>3. ASSUME NEW w \in Worker, Aside(w) PROVE DatesKept
  <2>1. CASE Decide(w) /\ request' # request
    <3> DEFINE r == mem[w].request
               kind == mem[w].kind
               new == Decided(kind, request[r])
    <3>1. r \in Request /\ kind \in Decision
      BY <2>1, Holds DEF Decide
    <3>2. Allowed(kind, request[r]) /\ request' = [request EXCEPT ![r] = new]
      BY <2>1 DEF Decide, Applies
    <3>3. \/ /\ kind \in {"approve", "manager_approve"}
             /\ request[r] \in Row /\ request[r].status \in OpenApproval
             /\ new = apply_approval_step(request[r])
          \/ new.status \in {"rejected", "cancelled", "deleted"}
      BY <3>1, <3>2, DecidedRow
    <3> HIDE DEF r, kind, new
    <3>4. new.status \in Live =>
               /\ request[r].status \in Live /\ new.start = request[r].start /\ new.end = request[r].end
               /\ new.total_days = request[r].total_days
      BY <3>3, StepRow DEF Live, OpenRequest, OpenApproval
    <3> QED
      BY <1>1, <3>1, <3>2, <3>4
  <2>2. CASE ~Decide(w)
    BY <1>2, <1>3, <2>2 DEF Aside, DecideLoad, BalanceLoad, BalanceSave
  <2> QED
    BY <1>2, <2>1, <2>2
<1>4. ASSUME NEW r \in Request, Substitutes(r) PROVE DatesKept
  <2>1. request[r].status \in Live /\ request[r] \in Row
    BY <1>4, LiveRow DEF Substitutes, skip_pending, Accept, Refuse, Live, OpenRequest
  <2>2. CASE skip_pending(r)
    <3>1. PICK subs : request' = [request EXCEPT ![r] = [[request[r] EXCEPT !.status = "pending"] EXCEPT !.substitutes = subs]]
      <4> DEFINE subs == [s \in DOMAIN request[r].substitutes |->
                            IF request[r].substitutes[s].status = "pending"
                            THEN [request[r].substitutes[s] EXCEPT !.status = "skipped"]
                            ELSE request[r].substitutes[s]]
      <4>1. request' = [request EXCEPT ![r] = [[request[r] EXCEPT !.status = "pending"] EXCEPT !.substitutes = subs]]
        BY <2>1, <2>2 DEF skip_pending
      <4> QED
        BY <4>1
    <3> QED
      BY <1>1, <2>1, <3>1 DEF Row
  <2>3. ASSUME NEW s \in Sub, Accept(r, s) PROVE DatesKept
    <3> DEFINE row == [request[r] EXCEPT !.substitutes[s] =
                          [status |-> "accepted", on |-> <<request[r].start, request[r].end>>]]
    <3>1. /\ row.start = request[r].start /\ row.end = request[r].end /\ row.total_days = request[r].total_days
          /\ [row EXCEPT !.status = "pending"].start = request[r].start
          /\ [row EXCEPT !.status = "pending"].end = request[r].end
          /\ [row EXCEPT !.status = "pending"].total_days = request[r].total_days
      BY <2>1 DEF Row
    <3>2. \/ request' = [request EXCEPT ![r] = row]
          \/ request' = [request EXCEPT ![r] = [row EXCEPT !.status = "pending"]]
      BY <2>3 DEF Accept
    <3> HIDE DEF row
    <3> QED
      BY <1>1, <2>1, <3>1, <3>2
  <2>4. ASSUME NEW s \in Sub, Refuse(r, s) PROVE DatesKept
    <3>1. Shut("rejected").status \notin Live
      BY DEF Shut, Live, OpenRequest, OpenApproval
    <3> QED
      BY <1>1, <2>4, <3>1 DEF Refuse
  <2> QED
    BY <1>4, <2>2, <2>3, <2>4 DEF Substitutes
<1>5. ASSUME NEW c \in Chain, EditChain(c) PROVE DatesKept
  BY <1>2, <1>5 DEF EditChain
<1>6. CASE UNCHANGED vars
  BY <1>2, <1>6 DEF vars
<1> QED
  BY <1>3, <1>4, <1>5, <1>6 DEF OtherStep

\* Such a step keeps what the forms were validated against.
LEMMA DatesKeptInv ==
    ASSUME DatesInv, DatesKept, FormsKept
    PROVE  CreateFits' /\ EditFits' /\ DaysMatchDates' /\ NoOverlap'
<1>0. \A r \in WithStatus(Live)' : /\ r \in WithStatus(Live) /\ request'[r].start = request[r].start
                                  /\ request'[r].end = request[r].end /\ request'[r].total_days = request[r].total_days
  BY DEF WithStatus, DatesKept
<1>1. \A s, e, x : Free(request, s, e, x) => Free(request', s, e, x)
  BY DEF Free, DatesKept
<1>2. CreateFits'
  <2> SUFFICES ASSUME NEW w \in Worker, pc'[w] = "create"
               PROVE  /\ mem'[w].days = calculate_working_days(mem'[w].start, mem'[w].end)
                      /\ Free(request', mem'[w].start, mem'[w].end, {})
    BY DEF CreateFits
  <2>1. pc[w] = "create" /\ mem'[w] = mem[w]
    BY DEF FormsKept, Forms
  <2>2. mem[w].days = calculate_working_days(mem[w].start, mem[w].end) /\ Free(request, mem[w].start, mem[w].end, {})
    BY <2>1 DEF DatesInv, CreateFits
  <2> QED
    BY <1>1, <2>1, <2>2
<1>3. EditFits'
  <2> DEFINE old(w) == Base(pc[w], mem[w], request)
             new(w) == Base(pc'[w], mem'[w], request')
  <2> SUFFICES ASSUME NEW w \in Worker, pc'[w] \in {"edit", "staff_edit"}, new(w).status \in Live
               PROVE  /\ mem'[w].days = calculate_working_days(NewStart(mem'[w], new(w)), NewEnd(mem'[w], new(w)))
                      /\ Free(request', NewStart(mem'[w], new(w)), NewEnd(mem'[w], new(w)), {mem'[w].request})
    BY DEF EditFits
  <2>1. pc[w] \in {"edit", "staff_edit"} /\ pc'[w] = pc[w] /\ mem'[w] = mem[w]
    BY DEF FormsKept, Forms
  <2>2. mem[w].request \in Request
    BY <2>1, Holds DEF DatesInv
  <2>3. old(w).status \in Live /\ new(w).start = old(w).start /\ new(w).end = old(w).end
    BY <2>1, <2>2 DEF DatesKept, Base
  <2>4. NewStart(mem[w], new(w)) = NewStart(mem[w], old(w)) /\ NewEnd(mem[w], new(w)) = NewEnd(mem[w], old(w))
    BY <2>3 DEF NewStart, NewEnd
  <2>5. /\ mem[w].days = calculate_working_days(NewStart(mem[w], old(w)), NewEnd(mem[w], old(w)))
        /\ Free(request, NewStart(mem[w], old(w)), NewEnd(mem[w], old(w)), {mem[w].request})
    BY <2>1, <2>3 DEF DatesInv, EditFits
  <2>6. Free(request', NewStart(mem[w], old(w)), NewEnd(mem[w], old(w)), {mem[w].request})
    BY <1>1, <2>5
  <2> HIDE DEF old, new
  <2> QED
    BY <2>1, <2>4, <2>5, <2>6
<1>4. DaysMatchDates' /\ NoOverlap'
  BY <1>0 DEF DatesInv, DaysMatchDates, NoOverlap, Live, WithStatus
<1> QED
  BY <1>2, <1>3, <1>4

\* What check_overlapping_leaves does not find leaves the days free.
LEMMA NoOverlapFound ==
    ASSUME TypeOK, NEW s \in Day, NEW e \in Day, NEW x, ~check_overlapping_leaves(s, e, x)
    PROVE  Free(request, s, e, x)
<1> SUFFICES ASSUME NEW r \in Request \ x, request[r].status \in Live
             PROVE  request[r].end < s \/ e < request[r].start
  BY DEF Free
<1>1. request[r].start \in Day /\ request[r].end \in Day
  BY LiveRow, RowFields
<1>2. ~(request[r].start <= e /\ request[r].end >= s)
  BY DEF check_overlapping_leaves, WithStatus, Live
<1>3. s \in Int /\ e \in Int /\ request[r].start \in Int /\ request[r].end \in Int
  BY <1>1, LeaveAssumption DEF Day
<1> QED
  BY <1>2, <1>3

\* A row that takes free days, counted right, keeps the calendar of the employee.
LEMMA WriteFits ==
    ASSUME DatesInv, NEW r \in Request, NEW new \in Row, request' = [request EXCEPT ![r] = new],
           new.total_days = calculate_working_days(new.start, new.end),
           Free(request, new.start, new.end, {r})
    PROVE  DaysMatchDates' /\ NoOverlap'
<1>1. request \in [Request -> AnyRow]
  BY TypeNow DEF DatesInv
<1>2. \A q \in Request \ {r} : request'[q] = request[q]
  BY <1>1
<1>3. request'[r] = new
  BY <1>1
<1>4. DaysMatchDates'
  BY <1>2, <1>3 DEF DatesInv, DaysMatchDates, WithStatus
<1>5. NoOverlap'
  <2> SUFFICES ASSUME NEW p \in Request, NEW q \in Request, p # q,
                      request'[p].status \in Live, request'[q].status \in Live
               PROVE  request'[p].end < request'[q].start \/ request'[q].end < request'[p].start
    BY DEF NoOverlap, WithStatus, Live
  <2>1. CASE p # r /\ q # r
    BY <1>2, <2>1 DEF DatesInv, NoOverlap, WithStatus, Live
  <2>2. CASE p = r
    BY <1>2, <1>3, <2>2 DEF Free
  <2>3. CASE q = r
    BY <1>2, <1>3, <2>3 DEF Free
  <2> QED
    BY <2>1, <2>2, <2>3
<1> QED
  BY <1>4, <1>5

LEMMA SubmitFits ==
    ASSUME OneForm, DatesInv, NEW w \in Worker, Submit(w)
    PROVE  CreateFits' /\ EditFits' /\ DaysMatchDates' /\ NoOverlap'
<1>1. \A v \in Worker : pc[v] \notin Forms
  BY DEF Submit, FormFree, OneForm, Forms
<1>2. request' = request
  BY DEF Submit
<1>3. DaysMatchDates' /\ NoOverlap'
  BY <1>2 DEF DatesInv, DaysMatchDates, NoOverlap, WithStatus
<1>4. PICK s \in Day, e \in Day, subs \in SUBSET Sub :
          /\ ~check_overlapping_leaves(s, e, {})
          /\ Goes(w, "create", [start |-> s, end |-> e, days |-> calculate_working_days(s, e), substitutes |-> subs])
  BY DEF Submit
<1>5. Free(request', s, e, {})
  BY <1>2, <1>4, NoOverlapFound DEF DatesInv
<1>6. /\ pc' = [pc EXCEPT ![w] = "create"] /\ pc \in [Worker -> Place] /\ DOMAIN mem = Worker
      /\ mem' = [mem EXCEPT ![w] = [start |-> s, end |-> e, days |-> calculate_working_days(s, e), substitutes |-> subs]]
  BY <1>4, TypeNow DEF Goes, DatesInv
<1>7. CreateFits'
  BY <1>1, <1>5, <1>6 DEF CreateFits, Forms
<1>8. EditFits'
  BY <1>1, <1>6 DEF EditFits, Forms
<1> QED
  BY <1>3, <1>7, <1>8

LEMMA EditLoadFits ==
    ASSUME OneForm, DatesInv, NEW w \in Worker, EditLoad(w)
    PROVE  CreateFits' /\ EditFits' /\ DaysMatchDates' /\ NoOverlap'
<1>1. \A v \in Worker : pc[v] \notin Forms
  BY DEF EditLoad, FormFree, OneForm, Forms
<1>2. request' = request
  BY DEF EditLoad
<1>3. DaysMatchDates' /\ NoOverlap'
  BY <1>2 DEF DatesInv, DaysMatchDates, NoOverlap, WithStatus
<1>4. PICK r \in WithStatus(Editable), s \in Day \cup {NoDay}, e \in Day \cup {NoDay}, by \in {"edit", "staff_edit"} :
          /\ ~check_overlapping_leaves(IF s = NoDay THEN request[r].start ELSE s,
                                       IF e = NoDay THEN request[r].end ELSE e, {r})
          /\ Goes(w, by, [request |-> r, start |-> s, end |-> e,
                          days |-> calculate_working_days(IF s = NoDay THEN request[r].start ELSE s,
                                                          IF e = NoDay THEN request[r].end ELSE e),
                          row |-> IF by = "edit" THEN NoMem ELSE request[r]])
  BY DEF EditLoad
<1> DEFINE start == IF s = NoDay THEN request[r].start ELSE s
           end == IF e = NoDay THEN request[r].end ELSE e
           m == [request |-> r, start |-> s, end |-> e, days |-> calculate_working_days(start, end),
                 row |-> IF by = "edit" THEN NoMem ELSE request[r]]
<1>5. r \in Request /\ request[r] \in Row
  BY LiveRow DEF WithStatus, DatesInv, Live, Editable, OpenRequest, OpenApproval
<1>6. start \in Day /\ end \in Day
  BY <1>5, RowFields
<1>7. Free(request, start, end, {r})
  <2>1. ~check_overlapping_leaves(start, end, {r})
    BY <1>4
  <2> HIDE DEF start, end
  <2> QED
    BY <1>6, <2>1, NoOverlapFound DEF DatesInv
<1>8. /\ m.request = r /\ m.days = calculate_working_days(start, end)
      /\ NewStart(m, request[r]) = start /\ NewEnd(m, request[r]) = end
      /\ Base(by, m, request) = request[r]
  BY DEF NewStart, NewEnd, Base
<1>9. Goes(w, by, m)
  BY <1>4
<1> HIDE DEF m, start, end
<1>10. /\ pc' = [pc EXCEPT ![w] = by] /\ pc \in [Worker -> Place] /\ DOMAIN mem = Worker
       /\ mem' = [mem EXCEPT ![w] = m]
  BY <1>9, TypeNow DEF Goes, DatesInv
<1>11. CreateFits'
  BY <1>1, <1>10 DEF CreateFits, Forms
<1>12. EditFits'
  <2> SUFFICES ASSUME NEW v \in Worker, pc'[v] \in {"edit", "staff_edit"}
               PROVE  LET row == Base(pc'[v], mem'[v], request')
                      IN  /\ mem'[v].days = calculate_working_days(NewStart(mem'[v], row), NewEnd(mem'[v], row))
                          /\ Free(request', NewStart(mem'[v], row), NewEnd(mem'[v], row), {mem'[v].request})
    BY DEF EditFits
  <2>1. v = w
    BY <1>1, <1>10 DEF Forms
  <2>2. mem'[v] = m /\ pc'[v] = by
    BY <1>10, <2>1
  <2> QED
    BY <1>2, <1>7, <1>8, <2>2
<1> QED
  BY <1>3, <1>11, <1>12

LEMMA CreateStepFits ==
    ASSUME DatesInv, NEW w \in Worker, Create(w)
    PROVE  CreateFits' /\ EditFits' /\ DaysMatchDates' /\ NoOverlap'
<1>1. \A v \in Worker : pc'[v] \notin Forms
  BY NoFormLeft DEF Create, Forms, DatesInv
<1>2. CreateFits' /\ EditFits'
  BY <1>1 DEF CreateFits, EditFits, Forms
<1> DEFINE new == [status |-> IF mem[w].substitutes = {} THEN "pending" ELSE "awaiting_substitutes",
                   start |-> mem[w].start, end |-> mem[w].end, total_days |-> mem[w].days,
                   manager_approver |-> FALSE, hr_approver |-> FALSE,
                   substitutes |-> [s \in mem[w].substitutes |-> Asked]]
<1>3. PICK r \in Request : request' = [request EXCEPT ![r] = new]
  BY DEF Create, WithStatus
<1>4. /\ mem[w].days = calculate_working_days(mem[w].start, mem[w].end)
      /\ Free(request, mem[w].start, mem[w].end, {})
  BY DEF DatesInv, CreateFits, Create
<1>5. Free(request, mem[w].start, mem[w].end, {r})
  BY <1>4 DEF Free
<1>6. new \in Row
  <2>1. mem[w].start \in Day /\ mem[w].end \in Day /\ mem[w].days \in Nat /\ mem[w].substitutes \in SUBSET Sub
    BY Holds DEF Create, NewMem, DatesInv
  <2>2. Asked \in Consent
    BY DEF Asked, Consent
  <2>3. [s \in mem[w].substitutes |-> Asked] \in Consents
    BY <2>1, <2>2, ConsentsFun
  <2> QED
    BY <2>1, <2>3 DEF Row, OpenRequest, OpenApproval
<1>7. new.start = mem[w].start /\ new.end = mem[w].end /\ new.total_days = mem[w].days
  OBVIOUS
<1> HIDE DEF new
<1>8. DaysMatchDates' /\ NoOverlap'
  BY <1>3, <1>4, <1>5, <1>6, <1>7, WriteFits
<1> QED
  BY <1>2, <1>8

LEMMA EditStepFits ==
    ASSUME DatesInv, NEW w \in Worker, Edit(w) \/ StaffEdit(w)
    PROVE  CreateFits' /\ EditFits' /\ DaysMatchDates' /\ NoOverlap'
<1>1. \A v \in Worker : pc'[v] \notin Forms
  BY NoFormLeft DEF Edit, StaffEdit, Forms, DatesInv
<1>2. CreateFits' /\ EditFits'
  BY <1>1 DEF CreateFits, EditFits, Forms
<1>3. CASE request' = request
  BY <1>2, <1>3 DEF DatesInv, DaysMatchDates, NoOverlap, WithStatus
<1>4. CASE request' # request
  <2> DEFINE r == mem[w].request
             base == Base(pc[w], mem[w], request)
  <2>1. PICK row \in Row :
               /\ row.status \in Editable /\ Saves(w, row) /\ Ends(w)
               /\ mem[w].request \in Request /\ pc[w] \in {"edit", "staff_edit"}
               /\ \/ pc[w] = "edit" /\ row = request[mem[w].request]
                  \/ pc[w] = "staff_edit" /\ row = StaffRow(w)
    BY <1>4, EditSaves DEF DatesInv
  <2>2. base.status = row.status /\ base.start = row.start /\ base.end = row.end
    BY <2>1, StaffRowType DEF DatesInv, Base
  <2>3. NewStart(mem[w], row) = NewStart(mem[w], base) /\ NewEnd(mem[w], row) = NewEnd(mem[w], base)
    BY <2>2 DEF NewStart, NewEnd
  <2>4. base.status \in Live
    BY <2>1, <2>2 DEF Live, Editable, OpenRequest, OpenApproval
  <2>5. /\ mem[w].days = calculate_working_days(NewStart(mem[w], base), NewEnd(mem[w], base))
        /\ Free(request, NewStart(mem[w], base), NewEnd(mem[w], base), {r})
    BY <2>1, <2>4 DEF DatesInv, EditFits
  <2>6. /\ mem[w].start \in Day \cup {NoDay} /\ mem[w].end \in Day \cup {NoDay} /\ mem[w].days \in Nat
    BY <2>1, Holds DEF DatesInv
  <2> DEFINE new == Edited(row, mem[w])
  <2>7. /\ new \in Row /\ new.start = NewStart(mem[w], row) /\ new.end = NewEnd(mem[w], row)
        /\ new.total_days = mem[w].days
    BY <2>6, EditedRow
  <2>8. request' = [request EXCEPT ![r] = new]
    BY <2>1 DEF Saves
  <2> HIDE DEF new, base, r
  <2>9. r \in Request
    BY <2>1 DEF r
  <2>10. DaysMatchDates' /\ NoOverlap'
    BY <2>3, <2>5, <2>7, <2>8, <2>9, WriteFits
  <2> QED
    BY <1>2, <2>10
<1> QED
  BY <1>3, <1>4

LEMMA DatesInvHolds == OneForm => (Spec => []DatesInv)
<1>1. Init => FormAlone /\ CreateFits /\ EditFits /\ DaysMatchDates /\ NoOverlap
  BY DEF Init, FormAlone, CreateFits, EditFits, DaysMatchDates, NoOverlap, Forms,
         WithStatus, NoRow, OpenRequest, OpenApproval
<1>2. OneForm /\ DatesInv /\ TypeOK' /\ [Next]_vars => DatesInv'
  <2> SUFFICES ASSUME OneForm, DatesInv, TypeOK', [Next]_vars PROVE DatesInv'
    OBVIOUS
  <2>1. FormAlone'
    BY FormAloneStep DEF DatesInv
  <2>2. CreateFits' /\ EditFits' /\ DaysMatchDates' /\ NoOverlap'
    <3>1. CASE OtherStep
      BY <3>1, OtherDatesKept, OtherFormsKept, DatesKeptInv DEF DatesInv
    <3> QED
      BY <3>1, StepCases, SubmitFits, EditLoadFits, CreateStepFits, EditStepFits
  <2> QED
    BY <2>1, <2>2 DEF DatesInv
<1>3. OneForm /\ [Next]_vars => OneForm'
  BY DEF OneForm
<1>4. TypeOK /\ FormAlone /\ CreateFits /\ EditFits /\ DaysMatchDates /\ NoOverlap => DatesInv
  BY DEF DatesInv
<1> QED
  BY <1>1, <1>2, <1>3, <1>4, TypeCorrect, PTL DEF Spec

\* When forms about the employee's leave do not overlap, every request stands for the dates
\* its days were counted for, whatever is approved, refused, cancelled or reconfigured
\* meanwhile: also when the staff's edit, which has no lock, writes a request back that was
\* decided since (LeaveRequestUpdateSerializer).
THEOREM DaysAlwaysMatch == OneForm => (Spec => []DaysMatchDates)
<1>1. DatesInv => DaysMatchDates
  BY DEF DatesInv
<1> QED
  BY <1>1, DatesInvHolds, PTL

\* When forms do not overlap, the employee is never absent twice on a day, not even when
\* the staff's edit brings an ended request back: the days it was checked for were kept free
\* (check_overlapping_leaves).
THEOREM NeverAbsentTwice == OneForm => (Spec => []NoOverlap)
<1>1. DatesInv => NoOverlap
  BY DEF DatesInv
<1> QED
  BY <1>1, DatesInvHolds, PTL

----------------------------------------------------------------------------
(* The consent of the substitutes *)

\* AcceptedFits and ConsentHolds, row by row.
RowConsents(row) ==
    row.status \in Live =>
        \A s \in DOMAIN row.substitutes :
            /\ row.substitutes[s].status = "accepted" => row.substitutes[s].on = <<row.start, row.end>>
            /\ row.status # "awaiting_substitutes" => row.substitutes[s].status \in {"skipped", "accepted"}

LEMMA ConsentsByRow ==
    AcceptedFits /\ ConsentHolds <=> \A r \in Request : RowConsents(request[r])
<1>1. "awaiting_substitutes" \notin OpenApproval \cup {"approved"}
      /\ Live = OpenApproval \cup {"approved", "awaiting_substitutes"}
  BY DEF Live, OpenRequest, OpenApproval
<1> QED
  BY <1>1 DEF AcceptedFits, ConsentHolds, RowConsents, WithStatus

\* The same in the next state.
LEMMA ConsentsByRowNext ==
    ASSUME \A r \in Request : RowConsents(request'[r])
    PROVE  (AcceptedFits /\ ConsentHolds)'
<1>1. "awaiting_substitutes" \notin OpenApproval \cup {"approved"}
      /\ Live = OpenApproval \cup {"approved", "awaiting_substitutes"}
  BY DEF Live, OpenRequest, OpenApproval
<1> QED
  BY <1>1 DEF AcceptedFits, ConsentHolds, RowConsents, WithStatus

\* A row without consents given, or with those of a row with the same dates.
LEMMA SameConsents ==
    ASSUME NEW row, NEW new, RowConsents(row), row.status \in Live,
           new.start = row.start, new.end = row.end, new.substitutes = row.substitutes,
           new.status # "awaiting_substitutes" => row.status # "awaiting_substitutes"
    PROVE  RowConsents(new)
BY DEF RowConsents

LEMMA ConsentStep ==
    ASSUME RowsGuarded, ConsentInv, [Next]_vars
    PROVE  (AcceptedFits /\ ConsentHolds)'
<1>0. /\ TypeOK /\ request \in [Request -> AnyRow]
      /\ \A r \in Request : RowConsents(request[r])
  BY ConsentsByRow, TypeNow DEF ConsentInv
<1> DEFINE Claim == \A r \in Request : RowConsents(request'[r])
<1>1. ASSUME NEW r \in Request, NEW new, request' = [request EXCEPT ![r] = new], RowConsents(new)
      PROVE  Claim
  BY <1>0, <1>1
<1>2. ASSUME request' = request PROVE Claim
  BY <1>0, <1>2
<1>a. Asked.status = "pending"
  BY DEF Asked
<1> HIDE DEF Claim
<1>3. ASSUME NEW w \in Worker, Create(w) PROVE Claim
  <2> DEFINE new == [status |-> IF mem[w].substitutes = {} THEN "pending" ELSE "awaiting_substitutes",
                     start |-> mem[w].start, end |-> mem[w].end, total_days |-> mem[w].days,
                     manager_approver |-> FALSE, hr_approver |-> FALSE,
                     substitutes |-> [s \in mem[w].substitutes |-> Asked]]
  <2>1. PICK r \in Request : request' = [request EXCEPT ![r] = new]
    BY <1>3 DEF Create, WithStatus
  <2>2. RowConsents(new)
    BY <1>a DEF RowConsents
  <2> HIDE DEF new
  <2> QED
    BY <1>1, <2>1, <2>2
<1>4. ASSUME NEW w \in Worker, Edit(w) \/ StaffEdit(w), request' # request PROVE Claim
  <2> DEFINE r == mem[w].request
             now == request[r]
  <2>1. PICK row \in Row :
               /\ row.status \in Editable /\ Saves(w, row) /\ Ends(w)
               /\ mem[w].request \in Request /\ pc[w] \in {"edit", "staff_edit"}
               /\ \/ pc[w] = "edit" /\ row = request[mem[w].request]
                  \/ pc[w] = "staff_edit" /\ row = StaffRow(w)
    BY <1>0, <1>4, EditSaves
  <2>2. now.status = row.status /\ now.start = row.start /\ now.end = row.end /\ now.substitutes = row.substitutes
    BY <1>0, <2>1, StaffRowType DEF ConsentInv, StaffHolds
  <2>3. row.status \in Live
    BY <2>1 DEF Live, Editable, OpenRequest, OpenApproval
  <2>4. RowConsents(row)
    BY <1>0, <2>1, <2>2, <2>3, SameConsents
  <2>5. /\ mem[w].start \in Day \cup {NoDay} /\ mem[w].end \in Day \cup {NoDay} /\ mem[w].days \in Nat
    BY <1>0, <2>1, Holds
  <2> DEFINE new == Edited(row, mem[w])
  <2>6. /\ new.start = NewStart(mem[w], row) /\ new.end = NewEnd(mem[w], row)
        /\ \/ new.status = row.status /\ new.substitutes = row.substitutes
              /\ (DOMAIN row.substitutes = {}
                    \/ (NewStart(mem[w], row) = row.start /\ NewEnd(mem[w], row) = row.end))
           \/ new.status = "awaiting_substitutes"
              /\ \A s \in DOMAIN new.substitutes : new.substitutes[s] = Asked
    BY <2>5, EditedRow
  <2>7. request' = [request EXCEPT ![r] = new]
    BY <2>1 DEF Saves
  <2> HIDE DEF new, now, r
  <2>8. RowConsents(new)
    <3>1. CASE new.status = "awaiting_substitutes" /\ \A s \in DOMAIN new.substitutes : new.substitutes[s] = Asked
      BY <1>a, <3>1 DEF RowConsents
    <3>2. CASE new.substitutes = row.substitutes /\ DOMAIN row.substitutes = {}
      BY <3>2 DEF RowConsents
    <3>3. CASE new.status = row.status /\ new.substitutes = row.substitutes /\ new.start = row.start /\ new.end = row.end
      BY <2>3, <2>4, <3>3, SameConsents
    <3> QED
      BY <2>6, <3>1, <3>2, <3>3
  <2> QED
    BY <1>1, <2>1, <2>7, <2>8 DEF r
<1>5. ASSUME NEW w \in Worker, Decide(w), request' # request PROVE Claim
  <2> DEFINE r == mem[w].request
             kind == mem[w].kind
             new == Decided(kind, request[r])
  <2>1. r \in Request /\ kind \in Decision
    BY <1>0, <1>5, Holds DEF Decide
  <2>2. Allowed(kind, request[r]) /\ request' = [request EXCEPT ![r] = new]
    BY <1>5 DEF Decide, Applies
  <2>3. \/ /\ kind \in {"approve", "manager_approve"}
           /\ request[r] \in Row /\ request[r].status \in OpenApproval
           /\ new = apply_approval_step(request[r])
        \/ new.status \in {"rejected", "cancelled", "deleted"}
    BY <1>0, <2>1, <2>2, DecidedRow
  <2> HIDE DEF r, kind, new
  <2>4. RowConsents(new)
    <3>1. CASE new.status \in {"rejected", "cancelled", "deleted"}
      BY <3>1 DEF RowConsents, Live, OpenRequest, OpenApproval
    <3>2. CASE request[r] \in Row /\ request[r].status \in OpenApproval /\ new = apply_approval_step(request[r])
      <4>1. new.start = request[r].start /\ new.end = request[r].end /\ new.substitutes = request[r].substitutes
        BY <1>0, <3>2, StepRow
      <4>2. request[r].status \in Live /\ request[r].status # "awaiting_substitutes"
        BY <3>2 DEF Live, OpenRequest, OpenApproval
      <4> QED
        BY <1>0, <2>1, <4>1, <4>2, SameConsents
    <3> QED
      BY <2>3, <3>1, <3>2
  <2> QED
    BY <1>1, <2>1, <2>2, <2>4
<1>6. ASSUME NEW r \in Request, skip_pending(r) PROVE Claim
  <2> DEFINE old == request[r].substitutes
             subs == [s \in DOMAIN old |-> IF old[s].status = "pending" THEN [old[s] EXCEPT !.status = "skipped"]
                                           ELSE old[s]]
             new == [[request[r] EXCEPT !.status = "pending"] EXCEPT !.substitutes = subs]
  <2>1. request[r] \in Row
    BY <1>0, <1>6, LiveRow DEF skip_pending, Live, OpenRequest
  <2>2. \A s \in DOMAIN old : old[s] \in Consent
    BY <2>1, RowFields, ConsentsFun
  <2>3. request' = [request EXCEPT ![r] = new]
    BY <1>6, <2>1 DEF skip_pending
  <2>4. \A s \in DOMAIN old : old[s].status = "accepted" => old[s].on = <<request[r].start, request[r].end>>
    BY <1>0, <1>6 DEF RowConsents, skip_pending, Live, OpenRequest
  <2>5. DOMAIN subs = DOMAIN old /\ \A s \in DOMAIN old :
            /\ subs[s].status \in {"skipped", "accepted"}
            /\ subs[s].status = "accepted" => subs[s].on = <<request[r].start, request[r].end>>
    BY <2>2, <2>4 DEF Consent
  <2> HIDE DEF subs
  <2>6. new.substitutes = subs /\ new.start = request[r].start /\ new.end = request[r].end
    BY <2>1 DEF Row
  <2> HIDE DEF new
  <2>7. RowConsents(new)
    BY <2>5, <2>6 DEF RowConsents
  <2> QED
    BY <1>1, <2>3, <2>7
<1>7. ASSUME NEW r \in Request, NEW t \in Sub, Accept(r, t) PROVE Claim
  <2> DEFINE old == request[r].substitutes
             yes == [status |-> "accepted", on |-> <<request[r].start, request[r].end>>]
             subs == [old EXCEPT ![t] = yes]
             row == [request[r] EXCEPT !.substitutes = subs]
  <2>1. request[r] \in Row /\ request[r].status = "awaiting_substitutes"
    BY <1>0, <1>7, LiveRow DEF Accept, Live, OpenRequest
  <2>2. \A s \in DOMAIN old : old[s].status = "accepted" => old[s].on = <<request[r].start, request[r].end>>
    BY <1>0, <2>1 DEF RowConsents, Live, OpenRequest
  <2>3. DOMAIN subs = DOMAIN old /\ \A s \in DOMAIN old :
            subs[s].status = "accepted" => subs[s].on = <<request[r].start, request[r].end>>
    BY <2>2
  <2>4. \/ request' = [request EXCEPT ![r] = row]
        \/ /\ request' = [request EXCEPT ![r] = [row EXCEPT !.status = "pending"]]
           /\ \A s \in DOMAIN row.substitutes : row.substitutes[s].status \in {"accepted", "skipped"}
    BY <1>7 DEF Accept
  <2> HIDE DEF subs
  <2>5. /\ row.substitutes = subs /\ row.start = request[r].start /\ row.end = request[r].end
        /\ row.status = "awaiting_substitutes"
        /\ [row EXCEPT !.status = "pending"].substitutes = subs
        /\ [row EXCEPT !.status = "pending"].start = request[r].start
        /\ [row EXCEPT !.status = "pending"].end = request[r].end
    BY <2>1 DEF Row
  <2> HIDE DEF row
  <2>6. RowConsents(row)
    BY <2>3, <2>5 DEF RowConsents
  <2>7. CASE request' = [request EXCEPT ![r] = row]
    BY <1>1, <2>6, <2>7
  <2>8. CASE /\ request' = [request EXCEPT ![r] = [row EXCEPT !.status = "pending"]]
             /\ \A s \in DOMAIN row.substitutes : row.substitutes[s].status \in {"accepted", "skipped"}
    <3>1. RowConsents([row EXCEPT !.status = "pending"])
      BY <2>3, <2>5, <2>8 DEF RowConsents
    <3> QED
      BY <1>1, <2>8, <3>1
  <2> QED
    BY <2>4, <2>7, <2>8
<1>8. ASSUME NEW r \in Request, NEW t \in Sub, Refuse(r, t) PROVE Claim
  <2>1. RowConsents(Shut("rejected"))
    BY DEF RowConsents, Shut, Live, OpenRequest, OpenApproval
  <2> QED
    BY <1>1, <1>8, <2>1 DEF Refuse
<1>9. Claim
  BY <1>2, <1>3, <1>4, <1>5, <1>6, <1>7, <1>8
     DEF Next, vars, Submit, EditLoad, DecideLoad, BalanceLoad, BalanceSave, EditChain
<1> QED
  BY <1>9, ConsentsByRowNext DEF Claim

\* When forms do not overlap and nobody writes a request that the staff is editing, the
\* approvers never see, and never approve, a request whose substitutes agreed to other
\* dates: substitutes.py asks them again after every edit of the dates.
THEOREM ConsentAlwaysHolds == RowsGuarded => (Spec => []ConsentHolds)
<1>1. Init => FormAlone /\ StaffHolds /\ AcceptedFits /\ ConsentHolds
  BY DEF Init, FormAlone, StaffHolds, AcceptedFits, ConsentHolds, Forms, Live,
         WithStatus, NoRow, OpenRequest, OpenApproval
<1>2. RowsGuarded /\ ConsentInv /\ TypeOK' /\ [Next]_vars => ConsentInv'
  <2> SUFFICES ASSUME RowsGuarded, ConsentInv, TypeOK', [Next]_vars PROVE ConsentInv'
    OBVIOUS
  <2>1. FormAlone' /\ StaffHolds'
    BY FormAloneStep, StaffHoldsStep DEF ConsentInv, RowsGuarded
  <2>2. AcceptedFits' /\ ConsentHolds'
    BY ConsentStep
  <2> QED
    BY <2>1, <2>2 DEF ConsentInv
<1>3. RowsGuarded /\ [Next]_vars => RowsGuarded'
  BY DEF RowsGuarded, OneForm
<1>4. TypeOK /\ FormAlone /\ StaffHolds /\ AcceptedFits /\ ConsentHolds => ConsentInv
  BY DEF ConsentInv
<1>5. ConsentInv => ConsentHolds
  BY DEF ConsentInv
<1> QED
  BY <1>1, <1>2, <1>3, <1>4, <1>5, TypeCorrect, PTL DEF Spec

----------------------------------------------------------------------------
(* The balance *)

\* TotalDays(WithStatus(S)), as a function of the rows.
Days(rows, S) ==
    SumOver([r \in {q \in Request : rows[q].status \in S} |-> rows[r].total_days],
            {q \in Request : rows[q].status \in S})

\* What a row adds to the days of the statuses S, to the pending and to the used days.
Adds(row, S) == IF row.status \in S THEN row.total_days ELSE 0
Pending(row) == Adds(row, OpenRequest)
Used(row) == Adds(row, {"approved"})

LEMMA DaysOfRows ==
    /\ BalanceMatches <=> /\ balance.used_days = Days(request, {"approved"})
                          /\ balance.pending_days = Days(request, OpenRequest)
    /\ BalanceMatches' <=> /\ balance'.used_days = Days(request', {"approved"})
                           /\ balance'.pending_days = Days(request', OpenRequest)
BY DEF BalanceMatches, TotalDays, WithStatus, Days

LEMMA RowDays ==
    ASSUME NEW row \in AnyRow
    PROVE  /\ row.status \in Live => row.total_days \in Nat
           /\ Pending(row) \in Nat /\ Used(row) \in Nat
<1>1. CASE row \in Row
  BY <1>1, RowFields DEF Pending, Used, Adds
<1>2. CASE row \in {NoRow, Deleted, Shut("rejected"), Shut("cancelled")}
  BY <1>2 DEF NoRow, Deleted, Shut, Live, Pending, Used, Adds, OpenRequest, OpenApproval
<1> QED
  BY <1>1, <1>2 DEF AnyRow

\* The sums over the rows before and after one row is written.
LEMMA DaysChange ==
    ASSUME NEW rows \in [Request -> AnyRow], NEW next \in [Request -> AnyRow], NEW r \in Request,
           \A q \in Request \ {r} : next[q] = rows[q], NEW S, \A x \in S : x \in Live
    PROVE  \E rest \in Nat :
               /\ Days(rows, S) = rest + Adds(rows[r], S)
               /\ Days(next, S) = rest + Adds(next[r], S)
<1> DEFINE A == {q \in Request : rows[q].status \in S}
           B == {q \in Request : next[q].status \in S}
           f == [q \in A |-> rows[q].total_days]
           g == [q \in B |-> next[q].total_days]
<1>1. IsFiniteSet(A) /\ IsFiniteSet(B)
  BY FS_Subset, NameAssumption
<1>2. \A q \in A : f[q] \in Nat
  BY RowDays
<1>3. \A q \in B : g[q] \in Nat
  BY RowDays
<1>4. A \ {r} = B \ {r} /\ \A q \in A \ {r} : f[q] = g[q]
  OBVIOUS
<1>5. /\ (IF r \in A THEN f[r] ELSE 0) = Adds(rows[r], S)
      /\ (IF r \in B THEN g[r] ELSE 0) = Adds(next[r], S)
  BY DEF Adds
<1>6. Days(rows, S) = SumOver(f, A) /\ Days(next, S) = SumOver(g, B)
  BY DEF Days
<1> HIDE DEF A, B, f, g
<1>7. PICK rest \in Nat : /\ SumOver(f, A) = rest + (IF r \in A THEN f[r] ELSE 0)
                          /\ SumOver(g, B) = rest + (IF r \in B THEN g[r] ELSE 0)
  BY <1>1, <1>2, <1>3, <1>4, SumChange
<1> QED
  BY <1>5, <1>6, <1>7

\* A row is part of the balance, and a step that moves what it adds keeps the balance.
LEMMA RowBalance ==
    ASSUME TypeOK, BalanceMatches, NEW r \in Request, NEW new \in AnyRow,
           request' = [request EXCEPT ![r] = new]
    PROVE  /\ Pending(request[r]) \in Nat /\ Used(request[r]) \in Nat
           /\ Pending(request[r]) <= balance.pending_days /\ Used(request[r]) <= balance.used_days
           /\ /\ balance'.pending_days = balance.pending_days - Pending(request[r]) + Pending(new)
              /\ balance'.used_days = balance.used_days - Used(request[r]) + Used(new)
              => BalanceMatches'
<1>1. request \in [Request -> AnyRow] /\ request[r] \in AnyRow
  BY TypeNow
<1>2. /\ Pending(request[r]) \in Nat /\ Used(request[r]) \in Nat
      /\ Pending(new) \in Nat /\ Used(new) \in Nat
  BY <1>1, RowDays
<1>a. request' \in [Request -> AnyRow] /\ request'[r] = new /\ \A q \in Request \ {r} : request'[q] = request[q]
  BY <1>1
<1>3. PICK p \in Nat : Days(request, OpenRequest) = p + Pending(request[r]) /\ Days(request', OpenRequest) = p + Pending(new)
  <2>1. \A x \in OpenRequest : x \in Live
    BY DEF Live
  <2>2. \E rest \in Nat : /\ Days(request, OpenRequest) = rest + Adds(request[r], OpenRequest)
                          /\ Days(request', OpenRequest) = rest + Adds(request'[r], OpenRequest)
    BY ONLY r \in Request, <1>1, <1>a, <2>1, DaysChange, Zenon
  <2> QED
    BY <1>a, <2>2 DEF Pending
<1>4. PICK u \in Nat : Days(request, {"approved"}) = u + Used(request[r]) /\ Days(request', {"approved"}) = u + Used(new)
  <2> DEFINE S == {"approved"}
  <2>1. \A x \in S : x \in Live
    BY DEF Live
  <2> HIDE DEF S
  <2>2. \E rest \in Nat : Days(request, S) = rest + Adds(request[r], S) /\ Days(request', S) = rest + Adds(request'[r], S)
    BY ONLY r \in Request, <1>1, <1>a, <2>1, DaysChange, Zenon
  <2> QED
    BY <1>a, <2>2 DEF Used, S
<1>5. balance.used_days = u + Used(request[r]) /\ balance.pending_days = p + Pending(request[r])
  BY <1>3, <1>4, DaysOfRows
<1>6. ASSUME balance'.pending_days = balance.pending_days - Pending(request[r]) + Pending(new),
             balance'.used_days = balance.used_days - Used(request[r]) + Used(new)
      PROVE  BalanceMatches'
  <2>1. balance'.pending_days = p + Pending(new) /\ balance'.used_days = u + Used(new)
    BY <1>2, <1>5, <1>6
  <2> QED
    BY <1>3, <1>4, <2>1, DaysOfRows
<1> QED
  BY <1>2, <1>5, <1>6

\* What update_leave_balance does to a balance that has the days.
LEMMA BalanceUpdate ==
    ASSUME NEW b \in Balance, NEW days \in Nat
    PROVE  /\ b.pending_days \in Nat /\ b.used_days \in Nat
           /\ LET n == update_leave_balance(b, "pending", days)
              IN  n.pending_days = b.pending_days + days /\ n.used_days = b.used_days
           /\ \A action \in {"reject", "cancel"} : days <= b.pending_days =>
                LET n == update_leave_balance(b, action, days)
                IN  n.pending_days = b.pending_days - days /\ n.used_days = b.used_days
           /\ days <= b.pending_days =>
                LET n == update_leave_balance(b, "approve", days)
                IN  n.pending_days = b.pending_days - days /\ n.used_days = b.used_days + days
           /\ days <= b.used_days =>
                LET n == update_leave_balance(b, "cancel_approved", days)
                IN  n.pending_days = b.pending_days /\ n.used_days = b.used_days - days
<1>1. b.pending_days \in Nat /\ b.used_days \in Nat
  BY DEF Balance
<1>2. /\ days <= b.pending_days => Less(b.pending_days, days) = b.pending_days - days
      /\ days <= b.used_days => Less(b.used_days, days) = b.used_days - days
  BY <1>1 DEF Less
<1>3. LET n == update_leave_balance(b, "pending", days)
      IN  n.pending_days = b.pending_days + days /\ n.used_days = b.used_days
  BY DEF update_leave_balance, Balance
<1>4. ASSUME NEW action \in {"reject", "cancel"}
      PROVE  LET n == update_leave_balance(b, action, days)
             IN  n.pending_days = Less(b.pending_days, days) /\ n.used_days = b.used_days
  BY DEF update_leave_balance, Balance
<1>5. LET n == update_leave_balance(b, "approve", days)
      IN  n.pending_days = Less(b.pending_days, days) /\ n.used_days = b.used_days + days
  BY DEF update_leave_balance, Balance
<1>6. LET n == update_leave_balance(b, "cancel_approved", days)
      IN  n.pending_days = b.pending_days /\ n.used_days = Less(b.used_days, days)
  BY DEF update_leave_balance, Balance
<1> QED
  BY <1>1, <1>2, <1>3, <1>4, <1>5, <1>6

\* An edit moves the difference of its days, the old ones being those the balance has.
LEMMA EditBalance ==
    ASSUME BalanceInv, NEW w \in Worker, Edit(w) \/ StaffEdit(w)
    PROVE  BalanceMatches'
<1>0. TypeOK /\ BalanceMatches /\ balance \in Balance /\ request \in [Request -> AnyRow]
  BY TypeNow DEF BalanceInv
<1>1. CASE request' = request /\ balance' = balance
  BY <1>0, <1>1, DaysOfRows
<1>2. CASE request' # request \/ balance' # balance
  <2> DEFINE r == mem[w].request
             now == request[r]
  <2>1. PICK row \in Row :
               /\ row.status \in Editable /\ Saves(w, row) /\ Ends(w)
               /\ mem[w].request \in Request /\ pc[w] \in {"edit", "staff_edit"}
               /\ \/ pc[w] = "edit" /\ row = request[mem[w].request]
                  \/ pc[w] = "staff_edit" /\ row = StaffRow(w)
    BY <1>0, <1>2, EditSaves
  <2>2. now.status = row.status /\ now.total_days = row.total_days
    BY <1>0, <2>1, StaffRowType DEF BalanceInv, StaffHolds
  <2>3. /\ mem[w].start \in Day \cup {NoDay} /\ mem[w].end \in Day \cup {NoDay} /\ mem[w].days \in Nat
    BY <1>0, <2>1, Holds
  <2> DEFINE new == Edited(row, mem[w])
             days == mem[w].days
  <2>4. new \in Row /\ new.total_days = days /\ new.status \in {row.status, "awaiting_substitutes"}
    BY <2>3, EditedRow
  <2>5. request' = [request EXCEPT ![r] = new]
    BY <2>1 DEF Saves
  <2>6. \/ row.total_days = days /\ balance' = balance
        \/ balance' = update_leave_balance(update_leave_balance(balance, "cancel", row.total_days), "pending", days)
    BY <2>1 DEF Saves, Counts
  <2> HIDE DEF new, days, now, r
  <2>7. /\ Pending(now) = row.total_days /\ Used(now) = 0
        /\ Pending(new) = days /\ Used(new) = 0
    BY <2>1, <2>2, <2>4 DEF Pending, Used, Adds, Editable, OpenRequest, OpenApproval
  <2>8. r \in Request /\ new \in AnyRow /\ days \in Nat /\ row.total_days \in Nat
    BY <2>1, <2>3, <2>4, RowFields DEF r, AnyRow, days
  <2>9. /\ row.total_days <= balance.pending_days
        /\ /\ balance'.pending_days = balance.pending_days - row.total_days + days
           /\ balance'.used_days = balance.used_days - 0 + 0
           => BalanceMatches'
    BY <1>0, <2>5, <2>7, <2>8, RowBalance DEF now
  <2>10. /\ balance'.pending_days = balance.pending_days - row.total_days + days
         /\ balance'.used_days = balance.used_days
    <3> DEFINE b == update_leave_balance(balance, "cancel", row.total_days)
    <3>1. b \in Balance
      BY <1>0, <2>8, BalanceType
    <3>2. b.pending_days = balance.pending_days - row.total_days /\ b.used_days = balance.used_days
      BY <1>0, <2>8, <2>9, BalanceUpdate
    <3> HIDE DEF b
    <3>3. LET n == update_leave_balance(b, "pending", days)
          IN  n.pending_days = b.pending_days + days /\ n.used_days = b.used_days
      BY <2>8, <3>1, BalanceUpdate
    <3>4. balance.pending_days \in Nat
      BY <1>0 DEF Balance
    <3> QED
      BY <2>6, <2>8, <3>2, <3>3, <3>4 DEF b
  <2>11. balance.used_days \in Nat
    BY <1>0 DEF Balance
  <2> QED
    BY <2>9, <2>10, <2>11
<1> QED
  BY <1>1, <1>2

\* A decision takes back what the row it closes adds, or makes its days used ones.
LEMMA DecideBalance ==
    ASSUME BalanceInv, NEW w \in Worker, Decide(w)
    PROVE  BalanceMatches'
<1>0. TypeOK /\ BalanceMatches /\ balance \in Balance /\ request \in [Request -> AnyRow]
  BY TypeNow DEF BalanceInv
<1> DEFINE r == mem[w].request
           kind == mem[w].kind
           now == request[r]
           new == Decided(kind, now)
           action == DaysOf(kind, now)
<1>1. CASE ~Allowed(kind, now)
  BY <1>0, <1>1, DaysOfRows DEF Decide
<1>2. CASE Allowed(kind, now)
  <2>1. r \in Request /\ kind \in Decision
    BY <1>0, Holds DEF Decide
  <2>2. /\ request' = [request EXCEPT ![r] = new]
        /\ action = "none" => balance' = balance
        /\ action # "none" => balance' = update_leave_balance(balance, action, now.total_days)
    BY <1>2 DEF Decide, Applies, Counts
  <2>3. /\ kind \in {"approve", "manager_approve", "reject", "manager_reject"} => now.status \in OpenApproval
        /\ kind \in {"approve", "manager_approve"} => now \in Row /\ new = apply_approval_step(now)
        /\ kind \notin {"approve", "manager_approve"} => new \in {Shut("rejected"), Shut("cancelled"), Deleted}
    <3>1. kind \in {"approve", "manager_approve", "reject", "manager_reject"} => now.status \in OpenApproval
      BY <1>0, <1>2, <2>1, AllowedRow
    <3>2. now.status \in OpenApproval => now \in Row
      BY <1>0, <2>1, LiveRow DEF Live, OpenRequest
    <3>3. kind \in {"approve", "manager_approve"} => new = apply_approval_step(now)
      BY DEF Decided
    <3>4. kind \notin {"approve", "manager_approve"} => new \in {Shut("rejected"), Shut("cancelled"), Deleted}
      BY <2>1 DEF Decided, Decision
    <3> HIDE DEF new, now
    <3> QED
      BY <3>1, <3>2, <3>3, <3>4
  <2>4. /\ kind \in {"approve", "manager_approve"} => action = IF new.status = "approved" THEN "approve" ELSE "none"
        /\ kind \in {"reject", "manager_reject"} => action = "reject"
        /\ kind \in {"cancel", "delete", "staff_delete"} =>
             action = IF now.status = "approved" THEN "cancel_approved"
                      ELSE IF now.status \in OpenRequest THEN "cancel" ELSE "none"
    BY DEF DaysOf
  <2> HIDE DEF r, kind, now, new, action
  <2>5. now = request[r]
    BY DEF now
  <2>6. now \in AnyRow
    BY <1>0, <2>1, <2>5
  <2>7. kind \in {"approve", "manager_approve"} =>
            /\ new \in Row /\ new.status \in {"manager_approved", "hr_approved", "approved"}
            /\ new.total_days = now.total_days
    BY <1>0, <2>3, StepRow
  <2>8. new \in AnyRow
    BY <2>3, <2>7 DEF AnyRow
  <2>9. /\ Pending(now) \in Nat /\ Used(now) \in Nat
        /\ Pending(now) <= balance.pending_days /\ Used(now) <= balance.used_days
        /\ /\ balance'.pending_days = balance.pending_days - Pending(now) + Pending(new)
           /\ balance'.used_days = balance.used_days - Used(now) + Used(new)
           => BalanceMatches'
    BY <1>0, <2>1, <2>2, <2>5, <2>8, RowBalance
  <2>10. balance.pending_days \in Nat /\ balance.used_days \in Nat
    BY <1>0 DEF Balance
  <2>11. kind \notin {"approve", "manager_approve"} => Pending(new) = 0 /\ Used(new) = 0
    BY <2>3 DEF Pending, Used, Adds, Shut, Deleted, OpenRequest, OpenApproval
  <2>12. now.status \in OpenRequest => Pending(now) = now.total_days /\ Used(now) = 0
    BY DEF Pending, Used, Adds, OpenRequest, OpenApproval
  <2>13. now.status = "approved" => Pending(now) = 0 /\ Used(now) = now.total_days
    BY DEF Pending, Used, Adds, OpenRequest, OpenApproval
  <2>14. now.status \notin Live => Pending(now) = 0 /\ Used(now) = 0
    BY DEF Pending, Used, Adds, Live
  <2>15. now.status \in Live => now.total_days \in Nat
    BY <2>6, RowDays
  <2>16. OpenApproval \subseteq OpenRequest /\ Live = OpenRequest \cup {"approved"} /\ "approved" \notin OpenRequest
    BY DEF Live, OpenRequest, OpenApproval
  <2>17. CASE kind \in {"approve", "manager_approve"} /\ new.status = "approved"
    <3>1. Pending(new) = 0 /\ Used(new) = now.total_days
      BY <2>7, <2>17 DEF Pending, Used, Adds, OpenRequest, OpenApproval
    <3>2. now.status \in OpenRequest
      BY <2>3, <2>16, <2>17
    <3>3. balance' = update_leave_balance(balance, "approve", now.total_days)
      BY <2>2, <2>4, <2>17
    <3>4. now.total_days \in Nat /\ now.total_days <= balance.pending_days
      BY <2>9, <2>12, <2>15, <2>16, <3>2
    <3>5. balance'.pending_days = balance.pending_days - now.total_days
          /\ balance'.used_days = balance.used_days + now.total_days
      BY <1>0, <3>3, <3>4, BalanceUpdate
    <3> QED
      BY <2>9, <2>10, <2>12, <3>1, <3>2, <3>4, <3>5
  <2>18. CASE kind \in {"approve", "manager_approve"} /\ new.status # "approved"
    <3>1. Pending(new) = now.total_days /\ Used(new) = 0
      BY <2>7, <2>18 DEF Pending, Used, Adds, OpenRequest, OpenApproval
    <3>2. now.status \in OpenRequest
      BY <2>3, <2>16, <2>18
    <3>3. balance' = balance
      BY <2>2, <2>4, <2>18
    <3> QED
      BY <2>9, <2>10, <2>12, <3>1, <3>2, <3>3
  <2>19. CASE kind \notin {"approve", "manager_approve"} /\ now.status \in OpenRequest
    <3>1. action \in {"reject", "cancel"}
      BY <2>1, <2>4, <2>16, <2>19 DEF Decision
    <3>2. now.total_days \in Nat /\ now.total_days <= balance.pending_days
      BY <2>9, <2>12, <2>15, <2>16, <2>19
    <3>3. balance'.pending_days = balance.pending_days - now.total_days /\ balance'.used_days = balance.used_days
      BY <1>0, <2>2, <3>1, <3>2, BalanceUpdate
    <3> QED
      BY <2>9, <2>10, <2>11, <2>12, <2>19, <3>2, <3>3
  <2>20. CASE kind \notin {"approve", "manager_approve"} /\ now.status = "approved"
    <3>1. action = "cancel_approved"
      BY <2>1, <2>3, <2>4, <2>16, <2>20 DEF Decision
    <3>2. now.total_days \in Nat /\ now.total_days <= balance.used_days
      BY <2>9, <2>13, <2>15, <2>16, <2>20
    <3>3. balance'.pending_days = balance.pending_days /\ balance'.used_days = balance.used_days - now.total_days
      BY <1>0, <2>2, <3>1, <3>2, BalanceUpdate
    <3> QED
      BY <2>9, <2>10, <2>11, <2>13, <2>20, <3>2, <3>3
  <2>21. CASE kind \notin {"approve", "manager_approve"} /\ now.status \notin Live
    <3>1. balance' = balance
      BY <2>1, <2>2, <2>3, <2>4, <2>16, <2>21 DEF Decision
    <3> QED
      BY <2>9, <2>10, <2>11, <2>14, <2>21, <3>1
  <2> QED
    BY <2>16, <2>17, <2>18, <2>19, <2>20, <2>21
<1> QED
  BY <1>1, <1>2

\* A new request's days become pending.
LEMMA CreateBalance ==
    ASSUME BalanceInv, NEW w \in Worker, Create(w)
    PROVE  BalanceMatches'
<1>0. TypeOK /\ BalanceMatches /\ balance \in Balance /\ request \in [Request -> AnyRow]
  BY TypeNow DEF BalanceInv
<1> DEFINE days == mem[w].days
           new == [status |-> IF mem[w].substitutes = {} THEN "pending" ELSE "awaiting_substitutes",
                   start |-> mem[w].start, end |-> mem[w].end, total_days |-> mem[w].days,
                   manager_approver |-> FALSE, hr_approver |-> FALSE,
                   substitutes |-> [s \in mem[w].substitutes |-> Asked]]
<1>1. PICK r \in Request : request[r].status = "none" /\ request' = [request EXCEPT ![r] = new]
  BY DEF Create, WithStatus
<1>2. balance' = update_leave_balance(balance, "pending", days)
  BY DEF Create, Counts
<1>3. new.status \in {"pending", "awaiting_substitutes"} /\ new.total_days = days
  OBVIOUS
<1>4. mem[w].start \in Day /\ mem[w].end \in Day /\ mem[w].days \in Nat /\ mem[w].substitutes \in SUBSET Sub
  BY <1>0, Holds DEF Create, NewMem
<1>5. new \in AnyRow
  <2>1. Asked \in Consent
    BY DEF Asked, Consent
  <2>2. [s \in mem[w].substitutes |-> Asked] \in Consents
    BY <1>4, <2>1, ConsentsFun
  <2> QED
    BY <1>4, <2>2 DEF Row, AnyRow, OpenRequest, OpenApproval
<1> HIDE DEF new, days
<1>6. Pending(request[r]) = 0 /\ Used(request[r]) = 0 /\ Pending(new) = days /\ Used(new) = 0
  BY <1>1, <1>3 DEF Pending, Used, Adds, OpenRequest, OpenApproval
<1>7. /\ balance'.pending_days = balance.pending_days - 0 + days
      /\ balance'.used_days = balance.used_days - 0 + 0
      => BalanceMatches'
  BY <1>0, <1>1, <1>5, <1>6, RowBalance
<1>8. balance'.pending_days = balance.pending_days + days /\ balance'.used_days = balance.used_days
  BY <1>0, <1>2, <1>4, BalanceUpdate DEF days
<1>9. balance.pending_days \in Nat /\ balance.used_days \in Nat /\ days \in Nat
  BY <1>0, <1>4 DEF Balance, days
<1> QED
  BY <1>7, <1>8, <1>9

\* A substitute's answer: an acceptance leaves the days pending, a refusal frees them.
LEMMA SubstituteBalance ==
    ASSUME BalanceInv, TypeOK', NEW r \in Request, Substitutes(r)
    PROVE  BalanceMatches'
<1>0. TypeOK /\ BalanceMatches /\ balance \in Balance /\ request \in [Request -> AnyRow]
  BY TypeNow DEF BalanceInv
<1> DEFINE now == request[r]
           new == request'[r]
<1>1. now.status = "awaiting_substitutes" /\ now \in Row
  BY <1>0, LiveRow DEF Substitutes, skip_pending, Accept, Refuse, Live, OpenRequest
<1>2. \E x : request' = [request EXCEPT ![r] = x]
  BY DEF Substitutes, skip_pending, Accept, Refuse
<1>3. request' = [request EXCEPT ![r] = new]
  BY <1>0, <1>2
<1>4. new \in AnyRow
  BY DEF TypeOK, AnyRow
<1>5. /\ Pending(now) = now.total_days /\ Used(now) = 0 /\ now.total_days \in Nat
  BY <1>1, RowFields DEF Pending, Used, Adds, OpenRequest
<1>6. /\ Pending(now) <= balance.pending_days
      /\ /\ balance'.pending_days = balance.pending_days - Pending(now) + Pending(new)
         /\ balance'.used_days = balance.used_days - Used(now) + Used(new)
         => BalanceMatches'
  <2> HIDE DEF new
  <2> QED
    BY <1>0, <1>3, <1>4, RowBalance
<1>7. balance.pending_days \in Nat /\ balance.used_days \in Nat
  BY <1>0 DEF Balance
<1>8. ASSUME new.status \in OpenRequest, new.total_days = now.total_days, balance' = balance
      PROVE  BalanceMatches'
  <2>1. Pending(new) = now.total_days /\ Used(new) = 0
    BY <1>8 DEF Pending, Used, Adds, OpenRequest, OpenApproval
  <2> HIDE DEF new, now
  <2> QED
    BY <1>5, <1>6, <1>7, <1>8, <2>1
<1>9. CASE skip_pending(r)
  <2> DEFINE subs == [s \in DOMAIN now.substitutes |->
                        IF now.substitutes[s].status = "pending"
                        THEN [now.substitutes[s] EXCEPT !.status = "skipped"]
                        ELSE now.substitutes[s]]
  <2>1. request' = [request EXCEPT ![r] = [[now EXCEPT !.status = "pending"] EXCEPT !.substitutes = subs]]
    BY <1>1, <1>9 DEF skip_pending
  <2> HIDE DEF subs
  <2>2. new.status = "pending" /\ new.total_days = now.total_days
    BY <1>0, <1>1, <2>1 DEF Row
  <2> QED
    BY <1>8, <1>9, <2>2 DEF skip_pending, OpenRequest, OpenApproval
<1>10. ASSUME NEW s \in Sub, Accept(r, s) PROVE BalanceMatches'
  <2> DEFINE row == [now EXCEPT !.substitutes[s] =
                        [status |-> "accepted", on |-> <<now.start, now.end>>]]
  <2>1. \/ request' = [request EXCEPT ![r] = row]
        \/ request' = [request EXCEPT ![r] = [row EXCEPT !.status = "pending"]]
    BY <1>10 DEF Accept
  <2>2. /\ row.total_days = now.total_days /\ [row EXCEPT !.status = "pending"].total_days = now.total_days
        /\ row.status = "awaiting_substitutes" /\ [row EXCEPT !.status = "pending"].status = "pending"
    BY <1>1 DEF Row
  <2> HIDE DEF row
  <2>3. new.status \in {"awaiting_substitutes", "pending"} /\ new.total_days = now.total_days
    BY <1>0, <2>1, <2>2
  <2> QED
    BY <1>8, <1>10, <2>3 DEF Accept, OpenRequest, OpenApproval
<1>11. ASSUME NEW s \in Sub, Refuse(r, s) PROVE BalanceMatches'
  <2>1. new.status = "rejected"
    BY <1>0, <1>11 DEF Refuse, Shut
  <2>2. Pending(new) = 0 /\ Used(new) = 0
    BY <2>1 DEF Pending, Used, Adds, OpenRequest, OpenApproval
  <2>3. balance' = update_leave_balance(balance, "reject", now.total_days)
    BY <1>11 DEF Refuse, Counts
  <2> HIDE DEF new, now
  <2>4. balance'.pending_days = balance.pending_days - now.total_days /\ balance'.used_days = balance.used_days
    BY <1>0, <1>5, <1>6, <2>3, BalanceUpdate
  <2> QED
    BY <1>5, <1>6, <1>7, <2>2, <2>4
<1> QED
  BY <1>9, <1>10, <1>11 DEF Substitutes

\* Without the race nobody counts days while an administrator edits the balance.
LEMMA CountedAlone ==
    ASSUME Races = {}, NEW b, Counts(b)
    PROVE  balance' = b /\ \A w \in Worker : pc[w] # "balance"
BY DEF Counts

LEMMA BalanceHeldStep ==
    ASSUME Races = {}, BalanceInv, [Next]_vars
    PROVE  BalanceHeld'
<1>0. pc \in [Worker -> Place] /\ DOMAIN mem = Worker /\ BalanceHeld /\ TypeOK /\ balance \in Balance
  BY TypeNow DEF BalanceInv
<1>1. ASSUME balance' = balance,
             \A v \in Worker : pc'[v] = "balance" => pc[v] = "balance" /\ mem'[v] = mem[v]
      PROVE  BalanceHeld'
  BY <1>0, <1>1 DEF BalanceHeld
<1>2. ASSUME \A v \in Worker : pc[v] # "balance", \A v \in Worker : pc'[v] = "balance" => pc[v] = "balance"
      PROVE  BalanceHeld'
  BY <1>2 DEF BalanceHeld
<1>3. ASSUME NEW w \in Worker, NEW where, where # "balance", NEW m, Goes(w, where, m)
      PROVE  \A v \in Worker : pc'[v] = "balance" => pc[v] = "balance" /\ mem'[v] = mem[v]
  BY <1>0, <1>3 DEF Goes
<1>4. ASSUME NEW w \in Worker, Submit(w) \/ EditLoad(w) \/ DecideLoad(w) PROVE BalanceHeld'
  <2>1. balance' = balance
    BY <1>4 DEF Submit, EditLoad, DecideLoad
  <2>2. \E where \in {"create", "edit", "staff_edit", "decide"} : \E m : Goes(w, where, m)
    BY <1>4 DEF Submit, EditLoad, DecideLoad
  <2> QED
    BY <1>1, <1>3, <2>1, <2>2
<1>5. ASSUME NEW w \in Worker, Create(w) \/ Edit(w) \/ StaffEdit(w) \/ Decide(w) PROVE BalanceHeld'
  <2>1. Goes(w, "idle", NoMem)
    BY <1>5 DEF Create, Edit, StaffEdit, Decide, Ends
  <2>2. \/ balance' = balance
        \/ \E b : Counts(b)
    BY <1>5 DEF Create, Edit, StaffEdit, Decide, Saves, Applies
  <2>3. balance' = balance \/ \A v \in Worker : pc[v] # "balance"
    BY <2>2, CountedAlone
  <2> QED
    BY <1>1, <1>2, <1>3, <2>1, <2>3
<1>6. ASSUME NEW w \in Worker, BalanceLoad(w) PROVE BalanceHeld'
  <2>1. PICK days \in Allocation : Goes(w, "balance", [balance EXCEPT !.allocated_days = days])
    BY <1>6 DEF BalanceLoad
  <2>2. /\ [balance EXCEPT !.allocated_days = days].used_days = balance.used_days
        /\ [balance EXCEPT !.allocated_days = days].pending_days = balance.pending_days
    BY <1>0 DEF Balance
  <2>3. balance' = balance
    BY <1>6 DEF BalanceLoad
  <2> QED
    BY <1>0, <2>1, <2>2, <2>3 DEF BalanceHeld, Goes
<1>7. ASSUME NEW w \in Worker, BalanceSave(w) PROVE BalanceHeld'
  <2>1. /\ balance' = mem[w] /\ mem[w].used_days = balance.used_days
        /\ mem[w].pending_days = balance.pending_days
    BY <1>0, <1>7 DEF BalanceSave, BalanceHeld
  <2>2. Goes(w, "idle", NoMem)
    BY <1>7 DEF BalanceSave, Ends
  <2> QED
    BY <1>0, <2>1, <2>2 DEF BalanceHeld, Goes
<1>8. ASSUME NEW r \in Request, Substitutes(r) PROVE BalanceHeld'
  <2>1. pc' = pc /\ mem' = mem
    BY <1>8 DEF Substitutes, skip_pending, Accept, Refuse
  <2>2. balance' = balance \/ \E b : Counts(b)
    BY <1>8 DEF Substitutes, skip_pending, Accept, Refuse
  <2> QED
    BY <1>1, <1>2, <2>1, <2>2, CountedAlone
<1>9. ASSUME NEW c \in Chain, EditChain(c) PROVE BalanceHeld'
  BY <1>1, <1>9 DEF EditChain
<1>10. CASE UNCHANGED vars
  BY <1>1, <1>10 DEF vars
<1> QED
  BY <1>4, <1>5, <1>6, <1>7, <1>8, <1>9, <1>10 DEF Next, Substitutes

LEMMA BalanceStep ==
    ASSUME BalanceInv, TypeOK', [Next]_vars
    PROVE  BalanceMatches'
<1>1. ASSUME request' = request, balance'.used_days = balance.used_days, balance'.pending_days = balance.pending_days
      PROVE  BalanceMatches'
  BY <1>1, DaysOfRows DEF BalanceInv
<1>2. ASSUME NEW w \in Worker, BalanceSave(w) PROVE BalanceMatches'
  BY <1>1, <1>2 DEF BalanceSave, BalanceInv, BalanceHeld
<1>3. ASSUME NEW w \in Worker, Submit(w) \/ EditLoad(w) \/ DecideLoad(w) \/ BalanceLoad(w) PROVE BalanceMatches'
  BY <1>1, <1>3 DEF Submit, EditLoad, DecideLoad, BalanceLoad
<1>4. ASSUME NEW c \in Chain, EditChain(c) PROVE BalanceMatches'
  BY <1>1, <1>4 DEF EditChain
<1>5. CASE UNCHANGED vars
  BY <1>1, <1>5 DEF vars
<1>6. ASSUME NEW r \in Request, Substitutes(r) PROVE BalanceMatches'
  BY <1>6, SubstituteBalance
<1>7. ASSUME NEW w \in Worker, Create(w) \/ Edit(w) \/ StaffEdit(w) \/ Decide(w) PROVE BalanceMatches'
  BY <1>7, CreateBalance, EditBalance, DecideBalance
<1> QED
  BY <1>2, <1>3, <1>4, <1>5, <1>6, <1>7 DEF Next, Substitutes

\* When none of the races happens, the balance is the sum over the requests: no sequence of
\* submissions, edits, answers of substitutes, decisions of any number of approvers at the
\* same time and cancellations counts a day twice or loses one, and the clamps at zero of
\* update_leave_balance never bite.
THEOREM BalanceAlwaysMatches == Races = {} => (Spec => []BalanceMatches)
<1>1. Init => FormAlone /\ StaffHolds /\ BalanceHeld /\ BalanceMatches
  <2> SUFFICES ASSUME Init PROVE FormAlone /\ StaffHolds /\ BalanceHeld /\ BalanceMatches
    OBVIOUS
  <2>1. FormAlone /\ StaffHolds /\ BalanceHeld
    BY DEF Init, FormAlone, StaffHolds, BalanceHeld, Forms
  <2>2. {q \in Request : request[q].status \in {"approved"}} = {}
        /\ {q \in Request : request[q].status \in OpenRequest} = {}
    BY DEF Init, NoRow, OpenRequest, OpenApproval
  <2>3. Days(request, {"approved"}) = 0 /\ Days(request, OpenRequest) = 0
    BY <2>2, SumEmpty DEF Days
  <2>4. balance.used_days = 0 /\ balance.pending_days = 0
    BY DEF Init
  <2> QED
    BY <2>1, <2>3, <2>4, DaysOfRows
<1>2. Races = {} /\ BalanceInv /\ TypeOK' /\ [Next]_vars => BalanceInv'
  <2> SUFFICES ASSUME Races = {}, BalanceInv, TypeOK', [Next]_vars PROVE BalanceInv'
    OBVIOUS
  <2>1. RowsGuarded /\ OneForm
    BY DEF RowsGuarded, OneForm
  <2>2. FormAlone' /\ StaffHolds'
    BY <2>1, FormAloneStep, StaffHoldsStep DEF BalanceInv
  <2> QED
    BY <2>2, BalanceHeldStep, BalanceStep DEF BalanceInv
<1>3. TypeOK /\ FormAlone /\ StaffHolds /\ BalanceHeld /\ BalanceMatches => BalanceInv
  BY DEF BalanceInv
<1>4. BalanceInv => BalanceMatches
  BY DEF BalanceInv
<1>5. Races = {} /\ [Next]_vars => (Races = {})'
  OBVIOUS
<1> QED
  BY <1>1, <1>2, <1>3, <1>4, <1>5, TypeCorrect, PTL DEF Spec

============================================================================
