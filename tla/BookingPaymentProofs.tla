------------------------- MODULE BookingPaymentProofs -------------------------
(***************************************************************************)
(* Proofs about BookingPayment, for any number of web workers, any prices, *)
(* deposits, recorded amounts and refund policy.                           *)
(***************************************************************************)
EXTENDS BookingPayment, TLAPS

----------------------------------------------------------------------------
(* The inductive invariants *)

\* Where a handler reads the booking it keeps in memory.
Reads == {"mailing", "refunding", "refunded", "refund_failed", "flagging", "flagged", "patch", "repricing"}

ObjHeld == \A w \in Workers : pc[w] \in Reads => obj[w] \in Row

\* Without the handlers that save a status over a cancelled booking which opens it again,
\* and without PATCH, which saves the whole row as read.
NoReopening == Ops \cap {"confirm", "check_in", "patch"} = {}

Reopening == {"confirm", "check_in", "patch", "repricing"}

NobodyReopens == \A w \in Workers : pc[w] \notin Reopening

\* The order is placed before anything is known of it at the bank.
OrderFirst == \A w \in Workers : pc[w] = "ordering" => w = Creator /\ bank.state = "none"

\* Money comes with the state paid, and goes back after it came.
BankBooks ==
    /\ bank.refunded <= bank.captured
    /\ bank.state # "paid" => bank.captured = 0 /\ bank.refunds = 0
    /\ bank.refunds = 0 => bank.refunded = 0

\* The handlers that may still ask the bank for a refund.
Asking == {"cancelled", "refunding"}

\* One handler cancelled the booking, and it has ended for good.
RefunderAlone ==
    /\ \A v, w \in Workers : pc[v] \in Asking /\ pc[w] \in Asking => v = w
    /\ \A w \in Workers : pc[w] \in Asking => row.status \in FINAL_BOOKING_STATUSES

\* After a refund either the bank has nothing left to return, or the one who asked for it
\* was the one who cancelled.
NothingLeft ==
    bank.refunds > 0 /\ bank.refunded # bank.captured =>
        /\ \A w \in Workers : pc[w] \notin Asking
        /\ row.status \in FINAL_BOOKING_STATUSES

RefundInv ==
    /\ TypeOK /\ ObjHeld /\ NobodyReopens /\ OrderFirst /\ BankBooks
    /\ RefunderAlone /\ NothingLeft /\ RefundOnce

\* What a refund is computed from was backed when it was read.
ObjBacked ==
    \A w \in Workers :
        pc[w] = "refunding" \/ (pc[w] = "cancelled" /\ obj[w] # NoObj) =>
            /\ obj[w].manual_payments <= row.manual_payments
            /\ bank.refunds = 0 => obj[w].paid_amount <= obj[w].manual_payments + bank.captured

\* What a refund leaves on the row is backed before it is saved.
LeftBacked ==
    \A w \in Workers : pc[w] = "refunded" =>
        /\ bank.refunds > 0
        /\ Less(obj[w].paid_amount, calculate_refund_amount(obj[w]))
             <= row.manual_payments + (bank.captured - bank.refunded)

RefundMarked == row.payment_status = "refunded" => bank.refunds > 0

BooksInv == RefundInv /\ ObjBacked /\ LeftBacked /\ RefundMarked /\ BooksBacked

\* No price below the online charge, and no PATCH around a refund: it could lower the price
\* below what a refund under way leaves paid.
PricesCover ==
    /\ \A p \in Prices : p >= charge
    /\ "patch" \notin Ops \/ Ops \cap {"client_cancel", "admin_cancel"} = {}

\* A row that a price and a payment may be saved from.
Covered(b) ==
    /\ b.paid_amount <= b.total_amount /\ charge <= b.total_amount
    /\ "patch" \notin Ops => b.total_amount = Total

HoldsPrice(w) ==
    pc[w] \in {"patch", "refunding", "refunded"} \/ (pc[w] = "cancelled" /\ obj[w] # NoObj)

Held(w) ==
    /\ HoldsPrice(w) => Covered(obj[w])
    /\ pc[w] \in {"patch", "repricing"} => "patch" \in Ops
    /\ pc[w] \in {"cancelled", "refunding", "refunded"} => Ops \cap {"client_cancel", "admin_cancel"} # {}

PricesInv ==
    /\ TypeOK /\ ObjHeld
    /\ Covered(row) /\ bank.captured <= charge
    /\ \A w \in Workers : Held(w)

----------------------------------------------------------------------------
(* Type correctness *)

LEMMA RowFields ==
    ASSUME NEW b \in Row
    PROVE  /\ b.status \in Status /\ b.paid_amount \in Nat /\ b.manual_payments \in Nat /\ b.total_amount \in Nat
           /\ b.bog_order_id \in BOOLEAN /\ b.payment_metadata \in Metadata
           /\ b.payment_status \in {"pending", "failed", "refunded"} \cup PaidStatus
BY DEF Row

LEMMA BankFields ==
    ASSUME TypeOK
    PROVE  bank.captured \in Nat /\ bank.refunded \in Nat /\ bank.refunds \in Nat
BY DEF TypeOK, Bank

LEMMA ChargeType == charge \in Nat /\ charge <= Total /\ Total \in Nat
BY AmountAssumption DEF charge

LEMMA PayStatusType ==
    ASSUME NEW x, NEW y
    PROVE  PayStatus(x, y) \in PaidStatus
BY DEF PayStatus, PaidStatus

\* A refund is a part of what it is computed from.
LEMMA PolicyBounds ==
    ASSUME NEW amount \in Nat
    PROVE  _apply_refund_policy(amount) \in Nat /\ _apply_refund_policy(amount) <= amount
<1>1. amount \div 2 \in Nat /\ amount \div 2 <= amount /\ amount \div 4 \in Nat /\ amount \div 4 <= amount
  OBVIOUS
<1>2. _apply_refund_policy(amount) \in {amount, amount \div 2, amount \div 4, 0}
  BY SettingsAssumption DEF _apply_refund_policy
<1>3. amount <= amount /\ 0 <= amount
  OBVIOUS
<1> QED
  BY <1>1, <1>2, <1>3

LEMMA RefundAmounts ==
    ASSUME NEW b \in Row
    PROVE  /\ online_paid_amount(b) \in Nat /\ online_paid_amount(b) <= b.paid_amount
           /\ calculate_refund_amount(b) \in Nat /\ calculate_refund_amount(b) <= online_paid_amount(b)
           /\ Less(b.paid_amount, calculate_refund_amount(b)) = b.paid_amount - calculate_refund_amount(b)
           /\ Less(b.paid_amount, calculate_refund_amount(b)) \in Nat
<1>1. b.paid_amount \in Nat /\ b.manual_payments \in Nat
  BY RowFields
<1>2. online_paid_amount(b) \in Nat /\ online_paid_amount(b) <= b.paid_amount
  BY <1>1 DEF online_paid_amount, manual_paid_amount, Less
<1>3. calculate_refund_amount(b) \in Nat /\ calculate_refund_amount(b) <= online_paid_amount(b)
  BY <1>2, PolicyBounds DEF calculate_refund_amount
<1> QED
  BY <1>1, <1>2, <1>3 DEF Less

\* What a return does to the bank's books.
LEMMA ReturnsBank ==
    ASSUME TypeOK, NEW amount, Returns(amount)
    PROVE  /\ bank' \in Bank /\ bank.state = "paid"
           /\ amount \in Nat \ {0} /\ amount <= bank.captured - bank.refunded
           /\ bank'.state = bank.state /\ bank'.captured = bank.captured
           /\ bank'.refunded = bank.refunded + amount /\ bank'.refunds = bank.refunds + 1
<1>1. bank.captured \in Nat /\ bank.refunded \in Nat /\ bank.refunds \in Nat /\ bank \in Bank
  BY BankFields DEF TypeOK
<1>2. bank.state = "paid" /\ amount \in 1 .. (bank.captured - bank.refunded)
  BY DEF Returns, Returnable
<1>3. amount \in Nat \ {0} /\ amount <= bank.captured - bank.refunded
  BY <1>1, <1>2
<1>4. bank' = [bank EXCEPT !.refunded = @ + amount, !.refunds = @ + 1]
  BY DEF Returns
<1>5. bank.refunded + amount \in Nat /\ bank.refunds + 1 \in Nat
  BY <1>1, <1>3
<1> QED
  BY <1>1, <1>2, <1>3, <1>4, <1>5 DEF Bank

LEMMA RaisesBank ==
    ASSUME TypeOK, NEW amount, RefundRaises(amount)
    PROVE  bank' = bank \/ Returns(amount)
BY DEF RefundRaises

\* What process_webhook may do to the row: leave it, book a payment, or a failure.
BooksPaid(new) ==
    /\ new \in Row
    /\ new.paid_amount \in {bank.captured, 0} /\ new.manual_payments = row.manual_payments
    /\ new.total_amount = row.total_amount /\ new.bog_order_id = row.bog_order_id
    /\ new.status \in {row.status, "confirmed"}
    /\ new.status # row.status => row.status = "pending"

LEMMA WebhookStep ==
    ASSUME TypeOK, NEW state, process_webhook(state)
    PROVE  \/ row' = row /\ bank' = bank
           \/ /\ ~NotAsked /\ state = "paid" /\ BooksPaid(row')
              /\ \/ /\ bank' = bank /\ row'.payment_status \in PaidStatus /\ row'.paid_amount = bank.captured
                 \/ /\ row.status = "cancelled" /\ Returns(bank.captured - bank.refunded)
                    /\ row'.payment_status = "refunded" => row'.paid_amount = 0
           \/ /\ ~NotAsked /\ state = "failed" /\ bank' = bank /\ row' \in Row
              /\ row'.payment_status = "failed" /\ row'.paid_amount = row.paid_amount
              /\ row'.manual_payments = row.manual_payments /\ row'.total_amount = row.total_amount
              /\ row'.bog_order_id = row.bog_order_id
              /\ row'.status \in {row.status, "cancelled"}
<1>1. row \in Row /\ bank.captured \in Nat
  BY BankFields DEF TypeOK
<1>2. CASE NotAsked
  BY <1>2 DEF process_webhook
<1>3. CASE ~NotAsked /\ state = "paid"
  <2>0. SettlePaid
    BY <1>3 DEF process_webhook
  <2> DEFINE paid == [row EXCEPT !.paid_amount = bank.captured,
                                 !.payment_status = PayStatus(bank.captured, row.total_amount),
                                 !.payment_metadata = NoMetadata]
  <2>1. PayStatus(bank.captured, row.total_amount) \in PaidStatus /\ NoMetadata \in Metadata
    BY PayStatusType DEF NoMetadata, Metadata
  <2>2. /\ paid \in Row /\ paid.paid_amount = bank.captured /\ paid.manual_payments = row.manual_payments
        /\ paid.total_amount = row.total_amount /\ paid.bog_order_id = row.bog_order_id
        /\ paid.status = row.status /\ paid.payment_status \in PaidStatus /\ paid.payment_metadata = NoMetadata
    BY <1>1, <2>1 DEF Row
  <2>3. CASE row.status = "cancelled"
    <3>1. \/ /\ Returns(bank.captured - bank.refunded)
             /\ row' = [paid EXCEPT !.payment_status = "refunded", !.paid_amount = 0,
                                    !.payment_metadata.refund = "requested"]
          \/ /\ RefundRaises(bank.captured - bank.refunded)
             /\ row' = [paid EXCEPT !.payment_metadata.refund = "manual_required"]
      BY <2>0, <2>3 DEF SettlePaid
    <3> HIDE DEF paid
    <3>2. CASE /\ Returns(bank.captured - bank.refunded)
               /\ row' = [paid EXCEPT !.payment_status = "refunded", !.paid_amount = 0,
                                      !.payment_metadata.refund = "requested"]
      <4>1. [paid.payment_metadata EXCEPT !.refund = "requested"] \in Metadata
        BY <2>1, <2>2 DEF Metadata
      <4>2. BooksPaid(row') /\ row'.paid_amount = 0
        BY <2>2, <3>2, <4>1 DEF BooksPaid, Row
      <4> QED
        BY <1>3, <2>3, <3>2, <4>2
    <3>3. CASE /\ RefundRaises(bank.captured - bank.refunded)
               /\ row' = [paid EXCEPT !.payment_metadata.refund = "manual_required"]
      <4>1. [paid.payment_metadata EXCEPT !.refund = "manual_required"] \in Metadata
        BY <2>1, <2>2 DEF Metadata
      <4>2. BooksPaid(row') /\ row'.paid_amount = bank.captured /\ row'.payment_status \in PaidStatus
        BY <2>2, <3>3, <4>1 DEF BooksPaid, Row
      <4>3. "refunded" \notin PaidStatus
        BY DEF PaidStatus
      <4> QED
        BY <1>3, <2>3, <3>3, <4>2, <4>3, RaisesBank
    <3> QED
      BY <3>1, <3>2, <3>3
  <2>4. CASE row.status # "cancelled"
    <3>1. row' = (IF row.status = "pending" /\ paid.payment_status \in AutoConfirm
                  THEN [paid EXCEPT !.status = "confirmed"] ELSE paid) /\ bank' = bank
      BY <2>0, <2>4 DEF SettlePaid
    <3> HIDE DEF paid
    <3>2. BooksPaid(row') /\ row'.paid_amount = bank.captured /\ row'.payment_status \in PaidStatus
      BY <2>2, <3>1 DEF BooksPaid, Row, Status
    <3> QED
      BY <1>3, <3>1, <3>2
  <2> QED
    BY <2>3, <2>4
<1>4. CASE ~NotAsked /\ state = "failed"
  <2>1. SettleFailed
    BY <1>4 DEF process_webhook
  <2>2. /\ bank' = bank
        /\ row' = [row EXCEPT !.payment_status = "failed",
                              !.status = IF row.status = "pending" THEN "cancelled" ELSE row.status]
    BY <2>1 DEF SettleFailed
  <2>3. (IF row.status = "pending" THEN "cancelled" ELSE row.status) \in Status
    BY <1>1, RowFields DEF Status, FINAL_BOOKING_STATUSES
  <2> QED
    BY <1>1, <1>4, <2>2, <2>3 DEF Row
<1>5. CASE ~NotAsked /\ state \notin {"paid", "failed"}
  BY <1>5 DEF process_webhook
<1> QED
  BY <1>2, <1>3, <1>4, <1>5

LEMMA GoesType ==
    ASSUME TypeOK, ObjHeld, NEW w \in Workers, NEW where \in Control, NEW b \in Row \cup {NoObj},
           where \in Reads => b \in Row, Goes(w, where, b)
    PROVE  pc' \in [Workers -> Control] /\ obj' \in [Workers -> Row \cup {NoObj}] /\ ObjHeld'
BY DEF TypeOK, ObjHeld, Goes

LEMMA EndsType ==
    ASSUME TypeOK, ObjHeld, NEW w \in Workers, Ends(w)
    PROVE  pc' \in [Workers -> Control] /\ obj' \in [Workers -> Row \cup {NoObj}] /\ ObjHeld'
<1>1. "idle" \in Control /\ "idle" \notin Reads
  BY DEF Control, Reads
<1> QED
  BY <1>1, GoesType DEF Ends

LEMMA StayType ==
    ASSUME TypeOK, ObjHeld, UNCHANGED <<pc, obj>>
    PROVE  pc' \in [Workers -> Control] /\ obj' \in [Workers -> Row \cup {NoObj}] /\ ObjHeld'
BY DEF TypeOK, ObjHeld

LEMMA WebhookType ==
    ASSUME TypeOK, NEW state, process_webhook(state)
    PROVE  row' \in Row /\ bank' \in Bank
BY WebhookStep, ReturnsBank DEF TypeOK, BooksPaid

LEMMA TypeStep ==
    ASSUME TypeOK, ObjHeld, [Next]_vars
    PROVE  TypeOK' /\ ObjHeld'
<1> DEFINE Typed == pc' \in [Workers -> Control] /\ obj' \in [Workers -> Row \cup {NoObj}] /\ ObjHeld'
           Goal == TypeOK' /\ ObjHeld'
<1>0. /\ row \in Row /\ bank \in Bank /\ told \in BOOLEAN /\ pc \in [Workers -> Control]
      /\ obj \in [Workers -> Row \cup {NoObj}]
  BY DEF TypeOK
<1>a. ASSUME Typed, row' \in Row, bank' \in Bank, told' \in BOOLEAN PROVE Goal
  BY <1>a DEF TypeOK
<1>b. \A w \in Worker : w \in Workers
  BY DEF Workers
<1>c. Sweeper \in Workers
  BY DEF Workers
<1>d. UNCHANGED <<pc, obj>> => Typed
  BY StayType
<1>e. \A w \in Workers : Ends(w) => Typed
  BY EndsType
<1>f. \A w \in Workers, where \in Control, b \in Row : Goes(w, where, b) => Typed
  BY GoesType
<1>g. NoMetadata \in Metadata
  BY DEF NoMetadata, Metadata
<1>h. \A s \in Status : [row EXCEPT !.status = s] \in Row
  BY <1>0 DEF Row
<1>i. \A m \in Metadata : [row EXCEPT !.payment_metadata = m] \in Row
  BY <1>0 DEF Row
<1>j. \A b \in Row : b.payment_metadata \in Metadata
  BY RowFields
<1>k. bank.captured \in Nat /\ bank.refunded \in Nat /\ bank.refunds \in Nat
  BY BankFields
<1>l. {"completed", "cancelled", "no_show", "confirmed", "in_progress"} \subseteq Status
  BY DEF Status, FINAL_BOOKING_STATUSES
<1> HIDE DEF Typed, Goal
<1>1. ASSUME BankProcessing \/ BankSettles PROVE Goal
  <2>1. bank' \in Bank
    BY <1>0, <1>1, ChargeType DEF BankProcessing, BankSettles, Bank
  <2> QED
    BY <1>0, <1>1, <1>a, <1>d, <2>1 DEF BankProcessing, BankSettles
<1>2. ASSUME NEW w \in Worker, OrderAtBank(w) PROVE Goal
  <2>1. bank' \in Bank
    BY <1>0, <1>2 DEF OrderAtBank, Bank
  <2>2. Typed
    <3>1. obj[w] \in Row \cup {NoObj} /\ "ordered" \in Control /\ "ordered" \notin Reads
      BY <1>0, <1>b DEF Control, Reads
    <3> QED
      BY <1>2, <1>b, <3>1, GoesType DEF OrderAtBank, Typed
  <2> QED
    BY <1>0, <1>2, <1>a, <2>1, <2>2 DEF OrderAtBank
<1>3. ASSUME NEW w \in Worker, SaveOrder(w) PROVE Goal
  <2>1. row' \in Row
    BY <1>0, <1>3, <1>g DEF SaveOrder, Row
  <2> QED
    BY <1>0, <1>3, <1>a, <1>b, <1>e, <2>1 DEF SaveOrder
<1>4. ASSUME NEW w \in Worker, OrderFails(w) PROVE Goal
  BY <1>0, <1>4, <1>a, <1>b, <1>e, <1>h, <1>l DEF OrderFails
<1>5. ASSUME NEW w \in Worker, Mail(w) PROVE Goal
  <2>1. obj[w] \in Row
    BY <1>5, <1>b DEF Mail, ObjHeld, Reads
  <2>2. [obj[w].payment_metadata EXCEPT !.created_email_sent = TRUE] \in Metadata
    BY <1>j, <2>1 DEF Metadata
  <2> QED
    BY <1>0, <1>5, <1>a, <1>b, <1>e, <1>i, <2>2 DEF Mail
<1>6. ASSUME NEW w \in Worker, RefundRead(w) PROVE Goal
  <2> DEFINE b == IF obj[w] = NoObj THEN row ELSE obj[w]
  <2>1. b \in Row
    BY <1>0, <1>b
  <2>2. Ends(w) \/ Goes(w, "refunding", b) \/ Goes(w, "flagging", b)
    BY <1>6 DEF RefundRead
  <2> HIDE DEF b
  <2>3. "refunding" \in Control /\ "flagging" \in Control
    BY DEF Control
  <2> QED
    BY <1>0, <1>6, <1>a, <1>b, <1>e, <1>f, <2>1, <2>2, <2>3 DEF RefundRead
<1>7. ASSUME NEW w \in Worker, RefundCall(w) PROVE Goal
  <2>1. obj[w] \in Row
    BY <1>7, <1>b DEF RefundCall, ObjHeld, Reads
  <2>2. bank' \in Bank
    <3>1. \E amount : Returns(amount) \/ RefundRaises(amount)
      BY <1>7 DEF RefundCall
    <3> QED
      BY <1>0, <3>1, ReturnsBank, RaisesBank
  <2>3. Goes(w, "refunded", obj[w]) \/ Goes(w, "refund_failed", obj[w])
    BY <1>7 DEF RefundCall
  <2>4. "refunded" \in Control /\ "refund_failed" \in Control
    BY DEF Control
  <2> QED
    BY <1>0, <1>7, <1>a, <1>b, <1>f, <2>1, <2>2, <2>3, <2>4 DEF RefundCall
<1>8. ASSUME NEW w \in Worker, RefundSave(w) PROVE Goal
  <2>1. obj[w] \in Row
    BY <1>8, <1>b DEF RefundSave, ObjHeld, Reads
  <2>2. /\ [obj[w].payment_metadata EXCEPT !.refund = "requested"] \in Metadata
        /\ [obj[w].payment_metadata EXCEPT !.refund = "manual_required"] \in Metadata
    BY <1>j, <2>1 DEF Metadata
  <2>3. Less(obj[w].paid_amount, calculate_refund_amount(obj[w])) \in Nat
    BY <2>1, RefundAmounts
  <2>4. row' \in Row
    BY <1>0, <1>8, <2>2, <2>3 DEF RefundSave, Row
  <2>5. "flagging" \in Control
    BY DEF Control
  <2> QED
    BY <1>0, <1>8, <1>a, <1>b, <1>f, <2>1, <2>4, <2>5 DEF RefundSave
<1>9. ASSUME NEW w \in Worker, FlagRead(w) PROVE Goal
  <2>1. "flagged" \in Control
    BY DEF Control
  <2> QED
    BY <1>0, <1>9, <1>a, <1>b, <1>e, <1>f, <2>1 DEF FlagRead
<1>10. ASSUME NEW w \in Worker, FlagSave(w) PROVE Goal
  <2>1. obj[w] \in Row
    BY <1>10, <1>b DEF FlagSave, ObjHeld, Reads
  <2>2. [obj[w].payment_metadata EXCEPT !.manual_refund = TRUE] \in Metadata
    BY <1>j, <2>1 DEF Metadata
  <2> QED
    BY <1>0, <1>10, <1>a, <1>b, <1>e, <1>i, <2>2 DEF FlagSave
<1>11. ASSUME NEW w \in Worker, StatusSave(w) PROVE Goal
  <2>1. \E s \in {"confirmed", "in_progress", "completed", "no_show"} : row' = [row EXCEPT !.status = s]
    BY <1>11 DEF StatusSave
  <2> QED
    BY <1>0, <1>11, <1>a, <1>b, <1>e, <1>h, <1>l, <2>1 DEF StatusSave
<1>12. ASSUME NEW w \in Worker, PatchSave(w) PROVE Goal
  <2>1. obj[w] \in Row
    BY <1>12, <1>b DEF PatchSave, ObjHeld, Reads
  <2>2. \A t \in Prices : [obj[w] EXCEPT !.total_amount = t] \in Row
    BY <2>1, AmountAssumption DEF Row
  <2>3. row' \in Row
    BY <1>12, <2>1, <2>2 DEF PatchSave
  <2>4. Ends(w) \/ Goes(w, "repricing", row')
    BY <1>12 DEF PatchSave
  <2>5. "repricing" \in Control
    BY DEF Control
  <2> QED
    BY <1>0, <1>12, <1>a, <1>b, <1>e, <1>f, <2>3, <2>4, <2>5 DEF PatchSave
<1>13. ASSUME NEW w \in Worker, RepriceSave(w) PROVE Goal
  <2>1. row' \in Row
    <3>1. PayStatus(obj[w].paid_amount, obj[w].total_amount) \in PaidStatus
      BY PayStatusType
    <3> QED
      BY <1>0, <1>13, <3>1 DEF RepriceSave, Row
  <2> QED
    BY <1>0, <1>13, <1>a, <1>b, <1>e, <2>1 DEF RepriceSave
<1>14. ASSUME NEW w \in Worker, Callback(w) PROVE Goal
  <2>1. row' \in Row /\ bank' \in Bank
    BY <1>14, WebhookType DEF Callback
  <2>2. Goes(w, "mailing", row') \/ UNCHANGED <<pc, obj>>
    BY <1>14 DEF Callback
  <2>3. told' \in BOOLEAN /\ "mailing" \in Control
    BY <1>0, <1>14 DEF Callback, Control
  <2> QED
    BY <1>a, <1>b, <1>d, <1>f, <2>1, <2>2, <2>3
<1>15. ASSUME NEW w \in Worker, PatchRead(w) PROVE Goal
  <2>1. "patch" \in Control
    BY DEF Control
  <2> QED
    BY <1>0, <1>15, <1>a, <1>b, <1>f, <2>1 DEF PatchRead
<1>16. ASSUME NEW w \in Worker, NEW op, CancelBooking(w, op) PROVE Goal
  <2>1. row' \in Row
    BY <1>16, <1>h, <1>l DEF CancelBooking
  <2>2. UNCHANGED <<pc, obj>> \/ Goes(w, "cancelled", row') \/ Goes(w, "cancelled", NoObj)
    BY <1>16 DEF CancelBooking
  <2>3. "cancelled" \in Control /\ "cancelled" \notin Reads
    BY DEF Control, Reads
  <2>4. Typed
    <3>1. CASE Goes(w, "cancelled", NoObj)
      BY <1>b, <2>3, <3>1, GoesType DEF Typed
    <3> QED
      BY <1>b, <1>d, <1>f, <2>1, <2>2, <2>3, <3>1
  <2> QED
    BY <1>0, <1>16, <1>a, <2>1, <2>4 DEF CancelBooking
<1>17. ASSUME NEW w \in Worker, NEW op \in StatusOps, StatusRead(w, op) PROVE Goal
  <2>1. op \in Control
    BY DEF StatusOps, Control
  <2> QED
    BY <1>0, <1>17, <1>a, <1>b, <1>f, <2>1 DEF StatusRead
<1>18. ASSUME NEW w \in Workers, Crash(w) PROVE Goal
  BY <1>0, <1>18, <1>a, <1>e DEF Crash
<1>19. ASSUME Poll PROVE Goal
  <2>1. row' \in Row /\ bank' \in Bank
    BY <1>19, WebhookType DEF Poll
  <2> QED
    BY <1>0, <1>19, <1>a, <1>d, <2>1 DEF Poll
<1>20. ASSUME SweepRead PROVE Goal
  <2>1. Goes(Sweeper, "sweeping", row) \/ Goes(Sweeper, "sweep_cancel", row)
    BY <1>20 DEF SweepRead
  <2>2. "sweeping" \in Control /\ "sweep_cancel" \in Control
    BY DEF Control
  <2> QED
    BY <1>0, <1>20, <1>a, <1>c, <1>f, <2>1, <2>2 DEF SweepRead
<1>21. ASSUME NEW state, SweepAsk(state) PROVE Goal
  <2>1. row' \in Row /\ bank' \in Bank
    BY <1>21, WebhookType DEF SweepAsk
  <2>2. Ends(Sweeper) \/ Goes(Sweeper, "sweep_cancel", row')
    BY <1>21 DEF SweepAsk
  <2>3. "sweep_cancel" \in Control
    BY DEF Control
  <2> QED
    BY <1>0, <1>21, <1>a, <1>c, <1>e, <1>f, <2>1, <2>2, <2>3 DEF SweepAsk
<1>22. ASSUME SweepCancel PROVE Goal
  BY <1>0, <1>22, <1>a, <1>c, <1>e, <1>h, <1>l DEF SweepCancel
<1>23. ASSUME RecordPayment PROVE Goal
  <2>1. PICK amount \in Recorded :
            row' = [row EXCEPT !.paid_amount = @ + amount, !.manual_payments = @ + amount,
                               !.payment_status = PayStatus(row.paid_amount + amount, row.total_amount)]
    BY <1>23 DEF RecordPayment
  <2>2. row.paid_amount + amount \in Nat /\ row.manual_payments + amount \in Nat
    BY <1>0, RowFields, AmountAssumption
  <2>3. PayStatus(row.paid_amount + amount, row.total_amount) \in PaidStatus
    BY PayStatusType
  <2>4. row' \in Row
    BY <1>0, <2>1, <2>2, <2>3 DEF Row
  <2> QED
    BY <1>0, <1>23, <1>a, <1>d, <2>4 DEF RecordPayment
<1>24. ASSUME CrashInWebhook PROVE Goal
  BY <1>0, <1>24, <1>a, <1>d, ReturnsBank DEF CrashInWebhook
<1>25. ASSUME UNCHANGED vars PROVE Goal
  BY <1>0, <1>25, <1>a, <1>d DEF vars
<1>26. ASSUME NEW w \in Worker, Progress(w) PROVE Goal
  BY <1>26, <1>2, <1>3, <1>4, <1>5, <1>6, <1>7, <1>8, <1>9, <1>10, <1>11, <1>12, <1>13
     DEF Progress, Order, Refund
<1>27. ASSUME Sweep PROVE Goal
  BY <1>27, <1>20, <1>21, <1>22 DEF Sweep
<1>28. Goal
  BY <1>1, <1>14, <1>15, <1>16, <1>17, <1>18, <1>19, <1>23, <1>24, <1>25, <1>26, <1>27 DEF Next
<1> QED
  BY <1>28 DEF Goal

LEMMA InitType ==
    ASSUME Init
    PROVE  TypeOK /\ ObjHeld
<1>1. NoMetadata \in Metadata
  BY DEF NoMetadata, Metadata
<1>2. row \in Row
  <2>1. "pending" \in Status /\ Total \in Nat
    BY AmountAssumption DEF Status
  <2> QED
    BY <1>1, <2>1 DEF Init, Row
<1>3. bank \in Bank
  BY DEF Init, Bank
<1>4. pc \in [Workers -> Control] /\ \A w \in Workers : pc[w] \notin Reads
  <2>1. \A w \in Workers : pc[w] \in {"ordering", "idle"}
    BY DEF Init
  <2>2. pc = [w \in Workers |-> pc[w]]
    BY DEF Init
  <2>3. {"ordering", "idle"} \subseteq Control \ Reads
    BY DEF Control, Reads
  <2> QED
    BY <2>1, <2>2, <2>3
<1>5. obj \in [Workers -> Row \cup {NoObj}]
  BY DEF Init
<1>6. told \in BOOLEAN
  BY DEF Init
<1> QED
  BY <1>2, <1>3, <1>4, <1>5, <1>6 DEF TypeOK, ObjHeld

\* The booking, the order at the bank and what every handler keeps in memory have their
\* columns in every state, whichever handlers run: each later step of a handler finds the
\* booking its earlier step read.
THEOREM TypeCorrect == Spec => []TypeOK
<1>1. Init => TypeOK /\ ObjHeld
  BY InitType
<1>2. TypeOK /\ ObjHeld /\ [Next]_vars => TypeOK' /\ ObjHeld'
  BY TypeStep
<1> QED
  BY <1>1, <1>2, PTL DEF Spec

----------------------------------------------------------------------------
(* What the steps do to the money *)

\* Places of a handler that has read no amount it will still act on.
Aside == Control \ {"ordering", "cancelled", "refunding", "refunded", "patch", "repricing"}

\* Only w moves, and it stays where it is or steps aside.
OneMoves(w) ==
    /\ \A v \in Workers \ {w} : pc'[v] = pc[v] /\ obj'[v] = obj[v]
    /\ (pc'[w] = pc[w] /\ obj'[w] = obj[w]) \/ pc'[w] \in Aside

SameAmounts ==
    /\ row'.paid_amount = row.paid_amount /\ row'.manual_payments = row.manual_payments
    /\ row'.total_amount = row.total_amount /\ row'.payment_status = row.payment_status

\* A step that moves no money and books none.
Calm == bank' = bank /\ SameAmounts /\ \E w \in Workers : OneMoves(w)

\* process_webhook acted on BOG's answer, for a callback, the customer's page or the sweeper.
Asks == (\E state \in Answers : process_webhook(state)) /\ \E w \in Workers : OneMoves(w)

\* The cancel that a refund may follow.
CancelGoes(w) ==
    /\ Ops \cap {"client_cancel", "admin_cancel"} # {}
    /\ row.status \notin FINAL_BOOKING_STATUSES
    /\ row' = [row EXCEPT !.status = "cancelled"] /\ bank' = bank
    /\ Goes(w, "cancelled", row') \/ Goes(w, "cancelled", NoObj)

RefundGoes(w) ==
    /\ pc[w] = "cancelled" /\ row' = row /\ bank' = bank
    /\ Goes(w, "refunding", IF obj[w] = NoObj THEN row ELSE obj[w])

RefundBooked(w) == pc[w] = "refunded" /\ RefundSave(w)

Kinds ==
    \/ Calm \/ BankProcessing \/ BankSettles \/ Asks \/ CrashInWebhook \/ RecordPayment
    \/ \E w \in Workers :
         \/ OrderAtBank(w) \/ CancelGoes(w) \/ RefundGoes(w) \/ RefundCall(w) \/ RefundBooked(w)
         \/ PatchRead(w) \/ PatchSave(w) \/ RepriceSave(w)

LEMMA GoesAside ==
    ASSUME TypeOK, NEW w \in Workers, NEW where \in Aside, NEW b, Goes(w, where, b)
    PROVE  OneMoves(w)
BY DEF TypeOK, Goes, OneMoves

LEMMA EndsAside ==
    ASSUME TypeOK, NEW w \in Workers, Ends(w)
    PROVE  OneMoves(w)
<1>1. "idle" \in Aside
  BY DEF Aside, Control
<1> QED
  BY <1>1, GoesAside DEF Ends

LEMMA StaysAside ==
    ASSUME UNCHANGED <<pc, obj>>, NEW w \in Workers
    PROVE  OneMoves(w)
BY DEF OneMoves

LEMMA SameRowAmounts ==
    ASSUME row \in Row,
           \/ row' = row
           \/ \E s : row' = [row EXCEPT !.status = s]
           \/ \E m : row' = [row EXCEPT !.payment_metadata = m]
           \/ \E m : row' = [row EXCEPT !.bog_order_id = TRUE, !.payment_metadata = m]
    PROVE  SameAmounts
BY DEF SameAmounts, Row

LEMMA KindsOfSteps ==
    ASSUME TypeOK, [Next]_vars
    PROVE  Kinds
<1>0. row \in Row
  BY DEF TypeOK
<1>b. \A w \in Worker : w \in Workers
  BY DEF Workers
<1>c. Sweeper \in Workers
  BY DEF Workers
<1> DEFINE Moves == \E w \in Workers : OneMoves(w)
<1>d. UNCHANGED <<pc, obj>> => Moves
  BY <1>c, StaysAside
<1>e. \A w \in Workers : Ends(w) => Moves
  BY EndsAside
<1>f. \A w \in Workers, where \in Aside : \A b : Goes(w, where, b) => Moves
  BY GoesAside
<1>g. {"mailing", "sweeping", "sweep_cancel", "refund_failed", "flagging", "flagged"} \cup StatusOps \subseteq Aside
  BY DEF Aside, Control, StatusOps
<1>h. ASSUME Moves, bank' = bank, SameAmounts PROVE Calm
  BY <1>h DEF Calm
<1> HIDE DEF Moves
<1>3. ASSUME NEW w \in Worker, SaveOrder(w) PROVE Calm
  BY <1>0, <1>3, <1>b, <1>e, <1>h, SameRowAmounts DEF SaveOrder
<1>4. ASSUME NEW w \in Worker, OrderFails(w) PROVE Calm
  BY <1>0, <1>4, <1>b, <1>e, <1>h, SameRowAmounts DEF OrderFails
<1>5. ASSUME NEW w \in Worker, Mail(w) PROVE Calm
  BY <1>0, <1>5, <1>b, <1>e, <1>h, SameRowAmounts DEF Mail
<1>6. ASSUME NEW w \in Worker, RefundRead(w) PROVE Calm \/ RefundGoes(w)
  <2> DEFINE b == IF obj[w] = NoObj THEN row ELSE obj[w]
  <2>1. row' = row /\ bank' = bank /\ pc[w] = "cancelled"
    BY <1>6 DEF RefundRead
  <2>2. Ends(w) \/ Goes(w, "refunding", b) \/ Goes(w, "flagging", b)
    BY <1>6 DEF RefundRead
  <2>3. CASE Goes(w, "refunding", b)
    BY <2>1, <2>3 DEF RefundGoes
  <2>4. CASE Ends(w) \/ Goes(w, "flagging", b)
    <3>1. Moves
      BY <1>b, <1>e, <1>f, <1>g, <2>4
    <3> QED
      BY <1>0, <1>h, <2>1, <3>1, SameRowAmounts
  <2> QED
    BY <2>2, <2>3, <2>4
<1>8. ASSUME NEW w \in Worker, RefundSave(w) PROVE Calm \/ RefundBooked(w)
  <2>1. CASE pc[w] = "refunded"
    BY <1>8, <2>1 DEF RefundBooked
  <2>2. CASE pc[w] # "refunded"
    <3>1. /\ row' = [row EXCEPT !.payment_metadata = [obj[w].payment_metadata EXCEPT !.refund = "manual_required"]]
          /\ Goes(w, "flagging", obj[w]) /\ bank' = bank
      BY <1>8, <2>2 DEF RefundSave
    <3>2. Moves
      BY <1>b, <1>f, <1>g, <3>1
    <3> QED
      BY <1>0, <1>h, <3>1, <3>2, SameRowAmounts
  <2> QED
    BY <2>1, <2>2
<1>9. ASSUME NEW w \in Worker, FlagRead(w) PROVE Calm
  <2>1. row' = row /\ bank' = bank /\ (Goes(w, "flagged", row) \/ Ends(w))
    BY <1>9 DEF FlagRead
  <2>2. Moves
    BY <1>b, <1>e, <1>f, <1>g, <2>1
  <2> QED
    BY <1>0, <1>h, <2>1, <2>2, SameRowAmounts
<1>10. ASSUME NEW w \in Worker, FlagSave(w) PROVE Calm
  BY <1>0, <1>10, <1>b, <1>e, <1>h, SameRowAmounts DEF FlagSave
<1>11. ASSUME NEW w \in Worker, StatusSave(w) PROVE Calm
  BY <1>0, <1>11, <1>b, <1>e, <1>h, SameRowAmounts DEF StatusSave
<1>12. ASSUME NEW w \in Worker, Callback(w) PROVE Asks
  <2>1. Goes(w, "mailing", row') \/ UNCHANGED <<pc, obj>>
    BY <1>12 DEF Callback
  <2>2. Moves
    BY <1>b, <1>d, <1>f, <1>g, <2>1
  <2> QED
    BY <1>12, <2>2 DEF Callback, Asks, Moves
<1>13. ASSUME NEW w \in Worker, NEW op \in {"client_cancel", "admin_cancel", "admin_cancel_no_refund"},
              CancelBooking(w, op)
       PROVE  Calm \/ CancelGoes(w)
  <2>1. row.status \notin FINAL_BOOKING_STATUSES /\ row' = [row EXCEPT !.status = "cancelled"] /\ bank' = bank /\ op \in Ops
    BY <1>13 DEF CancelBooking
  <2>2. CASE UNCHANGED <<pc, obj>>
    BY <1>0, <1>d, <1>h, <2>1, <2>2, SameRowAmounts
  <2>3. CASE ~UNCHANGED <<pc, obj>>
    <3>1. op # "admin_cancel_no_refund" /\ (Goes(w, "cancelled", row') \/ Goes(w, "cancelled", NoObj))
      BY <1>13, <2>3 DEF CancelBooking
    <3> QED
      BY <2>1, <3>1 DEF CancelGoes
  <2> QED
    BY <2>2, <2>3
<1>14. ASSUME NEW w \in Worker, NEW op \in StatusOps, StatusRead(w, op) PROVE Calm
  <2>1. Goes(w, op, row) /\ row' = row /\ bank' = bank
    BY <1>14 DEF StatusRead
  <2>2. Moves
    BY <1>b, <1>f, <1>g, <2>1
  <2> QED
    BY <1>0, <1>h, <2>1, <2>2, SameRowAmounts
<1>15. ASSUME NEW w \in Workers, Crash(w) PROVE Calm
  BY <1>0, <1>15, <1>e, <1>h, SameRowAmounts DEF Crash
<1>16. ASSUME Poll PROVE Asks
  BY <1>16, <1>d DEF Poll, Asks, Moves
<1>17. ASSUME SweepRead PROVE Calm
  <2>1. row' = row /\ bank' = bank /\ (Goes(Sweeper, "sweeping", row) \/ Goes(Sweeper, "sweep_cancel", row))
    BY <1>17 DEF SweepRead
  <2>2. Moves
    BY <1>c, <1>f, <1>g, <2>1
  <2> QED
    BY <1>0, <1>h, <2>1, <2>2, SameRowAmounts
<1>18. ASSUME NEW state \in Answers, SweepAsk(state) PROVE Asks
  <2>1. Ends(Sweeper) \/ Goes(Sweeper, "sweep_cancel", row')
    BY <1>18 DEF SweepAsk
  <2>2. Moves
    BY <1>c, <1>e, <1>f, <1>g, <2>1
  <2> QED
    BY <1>18, <2>2 DEF SweepAsk, Asks, Moves
<1>19. ASSUME SweepCancel PROVE Calm
  BY <1>0, <1>19, <1>c, <1>e, <1>h, SameRowAmounts DEF SweepCancel
<1>20. ASSUME UNCHANGED vars PROVE Calm
  BY <1>0, <1>20, <1>d, <1>h, SameRowAmounts DEF vars
<1>21. ASSUME NEW w \in Worker, Progress(w) PROVE Kinds
  BY <1>21, <1>3, <1>4, <1>5, <1>6, <1>8, <1>9, <1>10, <1>11, <1>b DEF Progress, Order, Refund, Kinds
<1>22. ASSUME Sweep PROVE Kinds
  BY <1>22, <1>17, <1>18, <1>19 DEF Sweep, Kinds
<1>23. ASSUME NEW w \in Worker, NEW op \in {"client_cancel", "admin_cancel", "admin_cancel_no_refund"},
              CancelBooking(w, op)
       PROVE  Kinds
  BY <1>13, <1>23, <1>b DEF Kinds
<1>24. ASSUME \E w \in Worker : PatchRead(w) PROVE Kinds
  BY <1>24, <1>b DEF Kinds
<1>25. (Calm \/ Asks \/ BankProcessing \/ BankSettles \/ CrashInWebhook \/ RecordPayment) => Kinds
  BY DEF Kinds
<1> QED
  BY <1>12, <1>14, <1>15, <1>16, <1>20, <1>21, <1>22, <1>23, <1>24, <1>25 DEF Next

----------------------------------------------------------------------------
(* A refund is asked for once *)

\* Without confirm, check_in and PATCH no handler is ever about to reopen the booking.
LEMMA NobodyReopensStep ==
    ASSUME TypeOK, NoReopening, NobodyReopens, [Next]_vars
    PROVE  NobodyReopens'
<1> DEFINE Safe == Control \ Reopening
<1>0. pc \in [Workers -> Control] /\ \A w \in Workers : pc[w] \notin Reopening
  BY DEF TypeOK, NobodyReopens
<1>a. ASSUME NEW w \in Workers, NEW where \in Safe, NEW b, Goes(w, where, b) PROVE NobodyReopens'
  BY <1>0, <1>a DEF Goes, NobodyReopens
<1>b. UNCHANGED pc => NobodyReopens'
  BY <1>0 DEF NobodyReopens
<1>c. {"idle", "ordered", "mailing", "sweeping", "sweep_cancel", "cancelled", "refunding", "refunded",
       "refund_failed", "flagging", "flagged", "complete", "no_show"} \subseteq Safe
  BY DEF Control, Reopening
<1>d. \A w \in Worker : w \in Workers /\ pc[w] \notin Reopening
  BY <1>0 DEF Workers
<1>e. Sweeper \in Workers
  BY DEF Workers
<1> HIDE DEF Safe
<1>1. ASSUME NEW w \in Worker, Progress(w) PROVE NobodyReopens'
  <2>1. ~PatchSave(w) /\ ~RepriceSave(w)
    BY <1>d DEF PatchSave, RepriceSave, Reopening
  <2>2. ASSUME Order(w) PROVE NobodyReopens'
    BY <2>2, <1>a, <1>c, <1>d DEF Order, OrderAtBank, SaveOrder, OrderFails, Ends
  <2>3. ASSUME RefundRead(w) PROVE NobodyReopens'
    <3>1. \E where \in {"idle", "refunding", "flagging"} : \E b : Goes(w, where, b)
      BY <2>3 DEF RefundRead, Ends
    <3> QED
      BY <3>1, <1>a, <1>c, <1>d
  <2>4. ASSUME RefundCall(w) PROVE NobodyReopens'
    <3>1. \E where \in {"refunded", "refund_failed"} : \E b : Goes(w, where, b)
      BY <2>4 DEF RefundCall
    <3> QED
      BY <3>1, <1>a, <1>c, <1>d
  <2>5. ASSUME RefundSave(w) \/ FlagRead(w) \/ FlagSave(w) PROVE NobodyReopens'
    <3>1. \E where \in {"idle", "flagging", "flagged"} : \E b : Goes(w, where, b)
      BY <2>5 DEF RefundSave, FlagRead, FlagSave, Ends
    <3> QED
      BY <3>1, <1>a, <1>c, <1>d
  <2>6. ASSUME Mail(w) \/ StatusSave(w) PROVE NobodyReopens'
    BY <2>6, <1>a, <1>c, <1>d DEF Mail, StatusSave, Ends
  <2> QED
    BY <1>1, <2>1, <2>2, <2>3, <2>4, <2>5, <2>6 DEF Progress, Refund
<1>2. ASSUME NEW w \in Worker, Callback(w) PROVE NobodyReopens'
  <2>1. Goes(w, "mailing", row') \/ UNCHANGED pc
    BY <1>2 DEF Callback
  <2> QED
    BY <2>1, <1>a, <1>b, <1>c, <1>d
<1>3. ASSUME NEW w \in Worker, PatchRead(w) PROVE NobodyReopens'
  BY <1>3 DEF PatchRead, NoReopening
<1>4. ASSUME NEW w \in Worker, NEW op, CancelBooking(w, op) PROVE NobodyReopens'
  <2>1. (\E b : Goes(w, "cancelled", b)) \/ UNCHANGED pc
    BY <1>4 DEF CancelBooking
  <2> QED
    BY <2>1, <1>a, <1>b, <1>c, <1>d
<1>5. ASSUME NEW w \in Worker, NEW op \in StatusOps, StatusRead(w, op) PROVE NobodyReopens'
  <2>1. op \in {"complete", "no_show"} /\ Goes(w, op, row)
    BY <1>5 DEF StatusRead, StatusOps, NoReopening
  <2> QED
    BY <2>1, <1>a, <1>c, <1>d
<1>6. ASSUME NEW w \in Workers, Crash(w) PROVE NobodyReopens'
  BY <1>6, <1>a, <1>c DEF Crash, Ends
<1>7. ASSUME Sweep PROVE NobodyReopens'
  <2>1. \E where \in {"idle", "sweeping", "sweep_cancel"} : \E b : Goes(Sweeper, where, b)
    <3>1. ASSUME SweepRead PROVE \E where \in {"sweeping", "sweep_cancel"} : \E b : Goes(Sweeper, where, b)
      BY <3>1 DEF SweepRead
    <3>2. ASSUME NEW state, SweepAsk(state) PROVE \E where \in {"idle", "sweep_cancel"} : \E b : Goes(Sweeper, where, b)
      BY <3>2 DEF SweepAsk, Ends
    <3>3. ASSUME SweepCancel PROVE \E b : Goes(Sweeper, "idle", b)
      BY <3>3 DEF SweepCancel, Ends
    <3> QED
      BY <1>7, <3>1, <3>2, <3>3 DEF Sweep
  <2> QED
    BY <2>1, <1>a, <1>c, <1>e
<1>8. ASSUME BankProcessing \/ BankSettles \/ Poll \/ RecordPayment \/ CrashInWebhook \/ UNCHANGED vars
      PROVE  NobodyReopens'
  BY <1>8, <1>b DEF BankProcessing, BankSettles, Poll, RecordPayment, CrashInWebhook, vars
<1> QED
  BY <1>1, <1>2, <1>3, <1>4, <1>5, <1>6, <1>7, <1>8 DEF Next

\* A booking that ended stays ended: every other handler looks at the status under the
\* lock, or saves a final one.
LEMMA EndedForGood ==
    ASSUME TypeOK, NobodyReopens, [Next]_vars, row.status \in FINAL_BOOKING_STATUSES
    PROVE  row'.status \in FINAL_BOOKING_STATUSES
<1> DEFINE Goal == row'.status \in FINAL_BOOKING_STATUSES
<1>0. row \in Row /\ \A w \in Worker : pc[w] \notin Reopening
  BY DEF TypeOK, NobodyReopens, Workers
<1>a. row' = row => Goal
  OBVIOUS
<1>b. \A m : row' = [row EXCEPT !.payment_metadata = m] => Goal
  BY <1>0 DEF Row
<1>c. \A s \in FINAL_BOOKING_STATUSES : row' = [row EXCEPT !.status = s] => Goal
  BY <1>0 DEF Row
<1>d. \A state : process_webhook(state) => Goal
  <2>1. row.status # "pending" /\ "cancelled" \in FINAL_BOOKING_STATUSES
    BY DEF FINAL_BOOKING_STATUSES
  <2>2. ASSUME NEW state, process_webhook(state) PROVE Goal
    BY <2>1, <2>2, WebhookStep DEF BooksPaid
  <2> QED
    BY <2>2
<1>e. {"cancelled", "completed", "no_show"} \subseteq FINAL_BOOKING_STATUSES
  BY DEF FINAL_BOOKING_STATUSES
<1>f. ASSUME NEW w \in Worker, Progress(w) PROVE Goal
  <2>1. ~PatchSave(w) /\ ~RepriceSave(w)
    BY <1>0 DEF PatchSave, RepriceSave, Reopening
  <2>2. ASSUME OrderAtBank(w) \/ RefundRead(w) \/ RefundCall(w) \/ FlagRead(w) PROVE Goal
    BY <2>2, <1>a DEF OrderAtBank, RefundRead, RefundCall, FlagRead
  <2>3. ASSUME SaveOrder(w) PROVE Goal
    BY <2>3, <1>0 DEF SaveOrder, Row
  <2>4. ASSUME OrderFails(w) PROVE Goal
    BY <2>4, <1>c, <1>e DEF OrderFails
  <2>5. ASSUME Mail(w) \/ FlagSave(w) PROVE Goal
    BY <2>5, <1>b DEF Mail, FlagSave
  <2>6. ASSUME RefundSave(w) PROVE Goal
    BY <2>6, <1>0 DEF RefundSave, Row
  <2>7. ASSUME StatusSave(w) PROVE Goal
    <3>1. \E s \in {"completed", "no_show"} : row' = [row EXCEPT !.status = s]
      BY <2>7, <1>0 DEF StatusSave, Reopening
    <3> QED
      BY <3>1, <1>c, <1>e
  <2> QED
    BY <1>f, <2>1, <2>2, <2>3, <2>4, <2>5, <2>6, <2>7 DEF Progress, Order, Refund
<1>g. ASSUME Sweep PROVE Goal
  <2>1. ASSUME SweepRead PROVE Goal
    BY <2>1, <1>a DEF SweepRead
  <2>2. ASSUME NEW state, SweepAsk(state) PROVE Goal
    BY <2>2, <1>d DEF SweepAsk
  <2>3. ASSUME SweepCancel PROVE Goal
    BY <2>3, <1>c, <1>e DEF SweepCancel
  <2> QED
    BY <1>g, <2>1, <2>2, <2>3 DEF Sweep
<1>h. ASSUME RecordPayment PROVE Goal
  BY <1>h, <1>0 DEF RecordPayment, Row
<1>i. ASSUME NEW w \in Worker, Callback(w) \/ Poll PROVE Goal
  BY <1>i, <1>d DEF Callback, Poll
<1>j. ASSUME NEW w \in Workers, NEW op, PatchRead(w) \/ StatusRead(w, op) \/ Crash(w) PROVE Goal
  BY <1>j, <1>a DEF PatchRead, StatusRead, Crash
<1>k. ASSUME NEW w \in Worker, NEW op, CancelBooking(w, op) PROVE Goal
  BY <1>k DEF CancelBooking
<1>l. ASSUME BankProcessing \/ BankSettles \/ CrashInWebhook \/ UNCHANGED vars PROVE Goal
  BY <1>l, <1>a DEF BankProcessing, BankSettles, CrashInWebhook, vars
<1>m. Worker \subseteq Workers /\ Worker # {}
  BY WorkerAssumption DEF Workers
<1> HIDE DEF Goal
<1>n. Goal
  BY <1>f, <1>g, <1>h, <1>i, <1>j, <1>k, <1>l, <1>m DEF Next
<1> QED
  BY <1>n DEF Goal


\* A step after which no further handler may ask for a refund, and after which money that
\* is left at the bank was left there before.
LEMMA RefundFrame ==
    ASSUME RefundInv, TypeOK', ObjHeld', NobodyReopens', BankBooks', OrderFirst', RefundOnce',
           row.status \in FINAL_BOOKING_STATUSES => row'.status \in FINAL_BOOKING_STATUSES,
           \A v \in Workers : pc'[v] \in Asking => pc[v] \in Asking,
           bank'.refunds > 0 /\ bank'.refunded # bank'.captured
               => bank.refunds > 0 /\ bank.refunded # bank.captured
    PROVE  RefundInv'
<1>1. RefunderAlone'
  BY DEF RefundInv, RefunderAlone
<1>2. NothingLeft'
  BY DEF RefundInv, NothingLeft
<1> QED
  BY <1>1, <1>2 DEF RefundInv

LEMMA MovesAside ==
    ASSUME NEW w \in Workers, OneMoves(w), NEW v \in Workers
    PROVE  /\ pc'[v] \in Asking => pc[v] \in Asking
           /\ pc'[v] = "ordering" => pc[v] = "ordering"
BY DEF OneMoves, Aside, Asking

\* A refund needs money the bank has left, and leaves none when it asks for all of it.
LEMMA ReturnBooks ==
    ASSUME TypeOK, BankBooks, NEW amount, Returns(amount)
    PROVE  /\ BankBooks' /\ bank.refunded < bank.captured
           /\ amount = bank.captured - bank.refunded => bank'.refunded = bank'.captured
<1>1. bank.captured \in Nat /\ bank.refunded \in Nat /\ bank.refunds \in Nat
  BY BankFields
<1> QED
  BY <1>1, ReturnsBank DEF BankBooks

\* A webhook that acts on "paid" was told so by BOG before any refund.
LEMMA PaidReceipt ==
    ASSUME TypeOK, "paid" \in Answers
    PROVE  bank.refunds = 0 /\ bank.state = "paid"
<1>1. Receipt = "paid"
  BY DEF Answers
<1> QED
  BY <1>1, BankFields DEF Receipt

\* What a webhook may do to the bank: nothing, or the first refund, of all there is.
LEMMA AsksBank ==
    ASSUME TypeOK, BankBooks, NEW state \in Answers, process_webhook(state)
    PROVE  \/ bank' = bank
           \/ bank.refunds = 0 /\ bank.state = "paid" /\ Returns(bank.captured - bank.refunded)
BY WebhookStep, PaidReceipt

LEMMA RefundStep ==
    ASSUME NoReopening, RefundInv, [Next]_vars
    PROVE  RefundInv'
<1>0. TypeOK' /\ ObjHeld' /\ NobodyReopens'
  BY TypeStep, NobodyReopensStep DEF RefundInv
<1>1. row.status \in FINAL_BOOKING_STATUSES => row'.status \in FINAL_BOOKING_STATUSES
  BY EndedForGood DEF RefundInv
<1>2. TypeOK /\ BankBooks /\ OrderFirst /\ RefundOnce /\ NobodyReopens
  BY DEF RefundInv
<1>3. bank.captured \in Nat /\ bank.refunded \in Nat /\ bank.refunds \in Nat /\ bank \in Bank
  BY <1>2, BankFields DEF TypeOK
<1>4. pc \in [Workers -> Control]
  BY <1>2 DEF TypeOK
<1>5. ASSUME bank' = bank, \A v \in Workers : (pc'[v] \in Asking => pc[v] \in Asking) /\ (pc'[v] = "ordering" => pc[v] = "ordering")
      PROVE  RefundInv'
  <2>1. BankBooks' /\ OrderFirst' /\ RefundOnce'
    BY <1>2, <1>5 DEF BankBooks, OrderFirst, RefundOnce
  <2> QED
    BY <1>0, <1>1, <1>5, <2>1, RefundFrame
<1>6. ASSUME Calm PROVE RefundInv'
  BY <1>5, <1>6, MovesAside DEF Calm
<1>7. ASSUME BankProcessing \/ BankSettles PROVE RefundInv'
  <2>1. pc' = pc /\ bank.state \in {"pending", "processing"}
    BY <1>7 DEF BankProcessing, BankSettles
  <2>2. bank.captured = 0 /\ bank.refunds = 0 /\ bank.refunded = 0
    BY <1>2, <1>3, <2>1 DEF BankBooks
  <2>3. bank'.refunds = 0 /\ bank'.refunded = 0 /\ bank'.captured \in Nat
        /\ (bank'.state # "paid" => bank'.captured = 0)
    BY <1>3, <1>7, <2>2, ChargeType DEF BankProcessing, BankSettles, Bank
  <2>4. BankBooks' /\ OrderFirst' /\ RefundOnce'
    BY <1>2, <2>1, <2>3 DEF BankBooks, OrderFirst, RefundOnce
  <2> QED
    BY <1>0, <1>1, <2>1, <2>3, <2>4, RefundFrame
<1>8. ASSUME bank.refunds = 0, bank.state = "paid", Returns(bank.captured - bank.refunded),
             \A v \in Workers : (pc'[v] \in Asking => pc[v] \in Asking) /\ (pc'[v] = "ordering" => pc[v] = "ordering")
      PROVE  RefundInv'
  <2>1. BankBooks' /\ bank'.refunded = bank'.captured /\ bank'.refunds = 1
    BY <1>2, <1>3, <1>8, ReturnBooks, ReturnsBank
  <2>2. OrderFirst' /\ RefundOnce'
    BY <1>2, <1>8, <2>1 DEF OrderFirst, RefundOnce
  <2> QED
    BY <1>0, <1>1, <1>8, <2>1, <2>2, RefundFrame
<1>9. ASSUME Asks PROVE RefundInv'
  <2>1. PICK state \in Answers : process_webhook(state)
    BY <1>9 DEF Asks
  <2>2. PICK w \in Workers : OneMoves(w)
    BY <1>9 DEF Asks
  <2> QED
    BY <1>2, <1>5, <1>8, <2>1, <2>2, AsksBank, MovesAside
<1>10. ASSUME CrashInWebhook PROVE RefundInv'
  <2>1. bank.refunds = 0 /\ bank.state = "paid" /\ pc' = pc /\ Returns(bank.captured - bank.refunded)
    BY <1>3, <1>10 DEF CrashInWebhook, Receipt
  <2> QED
    BY <1>8, <2>1
<1>11. ASSUME RecordPayment PROVE RefundInv'
  BY <1>5, <1>11 DEF RecordPayment
<1>12. ASSUME NEW w \in Workers, OrderAtBank(w) PROVE RefundInv'
  <2>1. w = Creator /\ bank.state = "none" /\ pc' = [pc EXCEPT ![w] = "ordered"]
    BY <1>2, <1>12 DEF OrderAtBank, OrderFirst, Goes
  <2>2. bank.captured = 0 /\ bank.refunds = 0 /\ bank.refunded = 0
    BY <1>2, <1>3, <2>1 DEF BankBooks
  <2>3. bank'.captured = 0 /\ bank'.refunds = 0 /\ bank'.refunded = 0
    BY <1>3, <1>12, <2>2 DEF OrderAtBank, Bank
  <2>4. \A v \in Workers : pc'[v] # "ordering" /\ (pc'[v] \in Asking => pc[v] \in Asking)
    BY <1>2, <1>4, <2>1 DEF OrderFirst, Asking
  <2>5. BankBooks' /\ OrderFirst' /\ RefundOnce'
    BY <2>3, <2>4 DEF BankBooks, OrderFirst, RefundOnce
  <2> QED
    BY <1>0, <1>1, <2>3, <2>4, <2>5, RefundFrame
<1>13. ASSUME NEW w \in Workers, CancelGoes(w) PROVE RefundInv'
  <2>1. /\ row.status \notin FINAL_BOOKING_STATUSES /\ row'.status \in FINAL_BOOKING_STATUSES /\ bank' = bank
        /\ pc' = [pc EXCEPT ![w] = "cancelled"]
    BY <1>2, <1>13 DEF CancelGoes, Goes, TypeOK, Row, FINAL_BOOKING_STATUSES
  <2>2. \A v \in Workers : pc[v] \notin Asking
    BY <2>1 DEF RefundInv, RefunderAlone
  <2>3. \A v \in Workers : (pc'[v] \in Asking => v = w) /\ (pc'[v] = "ordering" => pc[v] = "ordering")
    BY <1>4, <2>1, <2>2
  <2>4. RefunderAlone'
    BY <2>1, <2>3 DEF RefunderAlone
  <2>5. NothingLeft' /\ BankBooks' /\ OrderFirst' /\ RefundOnce'
    BY <1>2, <2>1, <2>3 DEF RefundInv, NothingLeft, BankBooks, OrderFirst, RefundOnce
  <2> QED
    BY <1>0, <2>4, <2>5 DEF RefundInv
<1>14. ASSUME NEW w \in Workers, RefundGoes(w) PROVE RefundInv'
  BY <1>4, <1>5, <1>14 DEF RefundGoes, Goes, Asking
<1>15. ASSUME NEW w \in Workers, RefundCall(w) PROVE RefundInv'
  <2>1. /\ pc[w] = "refunding" /\ row' = row
        /\ pc' = [pc EXCEPT ![w] = "refunded"] \/ pc' = [pc EXCEPT ![w] = "refund_failed"]
    BY <1>15 DEF RefundCall, Goes
  <2>2. bank' = bank \/ \E amount : Returns(amount)
    BY <1>2, <1>15, RaisesBank DEF RefundCall
  <2>3. /\ \A v \in Workers : v # w => pc[v] \notin Asking
        /\ pc[w] \in Asking /\ row.status \in FINAL_BOOKING_STATUSES
    BY <2>1 DEF RefundInv, RefunderAlone, Asking
  <2>4. \A v \in Workers : pc'[v] \notin Asking /\ (pc'[v] = "ordering" => pc[v] = "ordering")
    BY <1>4, <2>1, <2>3 DEF Asking
  <2>5. CASE bank' = bank
    BY <1>5, <2>4, <2>5
  <2>6. ASSUME NEW amount, Returns(amount) PROVE RefundInv'
    <3>1. BankBooks' /\ bank.refunded < bank.captured
      BY <1>2, <2>6, ReturnBooks
    <3>2. bank.refunds = 0
      BY <1>3, <2>3, <3>1 DEF RefundInv, NothingLeft
    <3>3. bank'.refunds = 1 /\ bank'.state = bank.state
      BY <1>2, <2>6, <3>2, ReturnsBank
    <3>4. OrderFirst' /\ RefundOnce'
      BY <1>2, <2>4, <3>3 DEF OrderFirst, RefundOnce
    <3>5. RefunderAlone' /\ NothingLeft'
      BY <2>1, <2>3, <2>4 DEF RefunderAlone, NothingLeft
    <3> QED
      BY <1>0, <3>1, <3>4, <3>5 DEF RefundInv
  <2> QED
    BY <2>2, <2>5, <2>6
<1>16. ASSUME NEW w \in Workers, RefundBooked(w) PROVE RefundInv'
  <2>1. bank' = bank /\ pc' = [pc EXCEPT ![w] = "flagging"]
    BY <1>16 DEF RefundBooked, RefundSave, Goes
  <2> QED
    BY <1>4, <1>5, <2>1 DEF Asking
<1>17. ASSUME NEW w \in Workers, PatchRead(w) \/ PatchSave(w) \/ RepriceSave(w) PROVE RefundInv'
  BY <1>2, <1>17 DEF PatchRead, PatchSave, RepriceSave, NoReopening, NobodyReopens, Reopening
<1>18. Kinds
  BY <1>2, KindsOfSteps
<1> QED
  BY <1>6, <1>7, <1>9, <1>10, <1>11, <1>12, <1>13, <1>14, <1>15, <1>16, <1>17, <1>18 DEF Kinds

LEMMA RefundInit ==
    ASSUME Init
    PROVE  RefundInv
<1>1. TypeOK /\ ObjHeld
  BY InitType
<1>2. \A w \in Workers : pc[w] \notin Asking \cup Reopening /\ (pc[w] = "ordering" => w = Creator)
  BY DEF Init, Asking, Reopening
<1>3. bank.captured = 0 /\ bank.refunds = 0 /\ bank.refunded = 0 /\ bank.state = "none"
  BY DEF Init
<1> QED
  BY <1>1, <1>2, <1>3 DEF RefundInv, NobodyReopens, OrderFirst, BankBooks, RefunderAlone, NothingLeft, RefundOnce

LEMMA RefundInvHolds == NoReopening => (Spec => []RefundInv)
<1> SUFFICES ASSUME NoReopening PROVE Spec => []RefundInv
  OBVIOUS
<1>1. Init => RefundInv
  BY RefundInit
<1>2. RefundInv /\ [Next]_vars => RefundInv'
  BY RefundStep
<1> QED
  BY <1>1, <1>2, PTL DEF Spec

\* However the cancels, the late, repeated and crashing callbacks, the sweeper and the
\* refund whose answer came too late interleave, the bank is asked to return money of a
\* booking at most once, for every refund policy and every price: as long as no handler
\* saves a status over the cancelled one (confirm, check_in) or the whole row (PATCH).
THEOREM RefundedOnce == NoReopening => (Spec => []RefundOnce)
<1>1. RefundInv => RefundOnce
  BY DEF RefundInv
<1>2. NoReopening => (Spec => []RefundInv)
  BY RefundInvHolds
<1> QED
  BY <1>1, <1>2, PTL

----------------------------------------------------------------------------
(* Money the row shows is backed *)

\* The amounts and the memory of a refund, when the bank's books do not change.
LEMMA BooksFrame ==
    ASSUME BooksInv, TypeOK', RefundInv', row.manual_payments <= row'.manual_payments,
           bank'.captured - bank'.refunded >= bank.captured - bank.refunded,
           bank'.captured >= bank.captured, bank'.refunds = bank.refunds,
           \A v \in Workers : \/ pc'[v] = pc[v] /\ obj'[v] = obj[v]
                              \/ pc'[v] \in Aside \cup {"ordered"}
    PROVE  ObjBacked' /\ LeftBacked'
<1>0. /\ bank.captured \in Nat /\ bank.refunded \in Nat /\ bank.refunds \in Nat
      /\ row.manual_payments \in Nat /\ obj \in [Workers -> Row \cup {NoObj}]
      /\ \A w \in Workers : pc[w] \in Reads => obj[w] \in Row
  BY BankFields, RowFields DEF BooksInv, RefundInv, TypeOK, ObjHeld
<1>1. bank'.captured \in Nat /\ bank'.refunded \in Nat /\ row'.manual_payments \in Nat
  BY DEF TypeOK, Bank, Row
<1>2. ObjBacked'
  <2> SUFFICES ASSUME NEW w \in Workers, (pc'[w] = "refunding" \/ (pc'[w] = "cancelled" /\ obj'[w] # NoObj))
               PROVE  /\ obj'[w].manual_payments <= row'.manual_payments
                      /\ bank'.refunds = 0 => obj'[w].paid_amount <= obj'[w].manual_payments + bank'.captured
    BY DEF ObjBacked
  <2>1. pc'[w] = pc[w] /\ obj'[w] = obj[w]
    BY DEF Aside
  <2>2. obj[w] \in Row
    BY <1>0, <2>1 DEF Reads
  <2>3. /\ obj[w].manual_payments <= row.manual_payments
        /\ bank.refunds = 0 => obj[w].paid_amount <= obj[w].manual_payments + bank.captured
    BY <2>1 DEF BooksInv, ObjBacked
  <2>4. obj[w].manual_payments \in Nat /\ obj[w].paid_amount \in Nat
    BY <2>2, RowFields
  <2> QED
    BY <1>0, <1>1, <2>1, <2>3, <2>4
<1>3. LeftBacked'
  <2> SUFFICES ASSUME NEW w \in Workers, pc'[w] = "refunded"
               PROVE  /\ bank'.refunds > 0
                      /\ Less(obj'[w].paid_amount, calculate_refund_amount(obj'[w]))
                           <= row'.manual_payments + (bank'.captured - bank'.refunded)
    BY DEF LeftBacked, calculate_refund_amount, online_paid_amount, manual_paid_amount
  <2>1. pc'[w] = pc[w] /\ obj'[w] = obj[w]
    BY DEF Aside
  <2>2. obj[w] \in Row
    BY <1>0, <2>1 DEF Reads
  <2> DEFINE left == Less(obj[w].paid_amount, calculate_refund_amount(obj[w]))
  <2>3. left \in Nat
    BY <2>2, RefundAmounts
  <2>4. bank.refunds > 0 /\ left <= row.manual_payments + (bank.captured - bank.refunded)
    BY <2>1 DEF BooksInv, LeftBacked
  <2>5. Less(obj'[w].paid_amount, calculate_refund_amount(obj'[w])) = left
    BY <2>1
  <2> HIDE DEF left
  <2>6. left <= row'.manual_payments + (bank'.captured - bank'.refunded)
    BY <1>0, <1>1, <2>3, <2>4
  <2> QED
    BY <2>4, <2>5, <2>6
<1> QED
  BY <1>2, <1>3

LEMMA MovesApart ==
    ASSUME NEW w \in Workers, OneMoves(w), NEW v \in Workers
    PROVE  (pc'[v] = pc[v] /\ obj'[v] = obj[v]) \/ pc'[v] \in Aside \cup {"ordered"}
BY DEF OneMoves

\* When the first refund takes everything, nobody was about to save one.
LEMMA FirstRefund ==
    ASSUME BooksInv, TypeOK', RefundInv', bank.refunds = 0, bank'.refunds > 0,
           row'.manual_payments = row.manual_payments,
           \A v \in Workers : \/ pc'[v] = pc[v] /\ obj'[v] = obj[v]
                              \/ pc'[v] \in Aside \cup {"ordered"}
    PROVE  ObjBacked' /\ LeftBacked'
<1>1. \A w \in Workers : pc[w] # "refunded"
  BY DEF BooksInv, LeftBacked
<1>2. \A w \in Workers : pc'[w] # "refunded"
  BY <1>1 DEF Aside
<1>3. LeftBacked'
  BY <1>2 DEF LeftBacked
<1>4. ObjBacked'
  BY DEF BooksInv, ObjBacked, Aside
<1> QED
  BY <1>3, <1>4

LEMMA BooksStep ==
    ASSUME NoReopening, BooksInv, [Next]_vars
    PROVE  BooksInv'
<1>0. RefundInv' /\ TypeOK'
  <2>1. RefundInv'
    BY RefundStep DEF BooksInv
  <2> QED
    BY <2>1 DEF RefundInv
<1>1. TypeOK /\ BankBooks /\ RefundOnce /\ NobodyReopens /\ ObjHeld /\ RefundInv
  BY DEF BooksInv, RefundInv
<1>2. bank.captured \in Nat /\ bank.refunded \in Nat /\ bank.refunds \in Nat /\ bank \in Bank
  BY <1>1, BankFields DEF TypeOK
<1>3. pc \in [Workers -> Control] /\ obj \in [Workers -> Row \cup {NoObj}] /\ row \in Row
  BY <1>1 DEF TypeOK
<1>4. row.paid_amount \in Nat /\ row.manual_payments \in Nat
  BY <1>3, RowFields
<1>5. ASSUME ObjBacked', LeftBacked', RefundMarked', BooksBacked' PROVE BooksInv'
  BY <1>0, <1>5 DEF BooksInv
<1>6. RefundMarked /\ BooksBacked /\ ObjBacked /\ LeftBacked
  BY DEF BooksInv
<1>7. ASSUME bank' = bank, SameAmounts PROVE RefundMarked' /\ BooksBacked'
  BY <1>6, <1>7 DEF SameAmounts, RefundMarked, BooksBacked
<1>8. ASSUME Calm PROVE BooksInv'
  <2>1. PICK w \in Workers : OneMoves(w)
    BY <1>8 DEF Calm
  <2>2. bank' = bank /\ row'.manual_payments = row.manual_payments
    BY <1>8 DEF Calm, SameAmounts
  <2>3. ObjBacked' /\ LeftBacked'
    BY <1>0, <1>2, <1>4, <2>1, <2>2, MovesApart, BooksFrame
  <2> QED
    BY <1>5, <1>7, <1>8, <2>3 DEF Calm
<1>9. ASSUME row' = row, bank'.refunded = bank.refunded, bank'.refunds = bank.refunds,
             bank'.captured >= bank.captured, bank'.captured \in Nat,
             \A v \in Workers : \/ pc'[v] = pc[v] /\ obj'[v] = obj[v]
                                \/ pc'[v] \in Aside \cup {"ordered"}
      PROVE  BooksInv'
  <2>1. ObjBacked' /\ LeftBacked'
    BY <1>0, <1>2, <1>4, <1>9, BooksFrame
  <2>2. RefundMarked' /\ BooksBacked'
    BY <1>2, <1>4, <1>6, <1>9 DEF RefundMarked, BooksBacked
  <2> QED
    BY <1>5, <2>1, <2>2
<1>10. ASSUME BankProcessing \/ BankSettles PROVE BooksInv'
  <2>1. bank.captured = 0
    BY <1>1, <1>10 DEF BankBooks, BankProcessing, BankSettles
  <2>2. /\ row' = row /\ bank'.refunded = bank.refunded /\ bank'.refunds = bank.refunds
        /\ pc' = pc /\ obj' = obj /\ bank'.captured \in Nat
    BY <1>2, <1>10, ChargeType DEF BankProcessing, BankSettles, Bank
  <2> QED
    BY <1>9, <2>1, <2>2
<1>11. ASSUME NEW w \in Workers, OrderAtBank(w) PROVE BooksInv'
  <2>1. /\ row' = row /\ bank'.refunded = bank.refunded /\ bank'.refunds = bank.refunds
        /\ bank'.captured = bank.captured
    BY <1>2, <1>11 DEF OrderAtBank, Bank
  <2>2. \A v \in Workers : \/ pc'[v] = pc[v] /\ obj'[v] = obj[v]
                           \/ pc'[v] \in Aside \cup {"ordered"}
    BY <1>3, <1>11 DEF OrderAtBank, Goes
  <2> QED
    BY <1>2, <1>9, <2>1, <2>2
<1>12. ASSUME Asks PROVE BooksInv'
  <2>1. PICK state \in Answers : process_webhook(state)
    BY <1>12 DEF Asks
  <2>2. PICK w \in Workers : OneMoves(w)
    BY <1>12 DEF Asks
  <2>3. \A v \in Workers : (pc'[v] = pc[v] /\ obj'[v] = obj[v]) \/ pc'[v] \in Aside \cup {"ordered"}
    BY <2>2, MovesApart
  <2>4. "refunded" \notin PaidStatus
    BY DEF PaidStatus
  <2>5. CASE row' = row /\ bank' = bank
    BY <1>8, <2>2, <2>5 DEF Calm, SameAmounts
  <2>6. ASSUME state = "paid", BooksPaid(row'), bank' = bank, row'.payment_status \in PaidStatus,
               row'.paid_amount = bank.captured
        PROVE  BooksInv'
    <3>1. bank.refunds = 0 /\ bank.refunded = 0
      BY <1>1, <2>6, PaidReceipt DEF BankBooks
    <3>2. ObjBacked' /\ LeftBacked'
      BY <1>0, <1>2, <1>4, <2>3, <2>6, BooksFrame DEF BooksPaid
    <3>3. RefundMarked' /\ BooksBacked'
      BY <1>2, <1>4, <2>4, <2>6, <3>1 DEF RefundMarked, BooksBacked, BooksPaid
    <3> QED
      BY <1>5, <3>2, <3>3
  <2>7. ASSUME state = "paid", BooksPaid(row'), Returns(bank.captured - bank.refunded),
               row'.payment_status = "refunded" => row'.paid_amount = 0
        PROVE  BooksInv'
    <3>1. bank.refunds = 0
      BY <1>1, <2>7, PaidReceipt
    <3>2. bank'.refunds = 1 /\ bank'.refunded = bank'.captured /\ bank'.captured \in Nat
      BY <1>1, <1>2, <2>7, <3>1, ReturnsBank
    <3>3. ObjBacked' /\ LeftBacked'
      BY <1>0, <2>3, <2>7, <3>1, <3>2, FirstRefund DEF BooksPaid
    <3>4. RefundMarked' /\ BooksBacked'
      BY <1>4, <2>7, <3>2 DEF RefundMarked, BooksBacked, BooksPaid
    <3> QED
      BY <1>5, <3>3, <3>4
  <2>8. ASSUME bank' = bank, row'.payment_status = "failed", row'.paid_amount = row.paid_amount,
               row'.manual_payments = row.manual_payments
        PROVE  BooksInv'
    <3>1. ObjBacked' /\ LeftBacked'
      BY <1>0, <1>2, <1>4, <2>3, <2>8, BooksFrame
    <3>2. RefundMarked' /\ BooksBacked'
      BY <1>6, <2>8 DEF RefundMarked, BooksBacked
    <3> QED
      BY <1>5, <3>1, <3>2
  <2> QED
    BY <1>1, <2>1, <2>5, <2>6, <2>7, <2>8, WebhookStep
<1>13. ASSUME CrashInWebhook PROVE BooksInv'
  <2>1. /\ bank.refunds = 0 /\ pc' = pc /\ obj' = obj /\ row' = row /\ row.payment_status # "refunded"
        /\ Returns(bank.captured - bank.refunded)
    BY <1>2, <1>13 DEF CrashInWebhook, Receipt, NotAsked
  <2>2. bank'.refunds = 1
    BY <1>1, <2>1, ReturnsBank
  <2>3. ObjBacked' /\ LeftBacked'
    BY <1>0, <2>1, <2>2, FirstRefund
  <2>4. RefundMarked' /\ BooksBacked'
    BY <2>1, <2>2 DEF RefundMarked, BooksBacked
  <2> QED
    BY <1>5, <2>3, <2>4
<1>14. ASSUME RecordPayment PROVE BooksInv'
  <2>1. PICK amount \in Recorded :
            row' = [row EXCEPT !.paid_amount = @ + amount, !.manual_payments = @ + amount,
                               !.payment_status = PayStatus(row.paid_amount + amount, row.total_amount)]
    BY <1>14 DEF RecordPayment
  <2>2. amount \in Nat /\ bank' = bank /\ pc' = pc /\ obj' = obj
    BY <1>14, AmountAssumption DEF RecordPayment
  <2>3. /\ row'.paid_amount = row.paid_amount + amount /\ row'.manual_payments = row.manual_payments + amount
        /\ row'.payment_status # "refunded"
    BY <1>3, <2>1 DEF Row, PayStatus
  <2>4. ObjBacked' /\ LeftBacked'
    BY <1>0, <1>2, <1>4, <2>2, <2>3, BooksFrame
  <2>5. RefundMarked' /\ BooksBacked'
    BY <1>2, <1>4, <1>6, <2>2, <2>3 DEF RefundMarked, BooksBacked
  <2> QED
    BY <1>5, <2>4, <2>5
<1>15. ASSUME NEW w \in Workers, NEW b, NEW where \in {"cancelled", "refunding"}, Goes(w, where, b),
              bank' = bank, SameAmounts,
              where = "refunding" \/ b # NoObj =>
                  /\ b.manual_payments <= row.manual_payments
                  /\ bank.refunds = 0 => b.paid_amount <= b.manual_payments + bank.captured
       PROVE  BooksInv'
  <2>1. /\ pc'[w] = where /\ obj'[w] = b
        /\ \A v \in Workers \ {w} : pc'[v] = pc[v] /\ obj'[v] = obj[v]
    BY <1>3, <1>15 DEF Goes
  <2>2. row'.manual_payments = row.manual_payments
    BY <1>15 DEF SameAmounts
  <2>3. ObjBacked'
    BY <1>6, <1>15, <2>1, <2>2 DEF ObjBacked
  <2>4. LeftBacked'
    <3> SUFFICES ASSUME NEW v \in Workers, pc'[v] = "refunded"
                 PROVE  /\ bank'.refunds > 0
                        /\ Less(obj'[v].paid_amount, calculate_refund_amount(obj'[v]))
                             <= row'.manual_payments + (bank'.captured - bank'.refunded)
      BY DEF LeftBacked, calculate_refund_amount, online_paid_amount, manual_paid_amount
    <3>1. v # w /\ pc[v] = "refunded" /\ obj'[v] = obj[v]
      BY <1>15, <2>1
    <3>2. Less(obj'[v].paid_amount, calculate_refund_amount(obj'[v])) = Less(obj[v].paid_amount, calculate_refund_amount(obj[v]))
      BY <3>1
    <3> QED
      BY <1>6, <1>15, <2>2, <3>1, <3>2 DEF LeftBacked
  <2> QED
    BY <1>5, <1>7, <1>15, <2>3, <2>4
<1>16. bank.refunds = 0 => row.paid_amount <= row.manual_payments + bank.captured
  BY <1>1, <1>2, <1>4, <1>6 DEF BooksBacked, BankBooks
<1>17. ASSUME NEW w \in Workers, CancelGoes(w) PROVE BooksInv'
  <2>1. /\ row' \in Row /\ SameAmounts /\ bank' = bank
        /\ Goes(w, "cancelled", row') \/ Goes(w, "cancelled", NoObj)
    BY <1>0, <1>3, <1>17, SameRowAmounts DEF CancelGoes, TypeOK
  <2>2. row'.paid_amount = row.paid_amount /\ row'.manual_payments = row.manual_payments
    BY <2>1 DEF SameAmounts
  <2>3. row'.manual_payments <= row.manual_payments
    BY <1>4, <2>2
  <2> QED
    BY <1>15, <1>16, <2>1, <2>2, <2>3
<1>18. ASSUME NEW w \in Workers, RefundGoes(w) PROVE BooksInv'
  <2> DEFINE b == IF obj[w] = NoObj THEN row ELSE obj[w]
  <2>1. pc[w] = "cancelled" /\ row' = row /\ bank' = bank /\ Goes(w, "refunding", b)
    BY <1>18 DEF RefundGoes
  <2>2. SameAmounts
    BY <2>1 DEF SameAmounts
  <2>3. CASE obj[w] = NoObj
    <3>1. b = row /\ row.manual_payments <= row.manual_payments
      BY <1>4, <2>3
    <3> QED
      BY <1>15, <1>16, <2>1, <2>2, <3>1
  <2>4. CASE obj[w] # NoObj
    <3>1. b = obj[w] /\ obj[w] \in Row
      BY <1>3, <2>4
    <3>2. /\ obj[w].manual_payments <= row.manual_payments
          /\ bank.refunds = 0 => obj[w].paid_amount <= obj[w].manual_payments + bank.captured
      BY <1>6, <2>1, <2>4 DEF ObjBacked
    <3> QED
      BY <1>15, <2>1, <2>2, <2>4, <3>1, <3>2
  <2> QED
    BY <2>3, <2>4
<1>19. ASSUME NEW w \in Workers, RefundCall(w) PROVE BooksInv'
  <2> DEFINE amount == calculate_refund_amount(obj[w])
             online == online_paid_amount(obj[w])
             asked == IF amount >= online THEN bank.captured - bank.refunded ELSE amount
             left == Less(obj[w].paid_amount, amount)
  <2>1. /\ pc[w] = "refunding" /\ row' = row
        /\ \/ Returns(asked) /\ Goes(w, "refunded", obj[w])
           \/ RefundRaises(asked) /\ Goes(w, "refund_failed", obj[w])
    BY <1>19 DEF RefundCall
  <2>2. obj[w] \in Row /\ w \in Workers
    BY <1>1, <2>1 DEF ObjHeld, Reads
  <2>3. /\ amount \in Nat /\ online \in Nat /\ amount <= online /\ online <= obj[w].paid_amount
        /\ left = obj[w].paid_amount - amount /\ left \in Nat
    BY <2>2, RefundAmounts
  <2>4. obj[w].paid_amount \in Nat /\ obj[w].manual_payments \in Nat
    BY <2>2, RowFields
  <2>5. online = IF obj[w].paid_amount > obj[w].manual_payments
                 THEN obj[w].paid_amount - obj[w].manual_payments ELSE 0
    BY DEF online_paid_amount, manual_paid_amount, Less
  <2>6. /\ obj[w].manual_payments <= row.manual_payments
        /\ bank.refunds = 0 => obj[w].paid_amount <= obj[w].manual_payments + bank.captured
    BY <1>6, <2>1, <2>2 DEF ObjBacked
  <2> HIDE DEF amount, online, asked, left
  <2>7. CASE bank' = bank /\ Goes(w, "refund_failed", obj[w])
    <3>1. OneMoves(w)
      BY <1>1, <2>7, GoesAside DEF Aside, Control
    <3> QED
      BY <1>8, <2>1, <2>7, <3>1 DEF Calm, SameAmounts
  <2>8. ASSUME Returns(asked), NEW where \in {"refunded", "refund_failed"}, Goes(w, where, obj[w]) PROVE BooksInv'
    <3>1. bank.refunded < bank.captured /\ pc[w] \in Asking
      BY <1>1, <2>1, <2>8, ReturnBooks DEF Asking
    <3>2. bank.refunds = 0 /\ bank.refunded = 0
      BY <1>1, <1>2, <3>1 DEF RefundInv, NothingLeft, BankBooks
    <3>3. /\ bank'.captured = bank.captured /\ bank'.refunded = asked /\ bank'.refunds = 1
          /\ asked \in Nat /\ asked <= bank.captured
      BY <1>1, <1>2, <2>8, <3>2, ReturnsBank
    <3>4. /\ pc'[w] = where /\ obj'[w] = obj[w]
          /\ \A v \in Workers \ {w} : pc'[v] = pc[v] /\ obj'[v] = obj[v]
      BY <1>3, <2>8 DEF Goes
    <3>5. left <= row.manual_payments + (bank.captured - asked)
      <4>1. CASE amount >= online
        <5>1. asked = bank.captured /\ amount = online
          BY <1>2, <2>3, <3>2, <4>1 DEF asked
        <5> QED
          BY <1>2, <1>4, <2>3, <2>4, <2>5, <2>6, <5>1
      <4>2. CASE ~(amount >= online)
        <5>1. asked = amount
          BY <4>2 DEF asked
        <5> QED
          BY <1>2, <1>4, <2>3, <2>4, <2>6, <3>2, <3>3, <5>1
      <4> QED
        BY <4>1, <4>2
    <3>6. LeftBacked'
      <4> SUFFICES ASSUME NEW v \in Workers, pc'[v] = "refunded"
                   PROVE  /\ bank'.refunds > 0
                          /\ Less(obj'[v].paid_amount, calculate_refund_amount(obj'[v]))
                               <= row'.manual_payments + (bank'.captured - bank'.refunded)
        BY DEF LeftBacked, calculate_refund_amount, online_paid_amount, manual_paid_amount
      <4>1. v = w
        BY <1>2, <1>6, <3>2, <3>4 DEF LeftBacked
      <4>2. Less(obj'[v].paid_amount, calculate_refund_amount(obj'[v])) = left
        BY <3>4, <4>1 DEF left, amount
      <4> QED
        BY <2>1, <3>3, <3>5, <4>2
    <3>7. ObjBacked'
      BY <1>6, <2>1, <3>3, <3>4 DEF ObjBacked
    <3>8. RefundMarked' /\ BooksBacked'
      BY <1>2, <1>6, <2>1, <3>2, <3>3 DEF RefundMarked, BooksBacked
    <3> QED
      BY <1>5, <3>6, <3>7, <3>8
  <2> QED
    BY <1>1, <2>1, <2>7, <2>8, RaisesBank
<1>20. ASSUME NEW w \in Workers, RefundBooked(w) PROVE BooksInv'
  <2> DEFINE left == Less(obj[w].paid_amount, calculate_refund_amount(obj[w]))
  <2>1. /\ pc[w] = "refunded" /\ bank' = bank /\ Goes(w, "flagging", obj[w])
        /\ \E m : row' = [row EXCEPT !.payment_status = "refunded", !.paid_amount = left, !.payment_metadata = m]
    BY <1>20 DEF RefundBooked, RefundSave
  <2>2. bank.refunds > 0 /\ left <= row.manual_payments + (bank.captured - bank.refunded)
    BY <1>6, <2>1 DEF LeftBacked
  <2> HIDE DEF left
  <2>3. row'.paid_amount = left /\ row'.manual_payments = row.manual_payments
    BY <1>3, <2>1 DEF Row
  <2>4. OneMoves(w)
    BY <1>1, <2>1, GoesAside DEF Aside, Control
  <2>5. ObjBacked' /\ LeftBacked'
    BY <1>0, <1>2, <1>4, <2>1, <2>3, <2>4, MovesApart, BooksFrame
  <2>6. RefundMarked' /\ BooksBacked'
    BY <2>1, <2>2, <2>3 DEF RefundMarked, BooksBacked
  <2> QED
    BY <1>5, <2>5, <2>6
<1>21. ASSUME NEW w \in Workers, PatchRead(w) \/ PatchSave(w) \/ RepriceSave(w) PROVE BooksInv'
  BY <1>1, <1>21 DEF PatchRead, PatchSave, RepriceSave, NoReopening, NobodyReopens, Reopening
<1>22. Kinds
  BY <1>1, KindsOfSteps
<1> QED
  BY <1>8, <1>10, <1>11, <1>12, <1>13, <1>14, <1>17, <1>18, <1>19, <1>20, <1>21, <1>22 DEF Kinds

LEMMA BooksInit ==
    ASSUME Init
    PROVE  BooksInv
<1>1. RefundInv
  BY RefundInit
<1>2. \A w \in Workers : pc[w] \notin {"refunding", "cancelled", "refunded"}
  BY DEF Init
<1>3. /\ row.payment_status = "pending" /\ row.paid_amount = 0 /\ row.manual_payments = 0
      /\ bank.captured = 0 /\ bank.refunded = 0
  BY DEF Init
<1> QED
  BY <1>1, <1>2, <1>3 DEF BooksInv, ObjBacked, LeftBacked, RefundMarked, BooksBacked

\* Under the same condition the money the row shows is at the bank or was taken by staff,
\* as long as nothing went back and again once the row says refunded: for every refund
\* policy, although the refund is computed from a booking read before the bank call, and
\* its result is saved after it over whatever staff recorded in between.
THEOREM BooksAlwaysBacked == NoReopening => (Spec => []BooksBacked)
<1> SUFFICES ASSUME NoReopening PROVE Spec => []BooksBacked
  OBVIOUS
<1>1. Init => BooksInv
  BY BooksInit
<1>2. BooksInv /\ [Next]_vars => BooksInv'
  BY BooksStep
<1>3. BooksInv => BooksBacked
  BY DEF BooksInv
<1> QED
  BY <1>1, <1>2, <1>3, PTL DEF Spec

----------------------------------------------------------------------------
(* Never more paid than it costs *)

LEMMA PricesStep ==
    ASSUME PricesCover, PricesInv, [Next]_vars
    PROVE  PricesInv'
<1>0. TypeOK' /\ ObjHeld'
  BY TypeStep DEF PricesInv
<1>1. TypeOK /\ ObjHeld /\ Covered(row) /\ bank.captured <= charge /\ \A w \in Workers : Held(w)
  BY DEF PricesInv, Held
<1>2. bank.captured \in Nat /\ bank.refunded \in Nat /\ bank \in Bank
  BY <1>1, BankFields DEF TypeOK
<1>3. pc \in [Workers -> Control] /\ obj \in [Workers -> Row \cup {NoObj}] /\ row \in Row
  BY <1>1 DEF TypeOK
<1>4. row.paid_amount \in Nat /\ row.manual_payments \in Nat /\ row.total_amount \in Nat
  BY <1>3, RowFields
<1>5. charge \in Nat /\ charge <= Total /\ Total \in Nat
  BY ChargeType
<1>6. ASSUME Covered(row'), bank'.captured <= charge, \A v \in Workers : Held(v)'
      PROVE  PricesInv'
  BY <1>0, <1>6 DEF PricesInv, Held, Covered
<1>7. ASSUME NEW v \in Workers, (pc'[v] = pc[v] /\ obj'[v] = obj[v]) \/ pc'[v] \in Aside \cup {"ordered"}
      PROVE  Held(v)'
  <2>1. CASE pc'[v] \in Aside \cup {"ordered"}
    BY <2>1 DEF Held, HoldsPrice, Aside
  <2>2. CASE pc'[v] = pc[v] /\ obj'[v] = obj[v]
    BY <1>1, <2>2 DEF Held, HoldsPrice, Covered
  <2> QED
    BY <1>7, <2>1, <2>2
<1>8. ASSUME SameAmounts PROVE Covered(row')
  BY <1>1, <1>8 DEF SameAmounts, Covered
<1>9. ASSUME Calm PROVE PricesInv'
  BY <1>1, <1>6, <1>7, <1>8, <1>9, MovesApart DEF Calm
<1>10. ASSUME BankProcessing \/ BankSettles PROVE PricesInv'
  <2>1. row' = row /\ pc' = pc /\ obj' = obj /\ bank'.captured \in {bank.captured, charge}
    BY <1>2, <1>10 DEF BankProcessing, BankSettles, Bank
  <2> QED
    BY <1>1, <1>5, <1>6, <1>7, <2>1
<1>11. ASSUME NEW w \in Workers, OrderAtBank(w) PROVE PricesInv'
  <2>1. row' = row /\ bank'.captured = bank.captured
    BY <1>2, <1>11 DEF OrderAtBank, Bank
  <2>2. \A v \in Workers : (pc'[v] = pc[v] /\ obj'[v] = obj[v]) \/ pc'[v] \in Aside \cup {"ordered"}
    BY <1>3, <1>11 DEF OrderAtBank, Goes
  <2> QED
    BY <1>1, <1>6, <1>7, <2>1, <2>2
<1>12. ASSUME Asks PROVE PricesInv'
  <2>1. PICK state \in Answers : process_webhook(state)
    BY <1>12 DEF Asks
  <2>2. PICK w \in Workers : OneMoves(w)
    BY <1>12 DEF Asks
  <2>3. \A v \in Workers : Held(v)'
    BY <1>7, <2>2, MovesApart
  <2>4. bank'.captured = bank.captured
    BY <1>1, <2>1, WebhookStep, ReturnsBank
  <2>5. row'.paid_amount \in {row.paid_amount, bank.captured, 0} /\ row'.total_amount = row.total_amount
    BY <1>1, <2>1, WebhookStep DEF BooksPaid
  <2>6. Covered(row')
    BY <1>1, <1>2, <1>4, <1>5, <2>5 DEF Covered
  <2> QED
    BY <1>1, <1>6, <2>3, <2>4, <2>6
<1>13. ASSUME CrashInWebhook PROVE PricesInv'
  <2>1. bank'.captured = bank.captured /\ row' = row /\ pc' = pc /\ obj' = obj
    BY <1>1, <1>13, ReturnsBank DEF CrashInWebhook
  <2> QED
    BY <1>1, <1>6, <1>7, <2>1
<1>14. ASSUME RecordPayment PROVE PricesInv'
  <2>1. PICK amount \in Recorded :
            /\ row.paid_amount + amount <= row.total_amount
            /\ row' = [row EXCEPT !.paid_amount = @ + amount, !.manual_payments = @ + amount,
                                  !.payment_status = PayStatus(row.paid_amount + amount, row.total_amount)]
    BY <1>14 DEF RecordPayment
  <2>2. row'.paid_amount = row.paid_amount + amount /\ row'.total_amount = row.total_amount
    BY <1>3, <2>1 DEF Row
  <2>3. bank' = bank /\ pc' = pc /\ obj' = obj
    BY <1>14 DEF RecordPayment
  <2>4. Covered(row')
    BY <1>1, <2>1, <2>2 DEF Covered
  <2> QED
    BY <1>1, <1>6, <1>7, <2>3, <2>4
<1>15. ASSUME NEW w \in Workers, NEW where, NEW b, Goes(w, where, b), Covered(row'), bank' = bank,
              where \in {"patch", "refunding", "refunded"} \/ (where = "cancelled" /\ b # NoObj) => Covered(b),
              where \in {"patch", "repricing"} => "patch" \in Ops,
              where \in {"cancelled", "refunding", "refunded"} => Ops \cap {"client_cancel", "admin_cancel"} # {}
       PROVE  PricesInv'
  <2>1. /\ pc'[w] = where /\ obj'[w] = b
        /\ \A v \in Workers \ {w} : pc'[v] = pc[v] /\ obj'[v] = obj[v]
    BY <1>3, <1>15 DEF Goes
  <2>2. Held(w)'
    BY <1>15, <2>1 DEF Held, HoldsPrice, Covered
  <2> QED
    BY <1>1, <1>6, <1>7, <1>15, <2>1, <2>2
<1>16. ASSUME NEW w \in Workers, CancelGoes(w) PROVE PricesInv'
  <2>1. /\ SameAmounts /\ bank' = bank /\ Ops \cap {"client_cancel", "admin_cancel"} # {}
        /\ Goes(w, "cancelled", row') \/ Goes(w, "cancelled", NoObj)
    BY <1>3, <1>16, SameRowAmounts DEF CancelGoes
  <2> QED
    BY <1>8, <1>15, <2>1
<1>17. ASSUME NEW w \in Workers, RefundGoes(w) PROVE PricesInv'
  <2> DEFINE b == IF obj[w] = NoObj THEN row ELSE obj[w]
  <2>1. pc[w] = "cancelled" /\ row' = row /\ bank' = bank /\ Goes(w, "refunding", b)
    BY <1>17 DEF RefundGoes
  <2>2. Covered(b) /\ Ops \cap {"client_cancel", "admin_cancel"} # {}
    BY <1>1, <2>1 DEF Held, HoldsPrice
  <2> HIDE DEF b
  <2> QED
    BY <1>1, <1>15, <2>1, <2>2
<1>18. ASSUME NEW w \in Workers, RefundCall(w) PROVE PricesInv'
  <2>1. /\ pc[w] = "refunding" /\ row' = row
        /\ Goes(w, "refunded", obj[w]) \/ Goes(w, "refund_failed", obj[w])
    BY <1>18 DEF RefundCall
  <2>2. bank'.captured = bank.captured
    BY <1>1, <1>18, ReturnsBank, RaisesBank DEF RefundCall
  <2>3. Covered(obj[w]) /\ Ops \cap {"client_cancel", "admin_cancel"} # {}
    BY <1>1, <2>1 DEF Held, HoldsPrice
  <2>4. /\ pc'[w] \in {"refunded", "refund_failed"} /\ obj'[w] = obj[w]
        /\ \A v \in Workers \ {w} : pc'[v] = pc[v] /\ obj'[v] = obj[v]
    BY <1>3, <2>1 DEF Goes
  <2>5. Held(w)'
    BY <2>3, <2>4 DEF Held, HoldsPrice, Covered
  <2> QED
    BY <1>1, <1>6, <1>7, <2>1, <2>2, <2>4, <2>5
<1>19. ASSUME NEW w \in Workers, RefundBooked(w) PROVE PricesInv'
  <2> DEFINE left == Less(obj[w].paid_amount, calculate_refund_amount(obj[w]))
  <2>1. /\ pc[w] = "refunded" /\ bank' = bank /\ Goes(w, "flagging", obj[w])
        /\ \E m : row' = [row EXCEPT !.payment_status = "refunded", !.paid_amount = left, !.payment_metadata = m]
    BY <1>19 DEF RefundBooked, RefundSave
  <2>2. obj[w] \in Row
    BY <1>1, <2>1 DEF ObjHeld, Reads
  <2>3. obj[w].paid_amount \in Nat /\ left \in Nat /\ left <= obj[w].paid_amount
    <3>1. calculate_refund_amount(obj[w]) \in Nat /\ left = obj[w].paid_amount - calculate_refund_amount(obj[w])
          /\ left \in Nat
      BY <2>2, RefundAmounts
    <3> QED
      BY <2>2, <3>1, RowFields
  <2>4. Covered(obj[w]) /\ "patch" \notin Ops
    BY <1>1, <2>1 DEF Held, HoldsPrice, PricesCover
  <2> HIDE DEF left
  <2>5. row'.paid_amount = left /\ row'.total_amount = row.total_amount
    BY <1>3, <2>1 DEF Row
  <2>6. obj[w].total_amount = row.total_amount /\ obj[w].paid_amount <= row.total_amount
    BY <1>1, <2>4 DEF Covered
  <2>7. Covered(row')
    BY <1>1, <1>4, <2>3, <2>5, <2>6 DEF Covered
  <2> QED
    BY <1>15, <2>1, <2>7
<1>20. ASSUME NEW w \in Workers, PatchRead(w) PROVE PricesInv'
  BY <1>1, <1>15, <1>20 DEF PatchRead
<1>21. ASSUME NEW w \in Workers, PatchSave(w) PROVE PricesInv'
  <2>1. pc[w] = "patch" /\ bank' = bank /\ (Ends(w) \/ Goes(w, "repricing", row'))
    BY <1>21 DEF PatchSave
  <2>2. "patch" \in Ops /\ Covered(obj[w]) /\ obj[w] \in Row
    BY <1>1, <2>1 DEF Held, HoldsPrice, ObjHeld, Reads
  <2>3. \/ row' = obj[w]
        \/ \E total \in Prices : total >= obj[w].paid_amount /\ row' = [obj[w] EXCEPT !.total_amount = total]
    BY <1>21 DEF PatchSave
  <2>4. Covered(row')
    BY <1>5, <2>2, <2>3, AmountAssumption DEF Covered, PricesCover, Row
  <2> QED
    BY <1>15, <2>1, <2>2, <2>4 DEF Ends
<1>22. ASSUME NEW w \in Workers, RepriceSave(w) PROVE PricesInv'
  <2>1. /\ bank' = bank /\ Ends(w)
        /\ row'.paid_amount = row.paid_amount /\ row'.total_amount = row.total_amount
    BY <1>3, <1>22 DEF RepriceSave, Row
  <2>2. Covered(row')
    BY <1>1, <2>1 DEF Covered
  <2> QED
    BY <1>15, <2>1, <2>2 DEF Ends
<1>23. Kinds
  BY <1>1, KindsOfSteps
<1> QED
  BY <1>9, <1>10, <1>11, <1>12, <1>13, <1>14, <1>16, <1>17, <1>18, <1>19, <1>20, <1>21, <1>22, <1>23 DEF Kinds

\* A booking never shows more paid than it costs, whatever handlers interleave, as long as
\* PATCH sets no price below the online charge (the order at the bank keeps the old one)
\* and does not run beside the cancels that refund.
THEOREM NeverOverpaid == PricesCover => (Spec => []PaidWithinTotal)
<1> SUFFICES ASSUME PricesCover PROVE Spec => []PaidWithinTotal
  OBVIOUS
<1>1. Init => PricesInv
  <2> SUFFICES ASSUME Init PROVE PricesInv
    OBVIOUS
  <2>1. TypeOK /\ ObjHeld
    BY InitType
  <2>2. row.paid_amount = 0 /\ row.total_amount = Total /\ bank.captured = 0
    BY DEF Init
  <2>3. \A w \in Workers : pc[w] \in {"ordering", "idle"}
    BY DEF Init
  <2> QED
    BY <2>1, <2>2, <2>3, ChargeType DEF PricesInv, Covered, HoldsPrice, Held
<1>2. PricesInv /\ [Next]_vars => PricesInv'
  BY PricesStep
<1>3. PricesInv => PaidWithinTotal
  BY DEF PricesInv, Covered, PaidWithinTotal
<1> QED
  BY <1>1, <1>2, <1>3, PTL DEF Spec

=============================================================================
