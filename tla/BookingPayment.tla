---------------------------- MODULE BookingPayment ----------------------------
(***************************************************************************)
(* The money of one booking that its customer chose to pay online: the     *)
(* Booking row of booking_management, the order at Bank of Georgia (BOG),  *)
(* and the workers that touch them.                                        *)
(*                                                                         *)
(* process_webhook and record_payment hold the row lock from their read to *)
(* their write, and every UPDATE of another handler waits for that lock,   *)
(* so each is one step.  Every other handler reads, decides, perhaps calls *)
(* the bank, and saves named columns later without a lock: each of those   *)
(* is a step of its own, and `obj' is the model instance it keeps between. *)
(*                                                                         *)
(* Amounts are whole units.  The bank is external: it is modelled by the   *)
(* answers BOGPaymentService relies on.                                    *)
(***************************************************************************)
EXTENDS Naturals

CONSTANTS
    Worker,          \* web workers
    Creator,         \* the one serving the request that made the booking
    Sweeper,         \* the Celery worker running cancel_unpaid_bookings
    NoObj,           \* an idle worker holds no booking
    Total,           \* total_amount
    Deposit,         \* deposit_amount, 0 when the full price is charged online
    Prices,          \* totals a PATCH may set
    Recorded,        \* amounts staff may record by hand
    RefundPolicy,    \* "full", "partial_50", "partial_25" or "no_refund"
    AutoConfirm,     \* payment statuses that confirm a pending booking
    Ops              \* the kinds of request that arrive

AllOps == {"callback", "poll", "sweep", "client_cancel", "admin_cancel", "admin_cancel_no_refund",
           "confirm", "check_in", "complete", "no_show", "force", "record_payment", "patch",
           "refund_error", "status_error", "crash"}

charge == IF Deposit > 0 THEN Deposit ELSE Total

ASSUME WorkerAssumption == Creator \in Worker /\ Sweeper \notin Worker /\ NoObj \notin Worker
ASSUME AmountAssumption ==
    /\ Total \in Nat \ {0} /\ Deposit \in Nat /\ Deposit <= Total
    /\ Prices \subseteq Nat /\ Recorded \subseteq Nat \ {0}
ASSUME SettingsAssumption ==
    /\ RefundPolicy \in {"full", "partial_50", "partial_25", "no_refund"}
    /\ AutoConfirm \subseteq {"deposit_paid", "fully_paid"}
    /\ Ops \subseteq AllOps

VARIABLES
    row,    \* the Booking row
    bank,   \* the BOG order
    told,   \* BOG's notice that the order settled was answered with HTTP 200
    pc,     \* where each worker is
    obj     \* the booking each worker has in memory

vars == <<row, bank, told, pc, obj>>

Workers == Worker \cup {Sweeper}

FINAL_BOOKING_STATUSES == {"completed", "cancelled", "no_show"}
Status == {"pending", "confirmed", "in_progress"} \cup FINAL_BOOKING_STATUSES
PaidStatus == {"deposit_paid", "fully_paid"}

\* refund, manual_refund and created_email_sent are keys of payment_metadata.
Metadata == [refund : {"none", "requested", "manual_required"}, manual_refund : BOOLEAN,
             created_email_sent : BOOLEAN]
NoMetadata == [refund |-> "none", manual_refund |-> FALSE, created_email_sent |-> FALSE]

Row == [status : Status, payment_status : {"pending", "failed", "refunded"} \cup PaidStatus,
        paid_amount : Nat, manual_payments : Nat, total_amount : Nat, bog_order_id : BOOLEAN,
        payment_metadata : Metadata]

\* refunds counts the refunds the bank carried out.
Bank == [state : {"none", "pending", "processing", "paid", "failed"},
         captured : Nat, refunded : Nat, refunds : Nat]

Control == {"idle", "ordering", "ordered", "mailing", "sweeping", "sweep_cancel", "cancelled",
            "refunding", "refunded", "refund_failed", "flagging", "flagged",
            "confirm", "check_in", "complete", "no_show", "patch", "repricing"}

----------------------------------------------------------------------------
(* Amounts *)

\* Mutant: the wrong name of a status.
PayStatus_Misnamed(paid, total) == IF paid >= total THEN "paid" ELSE "deposit_paid"

PayStatus(paid, total) == IF paid >= total THEN "fully_paid" ELSE "deposit_paid"

Less(x, y) == IF x > y THEN x - y ELSE 0

manual_paid_amount(b) == b.manual_payments
online_paid_amount(b) == Less(b.paid_amount, manual_paid_amount(b))

_apply_refund_policy(amount) ==
    CASE RefundPolicy = "full"       -> amount
      [] RefundPolicy = "partial_50" -> amount \div 2
      [] RefundPolicy = "partial_25" -> amount \div 4
      [] OTHER                       -> 0

calculate_refund_amount(b) == _apply_refund_policy(online_paid_amount(b))

calculate_manual_refund_due(b) ==
    _apply_refund_policy(IF manual_paid_amount(b) < b.paid_amount THEN manual_paid_amount(b)
                         ELSE b.paid_amount)

_awaiting_online_payment(b) == b.payment_status \notin PaidStatus

----------------------------------------------------------------------------
(* Workers and the bank *)

Goes(w, where, b) ==
    /\ pc' = [pc EXCEPT ![w] = where]
    /\ obj' = [obj EXCEPT ![w] = b]

Ends(w) == Goes(w, "idle", NoObj)

\* The receipt BOG shows once money has gone back is neither paid nor failed.
Receipt == IF bank.refunds > 0 THEN "refunded" ELSE bank.state

\* The customer is sent to the bank once the payment link is saved.
BankProcessing ==
    /\ bank.state = "pending" /\ row.bog_order_id
    /\ bank' = [bank EXCEPT !.state = "processing"]
    /\ UNCHANGED <<row, told, pc, obj>>

BankSettles ==
    /\ \/ bank.state = "processing" /\ bank' = [bank EXCEPT !.state = "paid", !.captured = charge]
       \/ bank.state \in {"pending", "processing"} /\ bank' = [bank EXCEPT !.state = "failed"]
    /\ UNCHANGED <<row, told, pc, obj>>

\* refund_payment: the bank returns the amount, at most what it still holds.
Returnable(amount) == bank.state = "paid" /\ amount \in 1 .. (bank.captured - bank.refunded)

Returns(amount) ==
    /\ Returnable(amount)
    /\ bank' = [bank EXCEPT !.refunded = @ + amount, !.refunds = @ + 1]

\* It raises when BOG refuses, cannot be reached, or answers too late to a
\* refund it did carry out.
RefundRaises(amount) ==
    \/ (~Returnable(amount) \/ "refund_error" \in Ops) /\ UNCHANGED bank
    \/ "refund_error" \in Ops /\ Returns(amount)

----------------------------------------------------------------------------
(* create_booking_payment, in the request that made the booking *)

OrderAtBank(w) ==
    /\ pc[w] = "ordering"
    /\ bank' = [bank EXCEPT !.state = "pending"]
    /\ Goes(w, "ordered", obj[w])
    /\ UNCHANGED <<row, told>>

SaveOrder(w) ==
    /\ pc[w] = "ordered"
    /\ row' = [row EXCEPT !.bog_order_id = TRUE, !.payment_metadata = NoMetadata]
    /\ Ends(w)
    /\ UNCHANGED <<bank, told>>

\* create_payment raises: the booking must not keep its slot.
OrderFails(w) ==
    /\ pc[w] \in {"ordering", "ordered"}
    /\ row' = [row EXCEPT !.status = "cancelled"]
    /\ Ends(w)
    /\ UNCHANGED <<bank, told>>

----------------------------------------------------------------------------
(* process_webhook *)

\* Mutant: money for a cancelled booking is only written down.
SettlePaid_KeepsLateMoney ==
    /\ row' = [row EXCEPT !.paid_amount = bank.captured,
                          !.payment_status = PayStatus(bank.captured, row.total_amount)]
    /\ UNCHANGED bank

\* The booking is found to be paid: a cancelled one gets its money back, a
\* pending one may be confirmed.
SettlePaid ==
    LET paid == [row EXCEPT !.paid_amount = bank.captured,
                            !.payment_status = PayStatus(bank.captured, row.total_amount),
                            !.payment_metadata = NoMetadata]
    IN  IF row.status = "cancelled"
        THEN \/ /\ Returns(bank.captured - bank.refunded)
                /\ row' = [paid EXCEPT !.payment_status = "refunded", !.paid_amount = 0,
                                       !.payment_metadata.refund = "requested"]
             \/ /\ RefundRaises(bank.captured - bank.refunded)
                /\ row' = [paid EXCEPT !.payment_metadata.refund = "manual_required"]
        ELSE /\ row' = IF row.status = "pending" /\ paid.payment_status \in AutoConfirm
                       THEN [paid EXCEPT !.status = "confirmed"] ELSE paid
             /\ UNCHANGED bank

SettleFailed ==
    /\ row' = [row EXCEPT !.payment_status = "failed",
                          !.status = IF @ = "pending" THEN "cancelled" ELSE @]
    /\ UNCHANGED bank

\* A booking without an order, or one that is paid, is left alone and BOG is
\* not asked.
NotAsked == ~row.bog_order_id \/ row.payment_status \in PaidStatus \cup {"refunded"}

\* What the transaction does when BOG answers `state'.
process_webhook(state) ==
    IF NotAsked THEN UNCHANGED <<row, bank>>
    ELSE CASE state = "paid"   -> SettlePaid
           [] state = "failed" -> SettleFailed
           [] OTHER            -> UNCHANGED <<row, bank>>

\* BOG answers with its receipt; a failed status query is the answer "error".
Answers == {Receipt} \cup (IF "status_error" \in Ops THEN {"error"} ELSE {})

\* payment_webhook: BOG calls back, perhaps late, perhaps again.  The view
\* answers 200 whatever the answer was.  A paid booking that still waits for
\* the business is then marked as acknowledged.
Callback(w) ==
    /\ "callback" \in Ops
    /\ pc[w] = "idle" /\ bank.state # "none"
    /\ \E state \in Answers : process_webhook(state)
    /\ told' = (told \/ bank.state \in {"paid", "failed"})
    /\ IF /\ row'.payment_status \in PaidStatus /\ row'.status = "pending"
          /\ row'.bog_order_id /\ ~row'.payment_metadata.created_email_sent
       THEN Goes(w, "mailing", row') ELSE UNCHANGED <<pc, obj>>

\* The acknowledgement is saved into the metadata read before.
Mail(w) ==
    /\ pc[w] = "mailing"
    /\ row' = [row EXCEPT !.payment_metadata = [obj[w].payment_metadata
                                                EXCEPT !.created_email_sent = TRUE]]
    /\ Ends(w)
    /\ UNCHANGED <<bank, told>>

\* manage_booking: the customer's page asks while the booking waits for payment.
Poll ==
    /\ "poll" \in Ops
    /\ row.status = "pending" /\ row.payment_status = "pending" /\ row.bog_order_id
    /\ \E state \in Answers : process_webhook(state)
    /\ UNCHANGED <<told, pc, obj>>

----------------------------------------------------------------------------
(* cancel_unpaid_bookings *)

\* Mutant: only bookings with an order are looked at.
SweepRead_OrdersOnly ==
    /\ "sweep" \in Ops
    /\ pc[Sweeper] = "idle" /\ pc[Creator] \notin {"ordering", "ordered"}
    /\ row.status = "pending" /\ row.payment_status = "pending" /\ row.bog_order_id
    /\ Goes(Sweeper, "sweeping", row)
    /\ UNCHANGED <<row, bank, told>>

\* The query for overdue bookings: the request that made one is long over.
SweepRead ==
    /\ "sweep" \in Ops
    /\ pc[Sweeper] = "idle" /\ pc[Creator] \notin {"ordering", "ordered"}
    /\ row.status = "pending" /\ row.payment_status \in {"pending", "failed"}
    /\ Goes(Sweeper, IF row.bog_order_id /\ row.payment_status = "pending"
                     THEN "sweeping" ELSE "sweep_cancel", row)
    /\ UNCHANGED <<row, bank, told>>

\* BOG is asked before the slot is given away; last_state stays None when
\* process_webhook returned early.
SweepAsk(state) ==
    /\ pc[Sweeper] = "sweeping"
    /\ process_webhook(state)
    /\ IF /\ ~NotAsked /\ state \in {"pending", "failed"}
          /\ row'.status = "pending" /\ row'.payment_status \notin PaidStatus
       THEN Goes(Sweeper, "sweep_cancel", row') ELSE Ends(Sweeper)
    /\ UNCHANGED told

SweepCancel ==
    /\ pc[Sweeper] = "sweep_cancel"
    /\ row' = [row EXCEPT !.status = "cancelled"]
    /\ Ends(Sweeper)
    /\ UNCHANGED <<bank, told>>

----------------------------------------------------------------------------
(* Cancelling and refunding *)

\* Mutant: the status is not looked at again under the lock.
CancelBooking_Unchecked(w, op) ==
    /\ op \in Ops
    /\ pc[w] = "idle"
    /\ row' = [row EXCEPT !.status = "cancelled"]
    /\ Goes(w, "cancelled", NoObj)
    /\ UNCHANGED <<bank, told>>

\* _cancel_booking and AdminBookingViewSet.cancel: the status changes under the
\* row lock; the refund comes after the transaction.
CancelBooking(w, op) ==
    /\ op \in Ops
    /\ pc[w] = "idle"
    /\ row.status \notin FINAL_BOOKING_STATUSES
    /\ row' = [row EXCEPT !.status = "cancelled"]
    /\ IF op = "admin_cancel_no_refund" \/ (op = "admin_cancel" /\ row.paid_amount = 0)
       THEN UNCHANGED <<pc, obj>>
       ELSE Goes(w, "cancelled", IF op = "admin_cancel" THEN row' ELSE NoObj)
    /\ UNCHANGED <<bank, told>>

\* initiate_refund up to the bank call.  A customer's cancel works on the row it
\* reads again, an admin's on the one it locked.
RefundRead(w) ==
    /\ pc[w] = "cancelled"
    /\ LET b == IF obj[w] = NoObj THEN row ELSE obj[w]
       IN  IF b.paid_amount = 0 THEN Ends(w)
           ELSE IF /\ b.bog_order_id /\ b.payment_metadata.refund # "requested"
                   /\ calculate_refund_amount(b) > 0
                THEN Goes(w, "refunding", b) ELSE Goes(w, "flagging", b)
    /\ UNCHANGED <<row, bank, told>>

RefundCall(w) ==
    /\ pc[w] = "refunding"
    /\ LET amount == calculate_refund_amount(obj[w])
           asked  == IF amount >= online_paid_amount(obj[w])
                     THEN bank.captured - bank.refunded ELSE amount
       IN  \/ Returns(asked) /\ Goes(w, "refunded", obj[w])
           \/ RefundRaises(asked) /\ Goes(w, "refund_failed", obj[w])
    /\ UNCHANGED <<row, told>>

\* Mutant: the refunded amount stays in paid_amount.
RefundSave_KeepsPaid(w) ==
    /\ pc[w] \in {"refunded", "refund_failed"}
    /\ row' = [row EXCEPT !.payment_status = "refunded",
                  !.payment_metadata = [obj[w].payment_metadata EXCEPT !.refund = "requested"]]
    /\ Goes(w, "flagging", obj[w])
    /\ UNCHANGED <<bank, told>>

RefundSave(w) ==
    /\ \/ /\ pc[w] = "refunded"
          /\ row' = [row EXCEPT !.payment_status = "refunded",
                        !.paid_amount = Less(obj[w].paid_amount, calculate_refund_amount(obj[w])),
                        !.payment_metadata = [obj[w].payment_metadata EXCEPT !.refund = "requested"]]
       \/ /\ pc[w] = "refund_failed"
          /\ row' = [row EXCEPT !.payment_metadata = [obj[w].payment_metadata
                                                      EXCEPT !.refund = "manual_required"]]
    /\ Goes(w, "flagging", obj[w])
    /\ UNCHANGED <<bank, told>>

\* flag_manual_refund, on the row read again: cash to return is written down once.
FlagRead(w) ==
    /\ pc[w] = "flagging"
    /\ IF calculate_manual_refund_due(row) > 0 /\ ~row.payment_metadata.manual_refund
       THEN Goes(w, "flagged", row) ELSE Ends(w)
    /\ UNCHANGED <<row, bank, told>>

FlagSave(w) ==
    /\ pc[w] = "flagged"
    /\ row' = [row EXCEPT !.payment_metadata = [obj[w].payment_metadata
                                                EXCEPT !.manual_refund = TRUE]]
    /\ Ends(w)
    /\ UNCHANGED <<bank, told>>

----------------------------------------------------------------------------
(* The front desk *)

MayRead(op) ==
    CASE op = "confirm"  -> /\ row.status = "pending"
                            /\ "force" \in Ops \/ ~_awaiting_online_payment(row)
      [] op = "check_in" -> \/ row.status = "confirmed"
                            \/ /\ row.status = "pending"
                               /\ "force" \in Ops \/ ~_awaiting_online_payment(row)
      [] op = "complete" -> row.status \in {"confirmed", "in_progress"}
      [] OTHER           -> row.status \in {"pending", "confirmed"}

StatusOps == {"confirm", "check_in", "complete", "no_show"}

StatusRead(w, op) ==
    /\ op \in Ops
    /\ pc[w] = "idle"
    /\ MayRead(op)
    /\ Goes(w, op, row)
    /\ UNCHANGED <<row, bank, told>>

StatusSave(w) ==
    /\ pc[w] \in StatusOps
    /\ row' = [row EXCEPT !.status = CASE pc[w] = "confirm"  -> "confirmed"
                                       [] pc[w] = "check_in" -> "in_progress"
                                       [] pc[w] = "complete" -> "completed"
                                       [] OTHER              -> "no_show"]
    /\ Ends(w)
    /\ UNCHANGED <<bank, told>>

\* Mutant: the amount is not compared with what is owed.
RecordPayment_Unlimited ==
    /\ "record_payment" \in Ops
    /\ row.status # "cancelled" /\ row.paid_amount < row.total_amount
    /\ \E amount \in Recorded :
         row' = [row EXCEPT !.paid_amount = @ + amount, !.manual_payments = @ + amount,
                            !.payment_status = PayStatus(row.paid_amount + amount,
                                                         row.total_amount)]
    /\ UNCHANGED <<bank, told, pc, obj>>

\* record_payment
RecordPayment ==
    /\ "record_payment" \in Ops
    /\ row.status # "cancelled"
    /\ \E amount \in Recorded :
         /\ row.paid_amount + amount <= row.total_amount
         /\ row' = [row EXCEPT !.paid_amount = @ + amount, !.manual_payments = @ + amount,
                               !.payment_status = PayStatus(row.paid_amount + amount,
                                                            row.total_amount)]
    /\ UNCHANGED <<bank, told, pc, obj>>

PatchRead(w) ==
    /\ "patch" \in Ops
    /\ pc[w] = "idle"
    /\ Goes(w, "patch", row)
    /\ UNCHANGED <<row, bank, told>>

\* AdminBookingUpdateSerializer.update: save() writes every column of the loaded
\* instance; when the price changed, payment_status follows it in a second save.
PatchSave(w) ==
    /\ pc[w] = "patch"
    /\ \/ row' = obj[w] /\ Ends(w)
       \/ \E total \in Prices :
            /\ total >= obj[w].paid_amount
            /\ row' = [obj[w] EXCEPT !.total_amount = total]
            /\ IF /\ row'.paid_amount > 0 /\ row'.payment_status \in PaidStatus \cup {"pending"}
                  /\ row'.payment_status # PayStatus(row'.paid_amount, total)
               THEN Goes(w, "repricing", row') ELSE Ends(w)
    /\ UNCHANGED <<bank, told>>

RepriceSave(w) ==
    /\ pc[w] = "repricing"
    /\ row' = [row EXCEPT !.payment_status = PayStatus(obj[w].paid_amount, obj[w].total_amount)]
    /\ Ends(w)
    /\ UNCHANGED <<bank, told>>

\* A worker dies.  Where it dies while process_webhook holds its transaction, a
\* refund already sent to the bank stays sent and the row is rolled back.
Crash(w) ==
    /\ "crash" \in Ops
    /\ pc[w] # "idle"
    /\ Ends(w)
    /\ UNCHANGED <<row, bank, told>>

CrashInWebhook ==
    /\ "crash" \in Ops /\ "callback" \in Ops
    /\ ~NotAsked /\ Receipt = "paid" /\ row.status = "cancelled"
    /\ Returns(bank.captured - bank.refunded)
    /\ UNCHANGED <<row, told, pc, obj>>

----------------------------------------------------------------------------

Init ==
    /\ row = [status |-> "pending", payment_status |-> "pending", paid_amount |-> 0,
              manual_payments |-> 0, total_amount |-> Total, bog_order_id |-> FALSE,
              payment_metadata |-> NoMetadata]
    /\ bank = [state |-> "none", captured |-> 0, refunded |-> 0, refunds |-> 0]
    /\ told = FALSE
    /\ pc = [w \in Workers |-> IF w = Creator THEN "ordering" ELSE "idle"]
    /\ obj = [w \in Workers |-> NoObj]

Order(w)    == OrderAtBank(w) \/ SaveOrder(w) \/ OrderFails(w)
Refund(w)   == RefundRead(w) \/ RefundCall(w) \/ RefundSave(w) \/ FlagRead(w)
               \/ FlagSave(w)
Progress(w) == Order(w) \/ Mail(w) \/ Refund(w) \/ StatusSave(w) \/ PatchSave(w)
               \/ RepriceSave(w)
Sweep       == SweepRead \/ (\E state \in Answers : SweepAsk(state)) \/ SweepCancel

Next ==
    \/ BankProcessing \/ BankSettles
    \/ \E w \in Worker :
         \/ Progress(w) \/ Callback(w) \/ PatchRead(w)
         \/ \E op \in {"client_cancel", "admin_cancel", "admin_cancel_no_refund"} : CancelBooking(w, op)
         \/ \E op \in StatusOps : StatusRead(w, op)
    \/ \E w \in Workers : Crash(w)
    \/ Poll \/ Sweep \/ RecordPayment \/ CrashInWebhook

Spec == Init /\ [][Next]_vars

\* A running handler goes on; the beat schedule runs the sweeper again and again,
\* its status queries do not fail for ever and it does not die at the same step
\* for ever; a BOG order settles in the end, and BOG repeats its notice of that
\* until it is answered with 200.
FairSpec ==
    /\ Spec
    /\ \A w \in Worker : WF_vars(Progress(w))
    /\ SF_vars(SweepRead) /\ SF_vars(SweepAsk(Receipt)) /\ SF_vars(SweepCancel)
    /\ WF_vars(BankSettles)
    /\ SF_vars(\E w \in Worker : ~told /\ Callback(w) /\ told')

----------------------------------------------------------------------------
(* Properties *)

TypeOK ==
    /\ row \in Row
    /\ bank \in Bank
    /\ told \in BOOLEAN
    /\ pc \in [Workers -> Control]
    /\ obj \in [Workers -> Row \cup {NoObj}]

\* The bank is asked to return money of a booking at most once, however the
\* cancels and the late callbacks interleave (initiate_refund).
RefundOnce == bank.refunds <= 1

\* Money the row shows is money the bank still holds or staff took by hand,
\* from the moment the row says refunded, and as long as nothing went back.
BooksBacked ==
    row.payment_status = "refunded" \/ bank.refunds = 0
        => row.paid_amount <= row.manual_payments + (bank.captured - bank.refunded)

\* A booking never shows more paid than it costs, although its price, the
\* payments staff record and the online payment are saved by different handlers.
PaidWithinTotal == row.paid_amount <= row.total_amount

\* Money that reached the bank for a cancelled booking goes back, or the row
\* tells staff to give it back.
CancelledMoneyReturned ==
    row.status = "cancelled" /\ bank.captured > 0
        ~> \/ bank.refunded > 0 \/ row.payment_metadata.refund # "none"
           \/ row.status # "cancelled"

\* A booking whose card payment never comes does not keep its slot.
UnpaidReleased == <>(row.status # "pending" \/ row.payment_status \in PaidStatus)

=============================================================================
