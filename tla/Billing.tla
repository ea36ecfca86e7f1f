------------------------------- MODULE Billing --------------------------------
(***************************************************************************)
(* The subscription of one tenant that Bank of Georgia (BOG) charges: the  *)
(* TenantSubscription row, the PaymentOrder and PaymentRetrySchedule rows, *)
(* Tenant.is_active, and the management commands and views that touch them.*)
(*                                                                         *)
(* Every command loads its rows once and works on the instances, across    *)
(* calls to the bank; `mem' holds them.  A save of an instance writes all  *)
(* its columns unless the code names some.  One step is one transaction,   *)
(* one save outside a transaction, or one call to the bank.                *)
(*                                                                         *)
(* Time counts days.  expires_at and next_billing_date are written         *)
(* together, always with one value, and are one column here.               *)
(***************************************************************************)
EXTENDS Integers, FiniteSets, Sequences

CONSTANTS
    Worker,          \* web and Celery workers
    NoMem,           \* an idle worker holds nothing
    OrderNo,         \* numbers of the PaymentOrders, handed out in order
    Batch,           \* rejections whose retries the table has room for
    Interval,        \* days a charge pays for
    RecentDays,      \* the recent-bill guard
    DaysBefore,      \* how early a renewal is charged
    GraceDays,       \* days past due before the tenant is suspended
    RetryAfter,      \* days from a rejection to its retries (three in the code)
    MaxAge,          \* reconciliation looks at orders this many days old
    FirstDue,        \* the first due day
    StartsInTrial,   \* the subscription begins as a trial that ends that day
    MaxDay,          \* bound: the last day
    Handles,         \* the commands and views each worker runs
    Events           \* what else occurs: the customer pays, the bank fails, workers die

Handler == {"renew", "retry", "reconcile", "status", "trial", "callback", "cancel", "remove_card"}

ASSUME KeyAssumption ==
    /\ OrderNo \subseteq Nat \ {0} /\ IsFiniteSet(OrderNo)
    /\ Batch \subseteq Nat \ {0} /\ IsFiniteSet(Batch)
    /\ NoMem \notin Worker
ASSUME DayAssumption ==
    /\ {Interval, RecentDays, DaysBefore, GraceDays, MaxAge, FirstDue, MaxDay} \subseteq Nat
    /\ RetryAfter \in Seq(Nat) /\ RetryAfter # << >>
    /\ RecentDays + DaysBefore < Interval
    /\ StartsInTrial \in BOOLEAN
    /\ Handles \in [Worker -> SUBSET Handler]
    /\ Events \subseteq {"reactivate", "retry_settles", "refund", "bank_error", "late_answer", "crash"}

VARIABLES
    now,      \* today
    sub,      \* the TenantSubscription row
    tenant,   \* Tenant.is_active
    order,    \* the PaymentOrder rows
    retry,    \* the PaymentRetrySchedule rows, a batch to a rejection
    bank,     \* the charges at BOG, by external order id
    lock,     \* the cache key of a renewal run is set
    pc, mem   \* where each worker is, and the rows it loaded

vars == <<now, sub, tenant, order, retry, bank, lock, pc, mem>>

\* External order ids: <<n, 0>> an order (REC-, REACT-, TRIAL-CONV-), <<b, i>> the
\* i-th retry of a batch (RETRY-).
Order == OrderNo \X {0}
RetryKey == Batch \X DOMAIN RetryAfter
NoKey == <<0, 0>>
Charge == Order \cup RetryKey

Never == -RecentDays - 1     \* last_billed_at of a subscription never billed: NULL

Sub == [is_active : BOOLEAN, next_billing_date : Nat, last_billed_at : Nat \cup {Never},
        parent_order_id : BOOLEAN, is_trial : BOOLEAN]
OrderRow == [status : {"none", "pending", "processing", "paid", "failed", "cancelled"},
             type : {"none", "recurring", "reactivation", "trial_conversion"}, created_at : Nat]
RetryRow == [status : {"none", "pending", "executing", "skipped", "failed", "cancelled"},
             payment_order : Order \cup {NoKey}, scheduled_for : Nat]
BankState == {"none", "processing", "completed", "rejected", "refunded"}

Control == {"idle", "renew", "renew_row", "extend", "rejected", "retry", "retry_charge", "retry_failed",
            "retry_suspend", "settle", "refuse", "status_tenant", "status_sub", "trial", "trial_row",
            "trial_save", "trial_stop", "cancel", "remove_card"}

----------------------------------------------------------------------------
(* Workers, keys, the bank *)

\* What a worker holds: the subscription, an order or a retry, retries to come.
Holds(s, k, due) == [sub |-> s, key |-> k, due |-> due]

Goes(w, where, m) ==
    /\ pc' = [pc EXCEPT ![w] = where]
    /\ mem' = [mem EXCEPT ![w] = m]

Ends(w) == Goes(w, "idle", NoMem)

NextKey(o) ==
    /\ bank[o] = "none" /\ order[o].status = "none"
    /\ \A p \in Order : bank[p] = "none" /\ order[p].status = "none" => o[1] <= p[1]

\* Bound: when the keys have run out, a charge ends the way it does when it raises.
OutOfKeys == \A o \in Order : ~NextKey(o)

\* The bank takes the charge of an external order id, or the call raises: before
\* the bank took it, or after (the answer is late or unreadable).
Taken(c) == bank' = [bank EXCEPT ![c] = "processing"]
Raises(c) ==
    \/ "bank_error" \in Events /\ UNCHANGED bank
    \/ "late_answer" \in Events /\ Taken(c)

\* The outcome of a retry is known to the bank alone: its notice is answered 404 and
\* no order row with its id exists to ask about.
BankSettles ==
    \E c \in Charge :
        /\ c \in Order \/ "retry_settles" \in Events
        /\ \/ bank[c] = "processing" /\ \E s \in {"completed", "rejected"} : bank' = [bank EXCEPT ![c] = s]
           \/ bank[c] = "completed" /\ "refund" \in Events /\ bank' = [bank EXCEPT ![c] = "refunded"]
        /\ UNCHANGED <<now, sub, tenant, order, retry, lock, pc, mem>>

Tick ==
    /\ now < MaxDay
    /\ now' = now + 1
    /\ UNCHANGED <<sub, tenant, order, retry, bank, lock, pc, mem>>

----------------------------------------------------------------------------
(* process_recurring_payments *)

\* Mutant: the run lock forgotten.
RenewLoad_NoLock(w) ==
    /\ "renew" \in Handles[w] /\ pc[w] = "idle"
    /\ sub.is_active /\ tenant /\ sub.next_billing_date <= now + DaysBefore
    /\ sub.last_billed_at < now - RecentDays
    /\ Goes(w, "renew", Holds(sub, NoKey, {}))
    /\ UNCHANGED <<now, sub, tenant, order, retry, bank, lock>>

\* cache.add takes the lock; the query finds the subscription to renew.  A run
\* that finds none releases the lock at once.
RenewLoad(w) ==
    /\ "renew" \in Handles[w] /\ pc[w] = "idle" /\ ~lock
    /\ sub.is_active /\ tenant /\ sub.next_billing_date <= now + DaysBefore
    /\ sub.last_billed_at < now - RecentDays
    /\ lock' = TRUE
    /\ Goes(w, "renew", Holds(sub, NoKey, {}))
    /\ UNCHANGED <<now, sub, tenant, order, retry, bank>>

\* A recurring order of the last days that neither failed nor was cancelled.
recent_charge ==
    \E o \in Order :
        /\ order[o].type = "recurring"
        /\ order[o].created_at >= now - RecentDays
        /\ order[o].status \notin {"failed", "cancelled"}

RenewSkip(w) ==
    /\ pc[w] = "renew"
    /\ ~mem[w].sub.parent_order_id \/ recent_charge
    /\ lock' = FALSE
    /\ Ends(w)
    /\ UNCHANGED <<now, sub, tenant, order, retry, bank>>

RenewCharge(w) ==
    /\ pc[w] = "renew" /\ mem[w].sub.parent_order_id /\ ~recent_charge
    /\ \/ \E o \in Order :
            /\ NextKey(o)
            /\ \/ Taken(o) /\ Goes(w, "renew_row", Holds(NoMem, o, {})) /\ UNCHANGED lock
               \/ Raises(o) /\ lock' = FALSE /\ Ends(w)
       \/ OutOfKeys /\ lock' = FALSE /\ Ends(w) /\ UNCHANGED bank
    /\ UNCHANGED <<now, sub, tenant, order, retry>>

RenewRow(w) ==
    /\ pc[w] = "renew_row"
    /\ order' = [order EXCEPT ![mem[w].key] =
                    [status |-> "pending", type |-> "recurring", created_at |-> now]]
    /\ lock' = FALSE
    /\ Ends(w)
    /\ UNCHANGED <<now, sub, tenant, retry, bank>>

\* The key expires an hour after a run died; a task lives ten minutes at most.
LockExpires ==
    /\ lock /\ \A w \in Worker : pc[w] \notin {"renew", "renew_row"}
    /\ lock' = FALSE
    /\ UNCHANGED <<now, sub, tenant, order, retry, bank, pc, mem>>

----------------------------------------------------------------------------
(* bog_webhook *)

\* One interval after the due day, and on until it lies in the future.
Advanced(s) ==
    s.next_billing_date + Interval *
        (IF s.next_billing_date + Interval > now THEN 1
         ELSE ((now - s.next_billing_date) \div Interval) + 1)

Billed(s, day) == [s EXCEPT !.last_billed_at = now, !.next_billing_date = day]

\* Mutant: the callback does not look whether the order was paid before.
Completed_Again(w, o) ==
    /\ "callback" \in Handles[w] /\ pc[w] = "idle"
    /\ bank[o] = "completed" /\ order[o].status # "none"
    /\ order' = [order EXCEPT ![o].status = "paid"]
    /\ Goes(w, "extend", Holds(NoMem, o, {}))
    /\ UNCHANGED <<now, sub, tenant, retry, bank, lock>>

\* The notice of a completed charge, confirmed by asking the bank: the order is
\* marked paid in a transaction of its own.  An unknown order (a renewal whose row
\* is not there yet, every retry) is answered 404, a paid one 200; neither
\* changes anything.
Completed(w, o) ==
    /\ "callback" \in Handles[w] /\ pc[w] = "idle"
    /\ bank[o] = "completed" /\ order[o].status \notin {"none", "paid"}
    /\ order' = [order EXCEPT ![o].status = "paid"]
    /\ Goes(w, "extend", Holds(NoMem, o, {}))
    /\ UNCHANGED <<now, sub, tenant, retry, bank, lock>>

\* The subscription is extended in a later transaction.  For a trial conversion
\* the view raises and nothing more is saved.
Extend(w) ==
    /\ pc[w] = "extend"
    /\ LET o == mem[w].key IN
       \/ /\ order[o].type = "recurring"
          /\ sub' = Billed(sub, Advanced(sub))
       \/ /\ order[o].type = "reactivation"
          /\ \E saved \in BOOLEAN :
                sub' = [Billed(sub, now + Interval) EXCEPT
                            !.is_active = TRUE, !.parent_order_id = @ \/ saved]
       \/ order[o].type = "trial_conversion" /\ UNCHANGED sub
    /\ Ends(w)
    /\ UNCHANGED <<now, tenant, order, retry, bank, lock>>

\* The notice of a rejected charge: the order fails, then the retries are
\* scheduled one row at a time when a card is saved.
Rejected(w, o) ==
    /\ "callback" \in Handles[w] /\ pc[w] = "idle"
    /\ bank[o] = "rejected" /\ order[o].status # "none"
    /\ order' = [order EXCEPT ![o].status = "failed"]
    /\ Goes(w, "rejected", Holds(NoMem, o, {}))
    /\ UNCHANGED <<now, sub, tenant, retry, bank, lock>>

FreeBatch(b) ==
    /\ retry[<<b, 1>>].status = "none"
    /\ \A c \in Batch : c < b => retry[<<c, 1>>].status # "none"

\* Bound: a rejection that finds the table full schedules nothing.
schedule_payment_retries(w) ==
    /\ pc[w] = "rejected" /\ sub.parent_order_id
    /\ \/ \E b \in Batch, n \in DOMAIN RetryAfter :
            /\ FreeBatch(b)
            /\ n = Len(RetryAfter) \/ "crash" \in Events
            /\ retry' = [k \in RetryKey |->
                            IF k[1] = b /\ k[2] <= n
                            THEN [status |-> "pending", payment_order |-> mem[w].key,
                                  scheduled_for |-> now + RetryAfter[k[2]]]
                            ELSE retry[k]]
       \/ (\A b \in Batch : ~FreeBatch(b)) /\ UNCHANGED retry
    /\ Ends(w)
    /\ UNCHANGED <<now, sub, tenant, order, bank, lock>>

NoCardToRetry(w) ==
    /\ pc[w] = "rejected" /\ ~sub.parent_order_id
    /\ Ends(w)
    /\ UNCHANGED <<now, sub, tenant, order, retry, bank, lock>>

----------------------------------------------------------------------------
(* process_payment_retries and execute_retry *)

Saved(k, status) == retry' = [retry EXCEPT ![k].status = status]

RetryLoad(w) ==
    /\ "retry" \in Handles[w] /\ pc[w] = "idle"
    /\ LET due == {k \in RetryKey : retry[k].status = "pending" /\ retry[k].scheduled_for <= now}
       IN  due # {} /\ Goes(w, "retry", Holds(sub, NoKey, due))
    /\ UNCHANGED <<now, sub, tenant, order, retry, bank, lock>>

\* The loop takes the rows it loaded in the order they were due.
RetryMark(w) ==
    /\ pc[w] = "retry"
    /\ \E k \in mem[w].due :
        /\ \A j \in mem[w].due : retry[k].scheduled_for <= retry[j].scheduled_for
        /\ Saved(k, "executing")
        /\ Goes(w, "retry_charge", Holds(mem[w].sub, k, mem[w].due \ {k}))
    /\ UNCHANGED <<now, sub, tenant, order, bank, lock>>

RetryDone(w) ==
    /\ pc[w] = "retry" /\ mem[w].due = {}
    /\ Ends(w)
    /\ UNCHANGED <<now, sub, tenant, order, retry, bank, lock>>

\* The guard reads the subscription as the command loaded it.
RetrySkip(w) ==
    /\ pc[w] = "retry_charge" /\ mem[w].sub.next_billing_date > now
    /\ Saved(mem[w].key, "skipped")
    /\ Goes(w, "retry_failed", mem[w])
    /\ UNCHANGED <<now, sub, tenant, order, bank, lock>>

\* A charge the bank took leaves the row "executing".
RetryCharge(w) ==
    /\ pc[w] = "retry_charge" /\ mem[w].sub.next_billing_date <= now
    /\ LET k == mem[w].key IN
       \/ Taken(k) /\ Goes(w, "retry", mem[w]) /\ UNCHANGED retry
       \/ Raises(k) /\ Saved(k, "failed") /\ Goes(w, "retry_failed", mem[w])
    /\ UNCHANGED <<now, sub, tenant, order, lock>>

LastRetry(k) == \A j \in RetryKey : retry[j].status = "pending" => j[2] <= k[2]

RetryNotLast(w) ==
    /\ pc[w] = "retry_failed" /\ ~LastRetry(mem[w].key)
    /\ Goes(w, "retry", mem[w])
    /\ UNCHANGED <<now, sub, tenant, order, retry, bank, lock>>

\* suspend_subscription_for_payment_failure: the loaded instance is saved whole,
\* then the tenant.
SuspendSub(w) ==
    /\ pc[w] = "retry_failed" /\ LastRetry(mem[w].key)
    /\ sub' = [mem[w].sub EXCEPT !.is_active = FALSE]
    /\ Goes(w, "retry_suspend", mem[w])
    /\ UNCHANGED <<now, tenant, order, retry, bank, lock>>

SuspendTenant(w) ==
    /\ pc[w] = "retry_suspend"
    /\ tenant' = FALSE
    /\ Goes(w, "retry", mem[w])
    /\ UNCHANGED <<now, sub, order, retry, bank, lock>>

----------------------------------------------------------------------------
(* reconcile_pending_payments *)

\* A pending renewal order of the last two weeks; the bank is asked about it.
ReconcileAsk(w, o) ==
    /\ "reconcile" \in Handles[w] /\ pc[w] = "idle"
    /\ order[o].status = "pending" /\ order[o].type = "recurring"
    /\ order[o].created_at >= now - MaxAge
    /\ \/ bank[o] = "completed" /\ Goes(w, "settle", Holds(NoMem, o, {}))
       \/ bank[o] \in {"rejected", "refunded"} /\ Goes(w, "refuse", Holds(NoMem, o, {}))
    /\ UNCHANGED <<now, sub, tenant, order, retry, bank, lock>>

\* _settle_paid, under the locks of the order and the subscription.
_settle_paid(w) ==
    /\ pc[w] = "settle"
    /\ LET o == mem[w].key IN
       \/ order[o].status = "paid" /\ UNCHANGED <<sub, order, retry>>
       \/ /\ order[o].status # "paid"
          /\ order' = [order EXCEPT ![o].status = "paid"]
          /\ sub' = IF sub.next_billing_date > now THEN sub ELSE Billed(sub, Advanced(sub))
          /\ retry' = [k \in RetryKey |-> IF retry[k].status = "pending"
                                          THEN [retry[k] EXCEPT !.status = "cancelled"] ELSE retry[k]]
    /\ Ends(w)
    /\ UNCHANGED <<now, tenant, bank, lock>>

\* Mutant: the bank's word saved as it is.
ReconcileRefuse_Raw(w) ==
    /\ pc[w] = "refuse"
    /\ order' = [order EXCEPT ![mem[w].key].status = bank[mem[w].key]]
    /\ Ends(w)
    /\ UNCHANGED <<now, sub, tenant, retry, bank, lock>>

ReconcileRefuse(w) ==
    /\ pc[w] = "refuse"
    /\ order' = [order EXCEPT ![mem[w].key].status =
                    IF bank[mem[w].key] = "rejected" THEN "failed" ELSE "cancelled"]
    /\ Ends(w)
    /\ UNCHANGED <<now, sub, tenant, retry, bank, lock>>

----------------------------------------------------------------------------
(* check_subscription_status *)

PastGrace(s) == s.next_billing_date < now - GraceDays

\* Mutant: only the day the grace period ends is looked at.
StatusLoad_OnTheDay(w) ==
    /\ "status" \in Handles[w] /\ pc[w] = "idle"
    /\ sub.is_active /\ tenant /\ sub.next_billing_date = now - GraceDays - 1
    /\ Goes(w, "status_tenant", Holds(sub, NoKey, {}))
    /\ UNCHANGED <<now, sub, tenant, order, retry, bank, lock>>

StatusLoad(w) ==
    /\ "status" \in Handles[w] /\ pc[w] = "idle"
    /\ sub.is_active /\ tenant /\ PastGrace(sub)
    /\ Goes(w, "status_tenant", Holds(sub, NoKey, {}))
    /\ UNCHANGED <<now, sub, tenant, order, retry, bank, lock>>

StatusTenant(w) ==
    /\ pc[w] = "status_tenant"
    /\ tenant' = FALSE
    /\ Goes(w, "status_sub", mem[w])
    /\ UNCHANGED <<now, sub, order, retry, bank, lock>>

StatusSub(w) ==
    /\ pc[w] = "status_sub"
    /\ sub' = [mem[w].sub EXCEPT !.is_active = FALSE]
    /\ Ends(w)
    /\ UNCHANGED <<now, tenant, order, retry, bank, lock>>

----------------------------------------------------------------------------
(* process_trial_expirations *)

TrialLoad(w) ==
    /\ "trial" \in Handles[w] /\ pc[w] = "idle"
    /\ sub.is_trial /\ sub.is_active /\ FirstDue <= now
    /\ Goes(w, "trial", Holds(sub, NoKey, {}))
    /\ UNCHANGED <<now, sub, tenant, order, retry, bank, lock>>

TrialCharge(w) ==
    /\ pc[w] = "trial"
    /\ \/ /\ ~mem[w].sub.parent_order_id \/ OutOfKeys
          /\ Goes(w, "trial_stop", mem[w])
          /\ UNCHANGED bank
       \/ /\ mem[w].sub.parent_order_id
          /\ \E o \in Order :
              /\ NextKey(o)
              /\ \/ Taken(o) /\ Goes(w, "trial_row", [mem[w] EXCEPT !.key = o])
                 \/ Raises(o) /\ Goes(w, "trial_stop", mem[w])
    /\ UNCHANGED <<now, sub, tenant, order, retry, lock>>

TrialRow(w) ==
    /\ pc[w] = "trial_row"
    /\ order' = [order EXCEPT ![mem[w].key] =
                    [status |-> "processing", type |-> "trial_conversion", created_at |-> now]]
    /\ Goes(w, "trial_save", mem[w])
    /\ UNCHANGED <<now, sub, tenant, retry, bank, lock>>

TrialSave(w) ==
    /\ \/ /\ pc[w] = "trial_save"
          /\ sub' = [Billed(mem[w].sub, now + Interval) EXCEPT !.is_trial = FALSE]
       \/ /\ pc[w] = "trial_stop"
          /\ sub' = [mem[w].sub EXCEPT !.is_active = FALSE]
    /\ Ends(w)
    /\ UNCHANGED <<now, tenant, order, retry, bank, lock>>

----------------------------------------------------------------------------
(* The tenant's billing page *)

\* cancel_subscription and the removal of the last card load the row and save
\* all of it.
PageLoad(w) ==
    /\ pc[w] = "idle"
    /\ \/ "cancel" \in Handles[w] /\ sub.is_active /\ Goes(w, "cancel", Holds(sub, NoKey, {}))
       \/ "remove_card" \in Handles[w] /\ sub.parent_order_id /\ Goes(w, "remove_card", Holds(sub, NoKey, {}))
    /\ UNCHANGED <<now, sub, tenant, order, retry, bank, lock>>

PageSave(w) ==
    /\ \/ pc[w] = "cancel" /\ sub' = [mem[w].sub EXCEPT !.is_active = FALSE]
       \/ pc[w] = "remove_card" /\ sub' = [mem[w].sub EXCEPT !.parent_order_id = FALSE]
    /\ Ends(w)
    /\ UNCHANGED <<now, tenant, order, retry, bank, lock>>

\* An order the customer pays on the bank's page; it is saved before the customer
\* gets the link.
reactivate_subscription_payment ==
    /\ "reactivate" \in Events
    /\ \E o \in Order :
        /\ NextKey(o)
        /\ Taken(o)
        /\ order' = [order EXCEPT ![o] =
                        [status |-> "pending", type |-> "reactivation", created_at |-> now]]
    /\ UNCHANGED <<now, sub, tenant, retry, lock, pc, mem>>

----------------------------------------------------------------------------

\* A worker dies between two steps; the lock of a renewal run stays.
Crash(w) ==
    /\ "crash" \in Events /\ pc[w] # "idle"
    /\ Ends(w)
    /\ UNCHANGED <<now, sub, tenant, order, retry, bank, lock>>

Init ==
    /\ now = 0
    /\ sub = [is_active |-> TRUE, next_billing_date |-> FirstDue, last_billed_at |-> Never,
              parent_order_id |-> TRUE, is_trial |-> StartsInTrial]
    /\ tenant = TRUE
    /\ order = [o \in Order |-> [status |-> "none", type |-> "none", created_at |-> 0]]
    /\ retry = [k \in RetryKey |-> [status |-> "none", payment_order |-> NoKey, scheduled_for |-> 0]]
    /\ bank = [c \in Charge |-> "none"]
    /\ lock = FALSE
    /\ pc = [w \in Worker |-> "idle"]
    /\ mem = [w \in Worker |-> NoMem]

Begin(w) ==
    \/ RenewLoad(w) \/ RetryLoad(w) \/ StatusLoad(w) \/ TrialLoad(w) \/ PageLoad(w)
    \/ \E o \in Order : Completed(w, o) \/ Rejected(w, o) \/ ReconcileAsk(w, o)

Continue(w) ==
    \/ RenewSkip(w) \/ RenewCharge(w) \/ RenewRow(w)
    \/ Extend(w) \/ schedule_payment_retries(w) \/ NoCardToRetry(w)
    \/ RetryMark(w) \/ RetryDone(w) \/ RetrySkip(w) \/ RetryCharge(w) \/ RetryNotLast(w)
    \/ SuspendSub(w) \/ SuspendTenant(w)
    \/ _settle_paid(w) \/ ReconcileRefuse(w)
    \/ StatusTenant(w) \/ StatusSub(w)
    \/ TrialCharge(w) \/ TrialRow(w) \/ TrialSave(w) \/ PageSave(w)

Next ==
    \/ Tick \/ LockExpires \/ BankSettles \/ reactivate_subscription_payment
    \/ \E w \in Worker : Begin(w) \/ Continue(w) \/ Crash(w)

Spec == Init /\ [][Next]_vars

\* A worker goes on with what it began, and beat starts the status check every
\* night: a crash delays it to another night.
FairSpec ==
    /\ Spec
    /\ \A w \in Worker : WF_vars(Continue(w))
    /\ SF_vars(\E w \in Worker : StatusLoad(w))
    /\ \A w \in Worker : SF_vars(StatusTenant(w))

----------------------------------------------------------------------------
(* Properties *)

\* What a worker holds at its place: the subscription as loaded, an order, a retry.
WithSub == {"renew", "retry", "retry_charge", "retry_failed", "retry_suspend", "status_tenant", "status_sub",
            "trial", "trial_row", "trial_save", "trial_stop", "cancel", "remove_card"}
WithOrder == {"renew_row", "extend", "rejected", "settle", "refuse", "trial_row", "trial_save"}
WithRetry == {"retry_charge", "retry_failed", "retry_suspend"}
Held == [sub : Sub \cup {NoMem}, key : Charge \cup {NoKey}, due : SUBSET RetryKey]

\* The columns keep their types, and a worker has loaded what it is about to save or charge.
TypeOK ==
    /\ now \in 0 .. MaxDay /\ sub \in Sub /\ tenant \in BOOLEAN /\ lock \in BOOLEAN
    /\ order \in [Order -> OrderRow]
    /\ retry \in [RetryKey -> RetryRow]
    /\ bank \in [Charge -> BankState]
    /\ pc \in [Worker -> Control] /\ DOMAIN mem = Worker
    /\ \A w \in Worker :
        /\ IF pc[w] = "idle" THEN mem[w] = NoMem ELSE mem[w] \in Held
        /\ pc[w] \in WithSub => mem[w].sub \in Sub
        /\ pc[w] \in WithOrder => mem[w].key \in Order
        /\ pc[w] \in WithRetry => mem[w].key \in RetryKey

\* Two renewals on record that both took money lie more than RecentDays apart,
\* though callbacks are late or lost, two runs overlap and workers die: the run
\* lock and the recent-charge guard of process_recurring_payments together.
RenewedOnce ==
    \A o, p \in Order :
        /\ o # p /\ order[o].type = "recurring" /\ order[p].type = "recurring"
        /\ bank[o] = "completed" /\ bank[p] = "completed"
        => order[o].created_at - order[p].created_at \notin -RecentDays .. RecentDays

\* The charges that may have paid for a period: a trial is converted when its charge
\* is sent, the others count once the bank has completed them.
Counted == {o \in Order : bank[o] \in {"completed", "refunded"} \/ order[o].type = "trial_conversion"}

\* A payment extends the subscription once, whether the callback, its repetition
\* or the reconciliation gets to it first, and no stale save adds a period.
NeverAhead ==
    sub.next_billing_date <= (IF FirstDue > now THEN FirstDue ELSE now) + Interval * Cardinality(Counted)

Overdue == sub.is_active /\ tenant /\ PastGrace(sub)

\* A subscription left unpaid past its grace period is suspended, cancelled or paid
\* in the end, although the nightly check_subscription_status may die in the
\* middle or miss a night.
OverdueEnds == Overdue ~> ~Overdue

\* execute_retry: "a pending retry must NOT fire a second charge" for a period that
\* is already paid.
RetryOnlyUnpaid ==
    [][\A k \in RetryKey :
          bank[k] = "none" /\ bank'[k] = "processing"
          => \A c \in {retry[k].payment_order} \cup
                      {j \in RetryKey : retry[j].payment_order = retry[k].payment_order} :
                bank[c] # "completed"]_vars

============================================================================
