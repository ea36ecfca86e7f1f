----------------------------- MODULE BillingProofs -----------------------------
(***************************************************************************)
(* Proofs about Billing, for any number of workers, orders and retries,    *)
(* any intervals and whatever events occur.                                *)
(***************************************************************************)
EXTENDS Billing, FiniteSetTheorems, TLAPS

----------------------------------------------------------------------------
(* The inductive invariants *)

\* A charge that will never be, or no longer is, a payment.
Over == {"rejected", "refunded"}

\* An order that failed or was cancelled is over at the bank, and so is one about to be.
OverAtBank ==
    /\ \A o \in Order : order[o].status = "failed" => bank[o] = "rejected"
    /\ \A o \in Order : order[o].status = "cancelled" => bank[o] = "refunded"
    /\ \A w \in Worker : pc[w] = "refuse" => bank[mem[w].key] \in Over

\* One renewal run at a time, and it has the lock.
Renewing == {"renew", "renew_row"}

OneRun ==
    /\ \A w \in Worker : pc[w] \in Renewing => lock
    /\ \A v, w \in Worker : pc[v] \in Renewing /\ pc[w] \in Renewing => v = w

Renewal(o) == order[o].type = "recurring" /\ bank[o] \notin Over

\* The renewal whose row is about to be written, and those on record, lie apart: also
\* the ones the bank has not settled.
RowApart ==
    \A w \in Worker : pc[w] = "renew_row" =>
        \A o \in Order : Renewal(o) => order[o].created_at < now - RecentDays

RowsApart ==
    \A o, p \in Order :
        o # p /\ Renewal(o) /\ Renewal(p)
        => order[o].created_at - order[p].created_at \notin -RecentDays .. RecentDays

RenewInv == TypeOK /\ OverAtBank /\ OneRun /\ RowApart /\ RowsApart

\* A row about to be written is new, and no two workers write the same one.
Recording == {"renew_row", "trial_row"}

NewRows ==
    /\ \A o \in Order : order[o].status = "none" => order[o].type = "none"
    /\ \A w \in Worker : pc[w] \in Recording => order[mem[w].key].status = "none" /\ bank[mem[w].key] # "none"
    /\ \A v, w \in Worker : pc[v] \in Recording /\ pc[w] \in Recording /\ mem[v].key = mem[w].key => v = w
    /\ \A w \in Worker : pc[w] = "trial_save" => order[mem[w].key].type = "trial_conversion"
    /\ \A w \in Worker : pc[w] \in {"settle", "refuse"} => order[mem[w].key].status # "none"

\* A paid order took money, one worker at most extends the subscription for it, and
\* nobody is about to mark it unpaid.
PaidOnce ==
    /\ \A o \in Order : order[o].status = "paid" => bank[o] \in {"completed", "refunded"}
    /\ \A w \in Worker : pc[w] = "settle" => bank[mem[w].key] \in {"completed", "refunded"}
    /\ \A w \in Worker : pc[w] = "extend" => order[mem[w].key].status = "paid"
    /\ \A v, w \in Worker : pc[v] = "extend" /\ pc[w] \in {"extend", "refuse"} /\ mem[v].key = mem[w].key => v = w

\* The payments whose callback may still extend the subscription, and the others.
Extending(o) == \E w \in Worker : pc[w] = "extend" /\ mem[w].key = o

Open ==
    {o \in Order : /\ order[o].type # "trial_conversion"
                   /\ (bank[o] = "completed" /\ order[o].status # "paid") \/ Extending(o)}

Applied == Counted \ Open

Latest == (IF FirstDue > now THEN FirstDue ELSE now) + Interval * Cardinality(Applied)

\* The row and every copy of it a worker may save.
WithinLatest ==
    /\ sub.next_billing_date <= Latest
    /\ \A w \in Worker : pc[w] \in WithSub => mem[w].sub.next_billing_date <= Latest

AheadInv == TypeOK /\ OverAtBank /\ NewRows /\ PaidOnce /\ WithinLatest

----------------------------------------------------------------------------
(* The due day *)

LEMMA DayTypes ==
    /\ Interval \in Nat \ {0} /\ RecentDays \in Nat /\ DaysBefore \in Nat /\ GraceDays \in Nat
    /\ FirstDue \in Nat /\ MaxDay \in Nat /\ 0 \in 0 .. MaxDay
BY DayAssumption

LEMMA Multiples ==
    ASSUME NEW n \in Nat \ {0}, NEW a \in Nat, NEW b \in Nat, a <= b
    PROVE  n * a \in Nat /\ n * a <= n * b /\ n * (a + 1) = n * a + n
OBVIOUS

LEMMA WholeIntervals ==
    ASSUME NEW n \in Nat \ {0}, NEW days \in Nat
    PROVE  days \div n \in Nat /\ n * (days \div n) <= days
OBVIOUS

\* A renewal adds one interval to a due day in the future, and otherwise leads to a day
\* at most one interval from today.
LEMMA AdvancedBound ==
    ASSUME now \in Nat, NEW s, s.next_billing_date \in Nat
    PROVE  /\ Advanced(s) \in Nat
           /\ \/ Advanced(s) = s.next_billing_date + Interval
              \/ Advanced(s) <= now + Interval
<1> DEFINE d == s.next_billing_date
           n == (now - d) \div Interval
<1>0. d \in Nat /\ now \in Nat /\ Interval \in Nat \ {0}
  BY DayTypes
<1>1. CASE d + Interval > now
  <2>1. Advanced(s) = d + Interval * 1
    BY <1>1 DEF Advanced
  <2> HIDE DEF d
  <2>2. Interval * 1 = Interval
    BY <1>0
  <2>3. Advanced(s) = d + Interval /\ Advanced(s) \in Nat
    BY <1>0, <2>1, <2>2
  <2> QED
    BY <2>3 DEF d
<1>2. CASE ~(d + Interval > now)
  <2>1. Advanced(s) = d + Interval * (n + 1)
    BY <1>2 DEF Advanced
  <2>2. now - d \in Nat
    BY <1>0, <1>2
  <2>3. n \in Nat /\ Interval * n <= now - d
    BY <1>0, <2>2, WholeIntervals
  <2> HIDE DEF n, d
  <2>4. Interval * n \in Nat /\ Interval * (n + 1) = Interval * n + Interval
    BY <1>0, <2>3, Multiples
  <2>5. Advanced(s) <= now + Interval /\ Advanced(s) \in Nat
    BY <1>0, <2>1, <2>3, <2>4
  <2> QED
    BY <2>5
<1> QED
  BY <1>1, <1>2

----------------------------------------------------------------------------
(* Type correctness *)

Tables ==
    /\ now \in 0 .. MaxDay /\ sub \in Sub /\ tenant \in BOOLEAN /\ lock \in BOOLEAN
    /\ order \in [Order -> OrderRow]
    /\ retry \in [RetryKey -> RetryRow]
    /\ bank \in [Charge -> BankState]

Placed(w) ==
    /\ IF pc[w] = "idle" THEN mem[w] = NoMem ELSE mem[w] \in Held
    /\ pc[w] \in WithSub => mem[w].sub \in Sub
    /\ pc[w] \in WithOrder => mem[w].key \in Order
    /\ pc[w] \in WithRetry => mem[w].key \in RetryKey

Frame == pc \in [Worker -> Control] /\ DOMAIN mem = Worker

LEMMA TypeParts == TypeOK <=> Tables /\ Frame /\ \A w \in Worker : Placed(w)
BY DEF TypeOK, Tables, Frame, Placed

\* A worker that moves holds m at its new place, and the others stay.
Moves(w, where, m) ==
    /\ pc'[w] = where /\ mem'[w] = m
    /\ \A v \in Worker \ {w} : pc'[v] = pc[v] /\ mem'[v] = mem[v]

LEMMA GoesMoves ==
    ASSUME TypeOK, NEW w \in Worker, NEW where, NEW m, Goes(w, where, m)
    PROVE  Moves(w, where, m)
BY DEF TypeOK, Goes, Moves

\* What a worker may hold where.
Fits(where, m) ==
    /\ where \in Control
    /\ IF where = "idle" THEN m = NoMem ELSE m \in Held
    /\ where \in WithSub => m.sub \in Sub
    /\ where \in WithOrder => m.key \in Order
    /\ where \in WithRetry => m.key \in RetryKey

LEMMA GoesTyped ==
    ASSUME TypeOK, Tables', NEW w \in Worker, NEW where, NEW m, Goes(w, where, m), Fits(where, m)
    PROVE  TypeOK'
<1>1. Moves(w, where, m)
  BY GoesMoves
<1>2. pc' \in [Worker -> Control] /\ DOMAIN mem' = Worker
  BY DEF TypeOK, Goes, Fits
<1>3. ASSUME NEW v \in Worker PROVE Placed(v)'
  <2>1. CASE v = w
    BY <1>1, <2>1 DEF Moves, Fits, Placed
  <2>2. CASE v # w
    BY <1>1, <2>2, TypeParts DEF Moves, Placed
  <2> QED
    BY <2>1, <2>2
<1> QED
  BY <1>2, <1>3 DEF TypeOK, Tables, Placed

LEMMA EndsTyped ==
    ASSUME TypeOK, Tables', NEW w \in Worker, Ends(w)
    PROVE  TypeOK'
<1>1. Fits("idle", NoMem)
  BY DEF Fits, Control, WithSub, WithOrder, WithRetry
<1> QED
  BY <1>1, GoesTyped DEF Ends

LEMMA StaysTyped ==
    ASSUME TypeOK, Tables', pc' = pc, mem' = mem
    PROVE  TypeOK'
BY DEF TypeOK, Tables

LEMMA HoldsType ==
    ASSUME NEW s \in Sub \cup {NoMem}, NEW k \in Charge \cup {NoKey}, NEW due \in SUBSET RetryKey
    PROVE  /\ Holds(s, k, due) \in Held
           /\ Holds(s, k, due).sub = s /\ Holds(s, k, due).key = k /\ Holds(s, k, due).due = due
BY DEF Holds, Held

\* The subscription as loaded.
LEMMA LoadsTyped ==
    ASSUME TypeOK, Tables', NEW w \in Worker,
           NEW where \in {"renew", "retry", "status_tenant", "trial", "cancel", "remove_card"},
           NEW due \in SUBSET RetryKey, Goes(w, where, Holds(sub, NoKey, due))
    PROVE  TypeOK'
<1>1. sub \in Sub
  BY DEF TypeOK
<1>2. Holds(sub, NoKey, due) \in Held /\ Holds(sub, NoKey, due).sub = sub
  BY <1>1, HoldsType
<1>3. Fits(where, Holds(sub, NoKey, due))
  BY <1>1, <1>2 DEF Fits, Control, WithSub, WithOrder, WithRetry
<1> QED
  BY <1>3, GoesTyped

\* An order as found.
LEMMA FindsTyped ==
    ASSUME TypeOK, Tables', NEW w \in Worker, NEW where \in {"renew_row", "extend", "rejected", "settle", "refuse"},
           NEW o \in Order, Goes(w, where, Holds(NoMem, o, {}))
    PROVE  TypeOK'
<1>1. Holds(NoMem, o, {}) \in Held /\ Holds(NoMem, o, {}).key = o
  BY HoldsType DEF Charge
<1>2. Fits(where, Holds(NoMem, o, {}))
  BY <1>1 DEF Fits, Control, WithSub, WithOrder, WithRetry
<1> QED
  BY <1>2, GoesTyped

\* A worker goes on with what it holds.
LEMMA KeepsTyped ==
    ASSUME TypeOK, Tables', NEW w \in Worker, NEW where \in Control, Goes(w, where, mem[w]),
           pc[w] # "idle", where # "idle",
           where \in WithSub => pc[w] \in WithSub, where \in WithOrder => pc[w] \in WithOrder,
           where \in WithRetry => pc[w] \in WithRetry
    PROVE  TypeOK'
<1>1. Fits(where, mem[w])
  BY TypeParts DEF Fits, Placed
<1> QED
  BY <1>1, GoesTyped

\* Writes of one row.
LEMMA OrderWrite ==
    ASSUME Tables, NEW o \in Order, NEW r \in OrderRow, order' = [order EXCEPT ![o] = r]
    PROVE  order' \in [Order -> OrderRow]
BY DEF Tables

LEMMA StatusWrite ==
    ASSUME Tables, NEW o \in Order, NEW s \in {"none", "pending", "processing", "paid", "failed", "cancelled"},
           order' = [order EXCEPT ![o].status = s]
    PROVE  order' \in [Order -> OrderRow]
BY DEF Tables, OrderRow

LEMMA RetryWrite ==
    ASSUME Tables, NEW k \in RetryKey,
           NEW s \in {"none", "pending", "executing", "skipped", "failed", "cancelled"}, Saved(k, s)
    PROVE  retry' \in [RetryKey -> RetryRow]
BY DEF Tables, RetryRow, Saved

LEMMA BankWrite ==
    ASSUME Tables, NEW c \in Charge, Taken(c) \/ Raises(c)
    PROVE  bank' \in [Charge -> BankState]
BY DEF Tables, Taken, Raises, BankState

LEMMA BilledType ==
    ASSUME Tables, NEW s \in Sub, NEW day \in Nat
    PROVE  Billed(s, day) \in Sub /\ Billed(s, day).next_billing_date = day
<1>1. now \in Nat
  BY DayTypes DEF Tables
<1> QED
  BY <1>1 DEF Billed, Sub

LEMMA SubWrite ==
    ASSUME NEW s \in Sub, NEW b \in BOOLEAN
    PROVE  /\ [s EXCEPT !.is_active = b] \in Sub /\ [s EXCEPT !.parent_order_id = b] \in Sub
           /\ [s EXCEPT !.is_trial = b] \in Sub
           /\ [s EXCEPT !.is_active = b].next_billing_date = s.next_billing_date
           /\ [s EXCEPT !.parent_order_id = b].next_billing_date = s.next_billing_date
           /\ [s EXCEPT !.is_trial = b].next_billing_date = s.next_billing_date
           /\ s.next_billing_date \in Nat /\ s.parent_order_id \in BOOLEAN
BY DEF Sub

LEMMA TypeStep ==
    ASSUME TypeOK, [Next]_vars
    PROVE  TypeOK'
<1>0. Tables /\ Frame /\ \A w \in Worker : Placed(w)
  BY TypeParts
<1>a. now \in Nat /\ now + Interval \in Nat /\ sub \in Sub /\ \A w \in Worker : pc[w] \in WithSub => mem[w].sub \in Sub
  BY <1>0, DayTypes DEF Tables, Placed
<1>b. /\ \A w \in Worker : pc[w] \in WithOrder => mem[w].key \in Order
      /\ \A w \in Worker : pc[w] \in WithRetry => mem[w].key \in RetryKey
  BY <1>0 DEF Placed
<1>c. Order \subseteq Charge /\ RetryKey \subseteq Charge
  BY DEF Charge
<1>d. {} \in SUBSET RetryKey
  OBVIOUS
<1>1. CASE Tick
  <2>1. Tables'
    BY <1>0, <1>1, DayTypes DEF Tick, Tables
  <2> QED
    BY <1>1, <2>1, StaysTyped DEF Tick
<1>2. CASE LockExpires \/ UNCHANGED vars
  <2>1. Tables' /\ pc' = pc /\ mem' = mem
    BY <1>0, <1>2 DEF LockExpires, Tables, vars
  <2> QED
    BY <2>1, StaysTyped
<1>3. CASE BankSettles
  <2>1. bank' \in [Charge -> BankState]
    BY <1>0, <1>3 DEF BankSettles, Tables, BankState
  <2>2. Tables' /\ pc' = pc /\ mem' = mem
    BY <1>0, <1>3, <2>1 DEF BankSettles, Tables
  <2> QED
    BY <2>2, StaysTyped
<1>4. CASE reactivate_subscription_payment
  <2>1. PICK o \in Order : Taken(o) /\ order' = [order EXCEPT ![o] =
                             [status |-> "pending", type |-> "reactivation", created_at |-> now]]
    BY <1>4 DEF reactivate_subscription_payment
  <2>2. bank' \in [Charge -> BankState]
    BY <1>0, <1>c, <2>1, BankWrite
  <2>3. [status |-> "pending", type |-> "reactivation", created_at |-> now] \in OrderRow
    BY <1>a DEF OrderRow
  <2>4. order' \in [Order -> OrderRow]
    BY <1>0, <2>1, <2>3, OrderWrite
  <2>5. Tables' /\ pc' = pc /\ mem' = mem
    BY <1>0, <1>4, <2>2, <2>4 DEF reactivate_subscription_payment, Tables
  <2> QED
    BY <2>5, StaysTyped
\* Steps that load.
<1>5. ASSUME NEW w \in Worker, RenewLoad(w) PROVE TypeOK'
  <2>1. Tables' /\ Goes(w, "renew", Holds(sub, NoKey, {}))
    BY <1>0, <1>5 DEF RenewLoad, Tables
  <2> QED
    BY <1>d, <2>1, LoadsTyped
<1>6. ASSUME NEW w \in Worker, RetryLoad(w) PROVE TypeOK'
  <2>1. Tables' /\ \E due \in SUBSET RetryKey : Goes(w, "retry", Holds(sub, NoKey, due))
    BY <1>0, <1>6 DEF RetryLoad, Tables
  <2> QED
    BY <2>1, LoadsTyped
<1>7. ASSUME NEW w \in Worker, StatusLoad(w) \/ TrialLoad(w) \/ PageLoad(w) PROVE TypeOK'
  <2>1. Tables' /\ \E where \in {"status_tenant", "trial", "cancel", "remove_card"} :
                      Goes(w, where, Holds(sub, NoKey, {}))
    BY <1>0, <1>7 DEF StatusLoad, TrialLoad, PageLoad, Tables
  <2> QED
    BY <1>d, <2>1, LoadsTyped
<1>8. ASSUME NEW w \in Worker, NEW o \in Order, Completed(w, o) \/ Rejected(w, o) \/ ReconcileAsk(w, o) PROVE TypeOK'
  <2>1. order' \in [Order -> OrderRow]
    <3>1. order' = order \/ \E s \in {"paid", "failed"} : order' = [order EXCEPT ![o].status = s]
      BY <1>8 DEF Completed, Rejected, ReconcileAsk
    <3> QED
      BY <1>0, <3>1, StatusWrite DEF Tables
  <2>2. /\ UNCHANGED <<now, sub, tenant, retry, bank, lock>>
        /\ \E where \in {"extend", "rejected", "settle", "refuse"} : Goes(w, where, Holds(NoMem, o, {}))
    BY <1>8 DEF Completed, Rejected, ReconcileAsk
  <2>3. Tables'
    BY <1>0, <2>1, <2>2 DEF Tables
  <2> QED
    BY <2>2, <2>3, FindsTyped
\* The renewal run.
<1>9. ASSUME NEW w \in Worker, RenewSkip(w) \/ NoCardToRetry(w) \/ RetryDone(w) \/ Crash(w) PROVE TypeOK'
  <2>1. Tables' /\ Ends(w)
    BY <1>0, <1>9 DEF RenewSkip, NoCardToRetry, RetryDone, Crash, Tables
  <2> QED
    BY <2>1, EndsTyped
<1>10. ASSUME NEW w \in Worker, RenewCharge(w) PROVE TypeOK'
  <2>1. /\ UNCHANGED <<now, sub, tenant, order, retry>> /\ lock' \in {lock, FALSE}
        /\ bank' = bank \/ \E o \in Order : Taken(o) \/ Raises(o)
        /\ Ends(w) \/ \E o \in Order : Goes(w, "renew_row", Holds(NoMem, o, {}))
    BY <1>10 DEF RenewCharge
  <2>2. bank' \in [Charge -> BankState]
    BY <1>0, <1>c, <2>1, BankWrite DEF Tables
  <2>3. Tables'
    BY <1>0, <2>1, <2>2 DEF Tables
  <2> QED
    BY <2>1, <2>3, EndsTyped, FindsTyped
<1>11. ASSUME NEW w \in Worker, RenewRow(w) PROVE TypeOK'
  <2>1. mem[w].key \in Order
    BY <1>11, <1>b DEF RenewRow, WithOrder
  <2>2. [status |-> "pending", type |-> "recurring", created_at |-> now] \in OrderRow
    BY <1>a DEF OrderRow
  <2>3. order' \in [Order -> OrderRow]
    BY <1>0, <1>11, <2>1, <2>2, OrderWrite DEF RenewRow
  <2>4. Tables' /\ Ends(w)
    BY <1>0, <1>11, <2>3 DEF RenewRow, Tables
  <2> QED
    BY <2>4, EndsTyped
\* The callback.
<1>12. ASSUME NEW w \in Worker, Extend(w) PROVE TypeOK'
  <2>1. sub' \in Sub
    <3>1. Advanced(sub) \in Nat
      BY <1>a, AdvancedBound, SubWrite
    <3>2. Billed(sub, Advanced(sub)) \in Sub /\ Billed(sub, now + Interval) \in Sub
      BY <1>0, <1>a, <3>1, BilledType
    <3>3. \/ sub' = sub \/ sub' = Billed(sub, Advanced(sub))
          \/ \E saved \in BOOLEAN : sub' = [Billed(sub, now + Interval) EXCEPT
                                                !.is_active = TRUE, !.parent_order_id = @ \/ saved]
      BY <1>12 DEF Extend
    <3>4. ASSUME NEW s \in Sub, NEW saved \in BOOLEAN
          PROVE  [s EXCEPT !.is_active = TRUE, !.parent_order_id = @ \/ saved] \in Sub
      BY DEF Sub
    <3> QED
      BY <1>a, <3>2, <3>3, <3>4
  <2>2. Tables' /\ Ends(w)
    BY <1>0, <1>12, <2>1 DEF Extend, Tables
  <2> QED
    BY <2>2, EndsTyped
<1>13. ASSUME NEW w \in Worker, schedule_payment_retries(w) PROVE TypeOK'
  <2>1. mem[w].key \in Order
    BY <1>13, <1>b DEF schedule_payment_retries, WithOrder
  <2>2. ASSUME NEW k \in RetryKey
        PROVE  [status |-> "pending", payment_order |-> mem[w].key, scheduled_for |-> now + RetryAfter[k[2]]] \in RetryRow
    <3>1. k[2] \in DOMAIN RetryAfter
      BY DEF RetryKey
    <3>2. now + RetryAfter[k[2]] \in Nat
      BY <1>a, <3>1, DayAssumption
    <3> QED
      BY <2>1, <3>2 DEF RetryRow
  <2>3. retry' \in [RetryKey -> RetryRow]
    <3>1. CASE retry' = retry
      BY <1>0, <3>1 DEF Tables
    <3>2. CASE \E b \in Batch, n \in DOMAIN RetryAfter :
                 retry' = [k \in RetryKey |->
                            IF k[1] = b /\ k[2] <= n
                            THEN [status |-> "pending", payment_order |-> mem[w].key,
                                  scheduled_for |-> now + RetryAfter[k[2]]]
                            ELSE retry[k]]
      BY <1>0, <2>2, <3>2 DEF Tables
    <3> QED
      BY <1>13, <3>1, <3>2 DEF schedule_payment_retries
  <2>4. Tables' /\ Ends(w)
    BY <1>0, <1>13, <2>3 DEF schedule_payment_retries, Tables
  <2> QED
    BY <2>4, EndsTyped
\* The retries.
<1>14. ASSUME NEW w \in Worker, RetryMark(w) PROVE TypeOK'
  <2>1. mem[w] \in Held /\ mem[w].sub \in Sub
    BY <1>0, <1>14 DEF RetryMark, Placed, WithSub
  <2>2. PICK k \in mem[w].due : Saved(k, "executing") /\ Goes(w, "retry_charge", Holds(mem[w].sub, k, mem[w].due \ {k}))
    BY <1>14 DEF RetryMark
  <2>3. k \in RetryKey /\ mem[w].due \ {k} \in SUBSET RetryKey
    BY <2>1 DEF Held
  <2>4. retry' \in [RetryKey -> RetryRow]
    BY <1>0, <2>2, <2>3, RetryWrite
  <2>5. Tables'
    BY <1>0, <1>14, <2>4 DEF RetryMark, Tables
  <2> DEFINE m == Holds(mem[w].sub, k, mem[w].due \ {k})
  <2>6. m \in Held /\ m.sub = mem[w].sub /\ m.key = k
    BY <1>c, <2>1, <2>3, HoldsType
  <2> HIDE DEF m
  <2>7. Fits("retry_charge", m)
    BY <2>1, <2>3, <2>6 DEF Fits, Control, WithSub, WithOrder, WithRetry
  <2> QED
    BY <2>2, <2>5, <2>7, GoesTyped DEF m
<1>15. ASSUME NEW w \in Worker, RetrySkip(w) \/ RetryCharge(w) PROVE TypeOK'
  <2>1. pc[w] = "retry_charge" /\ mem[w].key \in RetryKey
    BY <1>15, <1>b DEF RetrySkip, RetryCharge, WithRetry
  <2>2. /\ UNCHANGED <<now, sub, tenant, order, lock>>
        /\ retry' = retry \/ \E s \in {"skipped", "failed"} : Saved(mem[w].key, s)
        /\ bank' = bank \/ Taken(mem[w].key) \/ Raises(mem[w].key)
        /\ \E where \in {"retry", "retry_failed"} : Goes(w, where, mem[w])
    BY <1>15 DEF RetrySkip, RetryCharge
  <2>3. retry' \in [RetryKey -> RetryRow] /\ bank' \in [Charge -> BankState]
    <3>1. retry' \in [RetryKey -> RetryRow]
      BY <1>0, <2>1, <2>2, RetryWrite DEF Tables
    <3>2. bank' \in [Charge -> BankState]
      BY <1>0, <1>c, <2>1, <2>2, BankWrite DEF Tables
    <3> QED
      BY <3>1, <3>2
  <2>4. Tables'
    BY <1>0, <2>2, <2>3 DEF Tables
  <2> QED
    BY <2>1, <2>2, <2>4, KeepsTyped DEF Control, WithSub, WithOrder, WithRetry
<1>16. ASSUME NEW w \in Worker, RetryNotLast(w) \/ SuspendTenant(w) \/ StatusTenant(w) PROVE TypeOK'
  <2>1. Tables'
    BY <1>0, <1>16 DEF RetryNotLast, SuspendTenant, StatusTenant, Tables
  <2>2. \/ pc[w] \in {"retry_failed", "retry_suspend"} /\ Goes(w, "retry", mem[w])
        \/ pc[w] = "status_tenant" /\ Goes(w, "status_sub", mem[w])
    BY <1>16 DEF RetryNotLast, SuspendTenant, StatusTenant
  <2> QED
    BY <2>1, <2>2, KeepsTyped DEF Control, WithSub, WithOrder, WithRetry
<1>17. ASSUME NEW w \in Worker, SuspendSub(w) PROVE TypeOK'
  <2>1. pc[w] = "retry_failed" /\ mem[w].sub \in Sub
    BY <1>17, <1>a DEF SuspendSub, WithSub
  <2>2. sub' \in Sub
    BY <1>17, <2>1, SubWrite DEF SuspendSub
  <2>3. Tables' /\ Goes(w, "retry_suspend", mem[w])
    BY <1>0, <1>17, <2>2 DEF SuspendSub, Tables
  <2> QED
    BY <2>1, <2>3, KeepsTyped DEF Control, WithSub, WithOrder, WithRetry
\* The reconciliation.
<1>18. ASSUME NEW w \in Worker, _settle_paid(w) PROVE TypeOK'
  <2>1. mem[w].key \in Order
    BY <1>18, <1>b DEF _settle_paid, WithOrder
  <2>2. order' \in [Order -> OrderRow]
    <3>1. order' = order \/ order' = [order EXCEPT ![mem[w].key].status = "paid"]
      BY <1>18 DEF _settle_paid
    <3> QED
      BY <1>0, <2>1, <3>1, StatusWrite DEF Tables
  <2>3. sub' \in Sub
    <3>1. Advanced(sub) \in Nat
      BY <1>a, AdvancedBound, SubWrite
    <3>2. Billed(sub, Advanced(sub)) \in Sub
      BY <1>0, <1>a, <3>1, BilledType
    <3> QED
      BY <1>18, <1>a, <3>2 DEF _settle_paid
  <2>4. retry' \in [RetryKey -> RetryRow]
    <3>1. ASSUME NEW k \in RetryKey PROVE [retry[k] EXCEPT !.status = "cancelled"] \in RetryRow
      BY <1>0 DEF Tables, RetryRow
    <3>2. retry' = retry \/ retry' = [k \in RetryKey |-> IF retry[k].status = "pending"
                                        THEN [retry[k] EXCEPT !.status = "cancelled"] ELSE retry[k]]
      BY <1>18 DEF _settle_paid
    <3> QED
      BY <1>0, <3>1, <3>2 DEF Tables
  <2>5. Tables' /\ Ends(w)
    BY <1>0, <1>18, <2>2, <2>3, <2>4 DEF _settle_paid, Tables
  <2> QED
    BY <2>5, EndsTyped
<1>19. ASSUME NEW w \in Worker, ReconcileRefuse(w) PROVE TypeOK'
  <2>1. mem[w].key \in Order
    BY <1>19, <1>b DEF ReconcileRefuse, WithOrder
  <2>2. \E s \in {"failed", "cancelled"} : order' = [order EXCEPT ![mem[w].key].status = s]
    BY <1>19 DEF ReconcileRefuse
  <2>3. order' \in [Order -> OrderRow]
    BY <1>0, <2>1, <2>2, StatusWrite
  <2>4. Tables' /\ Ends(w)
    BY <1>0, <1>19, <2>3 DEF ReconcileRefuse, Tables
  <2> QED
    BY <2>4, EndsTyped
\* The saves of a whole loaded row.
<1>20. ASSUME NEW w \in Worker, StatusSub(w) \/ TrialSave(w) \/ PageSave(w) PROVE TypeOK'
  <2>1. pc[w] \in WithSub
    BY <1>20 DEF StatusSub, TrialSave, PageSave, WithSub
  <2>2. mem[w].sub \in Sub
    BY <1>a, <2>1
  <2>3. Billed(mem[w].sub, now + Interval) \in Sub
    BY <1>0, <1>a, <2>2, BilledType
  <2>4. sub' \in Sub
    BY <1>20, <2>2, <2>3, SubWrite DEF StatusSub, TrialSave, PageSave
  <2>5. Tables' /\ Ends(w)
    BY <1>0, <1>20, <2>4 DEF StatusSub, TrialSave, PageSave, Tables
  <2> QED
    BY <2>5, EndsTyped
\* The end of a trial.
<1>21. ASSUME NEW w \in Worker, TrialCharge(w) PROVE TypeOK'
  <2>1. pc[w] = "trial" /\ mem[w] \in Held /\ mem[w].sub \in Sub
    BY <1>0, <1>21 DEF TrialCharge, Placed, WithSub
  <2>2. /\ UNCHANGED <<now, sub, tenant, order, retry, lock>>
        /\ bank' = bank \/ \E o \in Order : Taken(o) \/ Raises(o)
        /\ Goes(w, "trial_stop", mem[w]) \/ \E o \in Order : Goes(w, "trial_row", [mem[w] EXCEPT !.key = o])
    BY <1>21 DEF TrialCharge
  <2>3. bank' \in [Charge -> BankState]
    BY <1>0, <1>c, <2>2, BankWrite DEF Tables
  <2>4. Tables'
    BY <1>0, <2>2, <2>3 DEF Tables
  <2>5. CASE Goes(w, "trial_stop", mem[w])
    BY <2>1, <2>4, <2>5, KeepsTyped DEF Control, WithSub, WithOrder, WithRetry
  <2>6. ASSUME NEW o \in Order, Goes(w, "trial_row", [mem[w] EXCEPT !.key = o]) PROVE TypeOK'
    <3> DEFINE m == [mem[w] EXCEPT !.key = o]
    <3>1. m \in Held /\ m.sub = mem[w].sub /\ m.key = o
      BY <1>c, <2>1 DEF Held
    <3> HIDE DEF m
    <3>2. Fits("trial_row", m)
      BY <2>1, <3>1 DEF Fits, Control, WithSub, WithOrder, WithRetry
    <3> QED
      BY <2>4, <2>6, <3>2, GoesTyped DEF m
  <2> QED
    BY <2>2, <2>5, <2>6
<1>22. ASSUME NEW w \in Worker, TrialRow(w) PROVE TypeOK'
  <2>1. pc[w] = "trial_row" /\ mem[w].key \in Order
    BY <1>22, <1>b DEF TrialRow, WithOrder
  <2>2. [status |-> "processing", type |-> "trial_conversion", created_at |-> now] \in OrderRow
    BY <1>a DEF OrderRow
  <2>3. order' \in [Order -> OrderRow]
    BY <1>0, <1>22, <2>1, <2>2, OrderWrite DEF TrialRow
  <2>4. Tables' /\ Goes(w, "trial_save", mem[w])
    BY <1>0, <1>22, <2>3 DEF TrialRow, Tables
  <2> QED
    BY <2>1, <2>4, KeepsTyped DEF Control, WithSub, WithOrder, WithRetry
<1>23. ASSUME NEW w \in Worker, Begin(w) PROVE TypeOK'
  BY <1>5, <1>6, <1>7, <1>8, <1>23 DEF Begin
<1>24. ASSUME NEW w \in Worker, Continue(w) PROVE TypeOK'
  BY <1>9, <1>10, <1>11, <1>12, <1>13, <1>14, <1>15, <1>16, <1>17, <1>18, <1>19, <1>20, <1>21, <1>22, <1>24 DEF Continue
<1> QED
  BY <1>1, <1>2, <1>3, <1>4, <1>9, <1>23, <1>24 DEF Next

LEMMA TypeInit ==
    ASSUME Init
    PROVE  TypeOK
<1>1. sub \in Sub
  BY DayTypes, DayAssumption DEF Init, Sub
<1>2. order \in [Order -> OrderRow] /\ bank \in [Charge -> BankState]
  BY DEF Init, OrderRow, BankState
<1>3. retry \in [RetryKey -> RetryRow]
  BY DEF Init, RetryRow
<1>4. Tables
  BY <1>1, <1>2, <1>3, DayTypes DEF Init, Tables
<1>5. Frame /\ \A w \in Worker : Placed(w)
  BY DEF Init, Frame, Placed, Control, WithSub, WithOrder, WithRetry
<1> QED
  BY <1>4, <1>5, TypeParts

\* Every row keeps its columns, and every worker has loaded what it is about to save or
\* charge, whichever commands overlap, whatever the bank answers and wherever workers die.
THEOREM TypeCorrect == Spec => []TypeOK
BY TypeInit, TypeStep, PTL DEF Spec

----------------------------------------------------------------------------
(* What a step does to workers, charges and rows *)

Acts(w) == Begin(w) \/ Continue(w) \/ Crash(w)
Same(w) == pc'[w] = pc[w] /\ mem'[w] = mem[w]

\* Where a worker goes, and with what.
Destinations(w) ==
    \/ pc'[w] \in {"idle", "rejected"}
    \/ pc'[w] = "renew" /\ RenewLoad(w) /\ mem'[w].sub = sub
    \/ pc'[w] = "renew_row" /\ RenewCharge(w) /\ \E o \in Order : NextKey(o) /\ Taken(o) /\ mem'[w].key = o
    \/ pc'[w] = "extend" /\ \E o \in Order : Completed(w, o) /\ mem'[w].key = o
    \/ pc'[w] = "settle" /\ \E o \in Order : ReconcileAsk(w, o) /\ mem'[w].key = o /\ bank[o] = "completed"
    \/ pc'[w] = "refuse" /\ \E o \in Order : ReconcileAsk(w, o) /\ mem'[w].key = o /\ bank[o] \in Over
    \/ pc'[w] \in {"retry", "status_tenant", "trial", "cancel", "remove_card"} /\ mem'[w].sub = sub
    \/ /\ pc'[w] \in {"retry", "retry_charge", "retry_failed", "retry_suspend", "status_sub", "trial_stop"}
       /\ pc[w] \in WithSub /\ mem'[w].sub = mem[w].sub
    \/ /\ pc'[w] = "trial_row" /\ TrialCharge(w) /\ mem'[w].sub = mem[w].sub
       /\ \E o \in Order : NextKey(o) /\ Taken(o) /\ mem'[w].key = o
    \/ pc'[w] = "trial_save" /\ TrialRow(w) /\ mem'[w] = mem[w]

LEMMA ActsMove ==
    ASSUME TypeOK, NEW w \in Worker, Acts(w)
    PROVE  Destinations(w) /\ \A v \in Worker \ {w} : Same(v)
<1>0. ASSUME NEW where, NEW m, Goes(w, where, m)
      PROVE  pc'[w] = where /\ mem'[w] = m /\ \A v \in Worker \ {w} : Same(v)
  BY <1>0, GoesMoves DEF Moves, Same
<1>a. \A v \in Worker : pc[v] # "idle" => mem[v] \in Held
  BY TypeParts DEF Placed
<1>b. sub \in Sub
  BY DEF TypeOK
<1>c. ASSUME NEW s, NEW k, NEW due PROVE Holds(s, k, due).sub = s /\ Holds(s, k, due).key = k
  BY DEF Holds
<1> DEFINE Goal == Destinations(w) /\ \A v \in Worker \ {w} : Same(v)
<1>1. ASSUME Ends(w) PROVE Goal
  BY <1>0, <1>1 DEF Ends, Destinations
<1>2. ASSUME NEW where \in {"retry", "status_tenant", "trial", "cancel", "remove_card"}, NEW due,
             Goes(w, where, Holds(sub, NoKey, due))
      PROVE  Goal
  BY <1>0, <1>2, <1>c DEF Destinations
<1>3. ASSUME pc[w] \in WithSub,
             NEW where \in {"retry", "retry_charge", "retry_failed", "retry_suspend", "status_sub", "trial_stop"},
             Goes(w, where, mem[w])
      PROVE  Goal
  BY <1>0, <1>3 DEF Destinations
<1>4. ASSUME RenewLoad(w) PROVE Goal
  BY <1>0, <1>4, <1>c DEF RenewLoad, Destinations
<1>5. ASSUME RetryLoad(w) \/ StatusLoad(w) \/ TrialLoad(w) \/ PageLoad(w) PROVE Goal
  BY <1>2, <1>5 DEF RetryLoad, StatusLoad, TrialLoad, PageLoad
<1>6. ASSUME NEW o \in Order, Completed(w, o) PROVE Goal
  <2>1. pc'[w] = "extend" /\ mem'[w] = Holds(NoMem, o, {}) /\ \A v \in Worker \ {w} : Same(v)
    BY <1>0, <1>6 DEF Completed
  <2> QED
    BY <1>6, <1>c, <2>1 DEF Destinations
<1>7. ASSUME NEW o \in Order, Rejected(w, o) PROVE Goal
  <2>1. pc'[w] = "rejected" /\ \A v \in Worker \ {w} : Same(v)
    BY <1>0, <1>7 DEF Rejected
  <2> QED
    BY <2>1 DEF Destinations
<1>8. ASSUME NEW o \in Order, ReconcileAsk(w, o) PROVE Goal
  <2>1. \/ bank[o] = "completed" /\ Goes(w, "settle", Holds(NoMem, o, {}))
        \/ bank[o] \in Over /\ Goes(w, "refuse", Holds(NoMem, o, {}))
    BY <1>8 DEF ReconcileAsk, Over
  <2>2. /\ mem'[w].key = o
        /\ (bank[o] = "completed" /\ pc'[w] = "settle") \/ (bank[o] \in Over /\ pc'[w] = "refuse")
        /\ \A v \in Worker \ {w} : Same(v)
    BY <1>0, <1>c, <2>1
  <2> QED
    BY <1>8, <2>2 DEF Destinations
<1>9. ASSUME RenewCharge(w) PROVE Goal
  <2>1. Ends(w) \/ \E o \in Order : NextKey(o) /\ Taken(o) /\ Goes(w, "renew_row", Holds(NoMem, o, {}))
    BY <1>9 DEF RenewCharge
  <2>2. ASSUME NEW o \in Order, NextKey(o), Taken(o), Goes(w, "renew_row", Holds(NoMem, o, {})) PROVE Goal
    <3>1. pc'[w] = "renew_row" /\ mem'[w].key = o /\ \A v \in Worker \ {w} : Same(v)
      BY <1>0, <1>c, <2>2
    <3> QED
      BY <1>9, <2>2, <3>1 DEF Destinations
  <2> HIDE DEF Goal
  <2> QED
    BY <1>1, <2>1, <2>2
<1>10. ASSUME \/ RenewSkip(w) \/ RenewRow(w) \/ Extend(w) \/ schedule_payment_retries(w) \/ NoCardToRetry(w)
              \/ RetryDone(w) \/ _settle_paid(w) \/ ReconcileRefuse(w) \/ StatusSub(w) \/ TrialSave(w)
              \/ PageSave(w) \/ Crash(w)
       PROVE  Goal
  <2>1. Ends(w)
    BY <1>10 DEF RenewSkip, RenewRow, Extend, schedule_payment_retries, NoCardToRetry, RetryDone, _settle_paid,
                 ReconcileRefuse, StatusSub, TrialSave, PageSave, Crash
  <2> HIDE DEF Goal
  <2> QED
    BY <1>1, <2>1
<1>11. ASSUME RetryMark(w) PROVE Goal
  <2>1. pc[w] \in WithSub /\ \E k, due : Goes(w, "retry_charge", Holds(mem[w].sub, k, due))
    BY <1>11 DEF RetryMark, WithSub
  <2>2. pc'[w] = "retry_charge" /\ mem'[w].sub = mem[w].sub /\ \A v \in Worker \ {w} : Same(v)
    BY <1>0, <1>c, <2>1
  <2> QED
    BY <2>1, <2>2 DEF Destinations
<1>12. ASSUME RetrySkip(w) \/ RetryCharge(w) \/ RetryNotLast(w) \/ SuspendSub(w) \/ SuspendTenant(w) \/ StatusTenant(w)
       PROVE  Goal
  <2>1. /\ pc[w] \in WithSub
        /\ \E where \in {"retry", "retry_failed", "retry_suspend", "status_sub"} : Goes(w, where, mem[w])
    BY <1>12 DEF RetrySkip, RetryCharge, RetryNotLast, SuspendSub, SuspendTenant, StatusTenant, WithSub
  <2> HIDE DEF Goal
  <2> QED
    BY <1>3, <2>1
<1>13. ASSUME TrialCharge(w) PROVE Goal
  <2>1. /\ pc[w] = "trial"
        /\ \/ Goes(w, "trial_stop", mem[w])
           \/ \E o \in Order : NextKey(o) /\ Taken(o) /\ Goes(w, "trial_row", [mem[w] EXCEPT !.key = o])
    BY <1>13 DEF TrialCharge
  <2>2. ASSUME NEW o \in Order, NextKey(o), Taken(o), Goes(w, "trial_row", [mem[w] EXCEPT !.key = o]) PROVE Goal
    <3>1. [mem[w] EXCEPT !.key = o].sub = mem[w].sub /\ [mem[w] EXCEPT !.key = o].key = o
      BY <1>a, <2>1 DEF Held
    <3>2. pc'[w] = "trial_row" /\ mem'[w].sub = mem[w].sub /\ mem'[w].key = o /\ \A v \in Worker \ {w} : Same(v)
      BY <1>0, <2>2, <3>1
    <3> QED
      BY <1>13, <2>2, <3>2 DEF Destinations
  <2> HIDE DEF Goal
  <2> QED
    BY <1>3, <2>1, <2>2 DEF WithSub
<1>14. ASSUME TrialRow(w) PROVE Goal
  <2>1. pc'[w] = "trial_save" /\ mem'[w] = mem[w] /\ \A v \in Worker \ {w} : Same(v)
    BY <1>0, <1>14 DEF TrialRow
  <2> QED
    BY <1>14, <2>1 DEF Destinations
<1> HIDE DEF Goal
<1>15. ASSUME Begin(w) PROVE Goal
  BY <1>4, <1>5, <1>6, <1>7, <1>8, <1>15 DEF Begin
<1>16. ASSUME Continue(w) PROVE Goal
  BY <1>9, <1>10, <1>11, <1>12, <1>13, <1>14, <1>16 DEF Continue
<1>17. Goal
  BY <1>10, <1>15, <1>16 DEF Acts
<1> QED
  BY <1>17 DEF Goal

\* One worker at most acts in a step.
LEMMA OneActor ==
    ASSUME TypeOK, [Next]_vars, NEW v \in Worker
    PROVE  Same(v) \/ Acts(v)
<1>1. CASE \E w \in Worker : Acts(w)
  BY <1>1, ActsMove
<1>2. CASE Tick \/ LockExpires \/ BankSettles \/ reactivate_subscription_payment \/ UNCHANGED vars
  BY <1>2 DEF Tick, LockExpires, BankSettles, reactivate_subscription_payment, vars, Same
<1> QED
  BY <1>1, <1>2 DEF Next, Acts

\* How the charge of an order moves at the bank.
BankMoves(o) ==
    \/ bank'[o] = bank[o]
    \/ bank[o] = "none" /\ order[o].status = "none" /\ bank'[o] = "processing"
    \/ bank[o] = "processing" /\ bank'[o] \in {"completed", "rejected"} /\ order' = order
    \/ bank[o] = "completed" /\ bank'[o] = "refunded" /\ order' = order

LEMMA KeysApart == \A o \in Order, k \in RetryKey : o # k
<1> SUFFICES ASSUME NEW o \in Order, NEW k \in RetryKey PROVE o # k
  OBVIOUS
<1>1. o[2] = 0
  BY DEF Order
<1>2. k[2] \in DOMAIN RetryAfter
  BY DEF RetryKey
<1>3. DOMAIN RetryAfter = 1 .. Len(RetryAfter) /\ Len(RetryAfter) \in Nat
  BY DayAssumption
<1> QED
  BY <1>1, <1>2, <1>3

LEMMA BankKinds ==
    ASSUME TypeOK, [Next]_vars, NEW o \in Order
    PROVE  BankMoves(o)
<1>0. o \in Charge /\ bank \in [Charge -> BankState]
  BY DEF TypeOK, Charge
<1>1. ASSUME NEW c \in Charge, Taken(c) \/ Raises(c), c \in RetryKey \/ NextKey(c) PROVE BankMoves(o)
  <2>1. bank' = bank \/ bank' = [bank EXCEPT ![c] = "processing"]
    BY <1>1 DEF Taken, Raises
  <2>2. CASE c # o \/ bank' = bank
    BY <1>0, <2>1, <2>2 DEF BankMoves
  <2>3. CASE c = o
    BY <1>0, <1>1, <2>1, <2>3, KeysApart DEF BankMoves, NextKey
  <2> QED
    BY <2>2, <2>3
<1>2. bank' = bank => BankMoves(o)
  BY DEF BankMoves
<1>3. CASE BankSettles
  <2>1. PICK c \in Charge :
           \/ bank[c] = "processing" /\ \E s \in {"completed", "rejected"} : bank' = [bank EXCEPT ![c] = s]
           \/ bank[c] = "completed" /\ bank' = [bank EXCEPT ![c] = "refunded"]
    BY <1>3 DEF BankSettles
  <2>2. order' = order
    BY <1>3 DEF BankSettles
  <2> QED
    BY <1>0, <2>1, <2>2 DEF BankMoves
<1>4. CASE reactivate_subscription_payment
  BY <1>1, <1>4 DEF reactivate_subscription_payment, Charge
<1>5. CASE Tick \/ LockExpires \/ UNCHANGED vars
  BY <1>2, <1>5 DEF Tick, LockExpires, vars
<1>6. ASSUME NEW w \in Worker, Begin(w) \/ Crash(w) PROVE BankMoves(o)
  BY <1>2, <1>6 DEF Begin, Crash, RenewLoad, RetryLoad, StatusLoad, TrialLoad, PageLoad, Completed, Rejected, ReconcileAsk
<1>7. ASSUME NEW w \in Worker, RenewCharge(w) PROVE BankMoves(o)
  <2>1. bank' = bank \/ \E c \in Order : NextKey(c) /\ (Taken(c) \/ Raises(c))
    BY <1>7 DEF RenewCharge
  <2> QED
    BY <1>1, <1>2, <2>1 DEF Charge
<1>8. ASSUME NEW w \in Worker, TrialCharge(w) PROVE BankMoves(o)
  <2>1. bank' = bank \/ \E c \in Order : NextKey(c) /\ (Taken(c) \/ Raises(c))
    BY <1>8 DEF TrialCharge
  <2> QED
    BY <1>1, <1>2, <2>1 DEF Charge
<1>9. ASSUME NEW w \in Worker, RetryCharge(w) PROVE BankMoves(o)
  <2>1. mem[w].key \in RetryKey /\ (Taken(mem[w].key) \/ Raises(mem[w].key))
    BY <1>9, TypeParts DEF RetryCharge, Placed, WithRetry
  <2> QED
    BY <1>1, <2>1 DEF Charge
<1>10. ASSUME NEW w \in Worker,
              \/ RenewSkip(w) \/ RenewRow(w) \/ Extend(w) \/ schedule_payment_retries(w) \/ NoCardToRetry(w)
              \/ RetryMark(w) \/ RetryDone(w) \/ RetrySkip(w) \/ RetryNotLast(w) \/ SuspendSub(w) \/ SuspendTenant(w)
              \/ _settle_paid(w) \/ ReconcileRefuse(w) \/ StatusTenant(w) \/ StatusSub(w)
              \/ TrialRow(w) \/ TrialSave(w) \/ PageSave(w)
       PROVE  BankMoves(o)
  BY <1>2, <1>10 DEF RenewSkip, RenewRow, Extend, schedule_payment_retries, NoCardToRetry, RetryMark, RetryDone,
      RetrySkip, RetryNotLast, SuspendSub, SuspendTenant, _settle_paid, ReconcileRefuse, StatusTenant, StatusSub,
      TrialRow, TrialSave, PageSave
<1>11. ASSUME NEW w \in Worker, Continue(w) PROVE BankMoves(o)
  BY <1>7, <1>8, <1>9, <1>10, <1>11 DEF Continue
<1> QED
  BY <1>3, <1>4, <1>5, <1>6, <1>11 DEF Next

\* How the row of an order moves.
Marked(o, s) ==
    /\ order'[o].status = s /\ order'[o].type = order[o].type /\ order'[o].created_at = order[o].created_at
    /\ bank' = bank

Settles(w, o) == _settle_paid(w) /\ mem[w].key = o /\ order[o].status # "paid"

RowMoves(o) ==
    \/ order'[o] = order[o]
    \/ Marked(o, "paid") /\ \E w \in Worker : Completed(w, o) \/ Settles(w, o)
    \/ Marked(o, "failed") /\ bank[o] = "rejected" /\ (order[o].status # "none" \/ \E w \in Worker : pc[w] = "refuse" /\ mem[w].key = o)
    \/ Marked(o, "cancelled") /\ bank[o] = "refunded" /\ \E w \in Worker : pc[w] = "refuse" /\ mem[w].key = o
    \/ \E w \in Worker : RenewRow(w) /\ mem[w].key = o /\ order'[o].type = "recurring"
                         /\ order'[o].status = "pending" /\ order'[o].created_at = now
    \/ \E w \in Worker : TrialRow(w) /\ mem[w].key = o /\ order'[o].type = "trial_conversion"
                         /\ order'[o].status = "processing"
    \/ /\ bank[o] = "none" /\ order[o].status = "none"
       /\ order'[o].type = "reactivation" /\ order'[o].status = "pending"

LEMMA RowKinds ==
    ASSUME TypeOK, OverAtBank, [Next]_vars, NEW o \in Order
    PROVE  RowMoves(o)
<1>0. order \in [Order -> OrderRow]
  BY DEF TypeOK
<1>a. ASSUME NEW k \in Order, NEW s, order' = [order EXCEPT ![k].status = s]
      PROVE  /\ o # k => order'[o] = order[o]
             /\ /\ order'[k].status = s /\ order'[k].type = order[k].type
                /\ order'[k].created_at = order[k].created_at
  BY <1>0, <1>a DEF OrderRow
<1>b. order' = order => RowMoves(o)
  BY DEF RowMoves
<1>c. order'[o] = order[o] => RowMoves(o)
  BY DEF RowMoves
<1>d. \A w \in Worker : pc[w] \in WithOrder => mem[w].key \in Order
  BY TypeParts DEF Placed
<1>1. ASSUME NEW w \in Worker, NEW k \in Order, Completed(w, k) PROVE RowMoves(o)
  <2>1. order' = [order EXCEPT ![k].status = "paid"] /\ bank' = bank
    BY <1>1 DEF Completed
  <2>2. o # k \/ Marked(o, "paid")
    BY <1>a, <2>1 DEF Marked
  <2> QED
    BY <1>1, <1>a, <1>c, <2>1, <2>2 DEF RowMoves
<1>2. ASSUME NEW w \in Worker, NEW k \in Order, Rejected(w, k) PROVE RowMoves(o)
  <2>1. order' = [order EXCEPT ![k].status = "failed"] /\ bank' = bank /\ bank[k] = "rejected" /\ order[k].status # "none"
    BY <1>2 DEF Rejected
  <2>2. o # k \/ Marked(o, "failed")
    BY <1>a, <2>1 DEF Marked
  <2> QED
    BY <1>a, <1>c, <2>1, <2>2 DEF RowMoves
<1>3. ASSUME NEW w \in Worker, _settle_paid(w) PROVE RowMoves(o)
  <2> DEFINE k == mem[w].key
  <2>1. k \in Order /\ bank' = bank
    BY <1>3, <1>d DEF _settle_paid, WithOrder
  <2>2. order' = order \/ (order[k].status # "paid" /\ order' = [order EXCEPT ![k].status = "paid"])
    BY <1>3 DEF _settle_paid
  <2>3. CASE order[k].status # "paid" /\ order' = [order EXCEPT ![k].status = "paid"]
    <3>1. o # k \/ (Marked(o, "paid") /\ Settles(w, o))
      BY <1>3, <1>a, <2>1, <2>3 DEF Marked, Settles
    <3> QED
      BY <1>a, <1>c, <2>1, <2>3, <3>1 DEF RowMoves
  <2> QED
    BY <1>b, <2>2, <2>3
<1>4. ASSUME NEW w \in Worker, ReconcileRefuse(w) PROVE RowMoves(o)
  <2> DEFINE k == mem[w].key
  <2>1. k \in Order /\ bank' = bank /\ pc[w] = "refuse" /\ bank[k] \in Over
    BY <1>4, <1>d DEF ReconcileRefuse, WithOrder, OverAtBank
  <2>2. \/ bank[k] = "rejected" /\ order' = [order EXCEPT ![k].status = "failed"]
        \/ bank[k] = "refunded" /\ order' = [order EXCEPT ![k].status = "cancelled"]
    BY <1>4, <2>1 DEF ReconcileRefuse, Over
  <2>3. \/ o # k \/ (Marked(o, "failed") /\ bank[o] = "rejected") \/ (Marked(o, "cancelled") /\ bank[o] = "refunded")
    BY <1>a, <2>1, <2>2 DEF Marked
  <2> QED
    BY <1>a, <1>c, <2>1, <2>2, <2>3 DEF RowMoves
<1>5. ASSUME NEW w \in Worker, RenewRow(w) \/ TrialRow(w) PROVE RowMoves(o)
  <2>1. mem[w].key \in Order
    BY <1>5, <1>d DEF RenewRow, TrialRow, WithOrder
  <2>2. CASE o = mem[w].key
    BY <1>0, <1>5, <2>2 DEF RenewRow, TrialRow, RowMoves
  <2>3. CASE o # mem[w].key
    BY <1>0, <1>5, <1>c, <2>3 DEF RenewRow, TrialRow
  <2> QED
    BY <2>2, <2>3
<1>6. CASE reactivate_subscription_payment
  BY <1>0, <1>6 DEF reactivate_subscription_payment, NextKey, RowMoves
<1>7. CASE Tick \/ LockExpires \/ BankSettles \/ UNCHANGED vars
  BY <1>7, <1>b DEF Tick, LockExpires, BankSettles, vars
<1>8. ASSUME NEW w \in Worker,
             \/ RenewLoad(w) \/ RetryLoad(w) \/ StatusLoad(w) \/ TrialLoad(w) \/ PageLoad(w)
             \/ (\E k \in Order : ReconcileAsk(w, k)) \/ Crash(w)
      PROVE  RowMoves(o)
  BY <1>8, <1>b DEF RenewLoad, RetryLoad, StatusLoad, TrialLoad, PageLoad, ReconcileAsk, Crash
<1>9. ASSUME NEW w \in Worker,
             \/ RenewSkip(w) \/ RenewCharge(w) \/ Extend(w) \/ schedule_payment_retries(w) \/ NoCardToRetry(w)
             \/ RetryMark(w) \/ RetryDone(w) \/ RetrySkip(w) \/ RetryCharge(w) \/ RetryNotLast(w)
             \/ SuspendSub(w) \/ SuspendTenant(w) \/ StatusTenant(w) \/ StatusSub(w)
             \/ TrialCharge(w) \/ TrialSave(w) \/ PageSave(w)
      PROVE  RowMoves(o)
  BY <1>9, <1>b DEF RenewSkip, RenewCharge, Extend, schedule_payment_retries, NoCardToRetry, RetryMark, RetryDone,
      RetrySkip, RetryCharge, RetryNotLast, SuspendSub, SuspendTenant, StatusTenant, StatusSub, TrialCharge,
      TrialSave, PageSave
<1>10. ASSUME NEW w \in Worker, Begin(w) \/ Continue(w) \/ Crash(w) PROVE RowMoves(o)
  BY <1>1, <1>2, <1>3, <1>4, <1>5, <1>8, <1>9, <1>10 DEF Begin, Continue
<1> QED
  BY <1>6, <1>7, <1>10 DEF Next

----------------------------------------------------------------------------
(* No period is renewed twice *)

LEMMA OverStays ==
    ASSUME NEW o, BankMoves(o)
    PROVE  /\ bank[o] \in Over => bank'[o] = bank[o]
           /\ bank[o] \in {"completed", "refunded"} => bank'[o] \in {"completed", "refunded"}
           /\ bank[o] # "none" => bank'[o] # "none"
BY DEF BankMoves, Over

LEMMA OverStep ==
    ASSUME TypeOK, OverAtBank, [Next]_vars
    PROVE  OverAtBank'
<1>0. TypeOK' /\ \A o \in Order : BankMoves(o) /\ RowMoves(o)
  BY TypeStep, BankKinds, RowKinds
<1>1. ASSUME NEW o \in Order
      PROVE  /\ order'[o].status = "failed" => bank'[o] = "rejected"
             /\ order'[o].status = "cancelled" => bank'[o] = "refunded"
  <2>1. BankMoves(o) /\ RowMoves(o)
    BY <1>0
  <2>2. CASE order'[o] = order[o]
    BY <2>1, <2>2, OverStays DEF OverAtBank, Over
  <2>3. CASE order'[o] # order[o]
    BY <2>1, <2>3 DEF RowMoves, Marked
  <2> QED
    BY <2>2, <2>3
<1>2. ASSUME NEW v \in Worker, pc'[v] = "refuse" PROVE bank'[mem'[v].key] \in Over
  <2>1. CASE Same(v)
    <3>1. mem[v].key \in Order /\ bank[mem[v].key] \in Over /\ mem'[v] = mem[v]
      BY <1>2, <2>1, TypeParts DEF Same, OverAtBank, Placed, WithOrder
    <3> QED
      BY <1>0, <3>1, OverStays
  <2>2. CASE Acts(v)
    <3>1. \E o \in Order : mem'[v].key = o /\ bank[o] \in Over
      BY <1>2, <2>2, ActsMove DEF Destinations
    <3> QED
      BY <1>0, <3>1, OverStays
  <2> QED
    BY <2>1, <2>2, OneActor
<1> QED
  BY <1>1, <1>2 DEF OverAtBank

\* The lock of the renewal runs.
LEMMA LockKinds ==
    ASSUME TypeOK, [Next]_vars
    PROVE  \/ lock' = lock
           \/ lock' = TRUE
           \/ \E w \in Worker : pc[w] \in Renewing /\ pc'[w] = "idle"
           \/ \A w \in Worker : pc[w] \notin Renewing /\ Same(w)
<1>0. ASSUME NEW w \in Worker, Ends(w) PROVE pc'[w] = "idle"
  BY <1>0, GoesMoves DEF Ends, Moves
<1>1. ASSUME NEW w \in Worker, RenewSkip(w) \/ RenewCharge(w) \/ RenewRow(w)
      PROVE  lock' = lock \/ (pc[w] \in Renewing /\ pc'[w] = "idle")
  <2>1. pc[w] \in Renewing /\ (lock' = lock \/ Ends(w))
    BY <1>1 DEF RenewSkip, RenewCharge, RenewRow, Renewing
  <2> QED
    BY <1>0, <2>1
<1>2. CASE LockExpires
  BY <1>2 DEF LockExpires, Renewing, Same
<1>3. CASE Tick \/ BankSettles \/ reactivate_subscription_payment \/ UNCHANGED vars
  BY <1>3 DEF Tick, BankSettles, reactivate_subscription_payment, vars
<1>4. ASSUME NEW w \in Worker, Begin(w) \/ Crash(w) PROVE lock' = lock \/ lock' = TRUE
  BY <1>4 DEF Begin, Crash, RenewLoad, RetryLoad, StatusLoad, TrialLoad, PageLoad, Completed, Rejected, ReconcileAsk
<1>5. ASSUME NEW w \in Worker,
             \/ Extend(w) \/ schedule_payment_retries(w) \/ NoCardToRetry(w)
             \/ RetryMark(w) \/ RetryDone(w) \/ RetrySkip(w) \/ RetryCharge(w) \/ RetryNotLast(w)
             \/ SuspendSub(w) \/ SuspendTenant(w) \/ _settle_paid(w) \/ ReconcileRefuse(w)
             \/ StatusTenant(w) \/ StatusSub(w) \/ TrialCharge(w) \/ TrialRow(w) \/ TrialSave(w) \/ PageSave(w)
      PROVE  lock' = lock
  BY <1>5 DEF Extend, schedule_payment_retries, NoCardToRetry, RetryMark, RetryDone, RetrySkip, RetryCharge,
      RetryNotLast, SuspendSub, SuspendTenant, _settle_paid, ReconcileRefuse, StatusTenant, StatusSub,
      TrialCharge, TrialRow, TrialSave, PageSave
<1>6. ASSUME NEW w \in Worker, Continue(w)
      PROVE  lock' = lock \/ (pc[w] \in Renewing /\ pc'[w] = "idle")
  BY <1>1, <1>5, <1>6 DEF Continue
<1> QED
  BY <1>2, <1>3, <1>4, <1>6 DEF Next

LEMMA OneRunStep ==
    ASSUME TypeOK, OneRun, [Next]_vars
    PROVE  OneRun'
<1>1. ASSUME NEW v \in Worker, pc'[v] \in Renewing
      PROVE  \/ Same(v) /\ pc[v] \in Renewing
             \/ Acts(v) /\ pc[v] \in Renewing
             \/ Acts(v) /\ ~lock /\ lock' = TRUE
  <2>1. CASE Same(v)
    BY <1>1, <2>1 DEF Same
  <2>2. CASE Acts(v)
    <3>1. RenewLoad(v) \/ RenewCharge(v)
      BY <1>1, <2>2, ActsMove DEF Destinations, Renewing
    <3> QED
      BY <2>2, <3>1 DEF RenewLoad, RenewCharge, Renewing
  <2> QED
    BY <2>1, <2>2, OneActor
<1>2. ASSUME NEW v \in Worker, NEW w \in Worker, v # w, pc'[v] \in Renewing, pc'[w] \in Renewing PROVE FALSE
  <2>1. CASE pc[v] \in Renewing /\ pc[w] \in Renewing
    BY <1>2, <2>1 DEF OneRun
  <2>2. CASE Acts(v) /\ ~lock
    <3>1. Same(w)
      BY <1>2, <2>2, ActsMove
    <3> QED
      BY <1>2, <2>2, <3>1 DEF OneRun, Same
  <2>3. CASE Acts(w) /\ ~lock
    <3>1. Same(v)
      BY <1>2, <2>3, ActsMove
    <3> QED
      BY <1>2, <2>3, <3>1 DEF OneRun, Same
  <2> QED
    BY <1>1, <1>2, <2>1, <2>2, <2>3
<1>3. ASSUME NEW v \in Worker, pc'[v] \in Renewing PROVE lock'
  <2>1. CASE pc[v] \in Renewing
    <3>1. lock
      BY <2>1 DEF OneRun
    <3>2. \A w \in Worker : pc[w] \in Renewing /\ pc'[w] = "idle" => FALSE
      BY <1>3, <2>1 DEF OneRun, Renewing
    <3> QED
      BY <2>1, <3>1, <3>2, LockKinds
  <2> QED
    BY <1>1, <1>3, <2>1
<1> QED
  BY <1>2, <1>3 DEF OneRun

\* The renewals that count after a step are those that did, and one just recorded.
LEMMA RenewalKinds ==
    ASSUME TypeOK, OverAtBank, [Next]_vars, NEW o \in Order, Renewal(o)'
    PROVE  \/ Renewal(o) /\ order'[o].created_at = order[o].created_at
           \/ \E w \in Worker : RenewRow(w) /\ mem[w].key = o /\ order'[o].created_at = now
<1>1. RowMoves(o) /\ BankMoves(o) /\ order'[o].type = "recurring" /\ bank'[o] \notin Over
  BY RowKinds, BankKinds DEF Renewal
<1>2. bank[o] \notin Over
  BY <1>1, OverStays
<1> QED
  BY <1>1, <1>2 DEF RowMoves, Marked, Renewal

LEMMA DayMoves ==
    ASSUME TypeOK, TypeOK', [Next]_vars
    PROVE  now \in Nat /\ now' \in Nat /\ now <= now'
<1>0. now \in 0 .. MaxDay /\ now' \in 0 .. MaxDay /\ MaxDay \in Nat
  BY DayTypes DEF TypeOK
<1>1. CASE Tick
  BY <1>0, <1>1 DEF Tick
<1>2. CASE LockExpires \/ BankSettles \/ reactivate_subscription_payment \/ UNCHANGED vars
  BY <1>0, <1>2 DEF LockExpires, BankSettles, reactivate_subscription_payment, vars
<1>3. ASSUME NEW w \in Worker, Begin(w) \/ Crash(w) PROVE now' = now
  BY <1>3 DEF Begin, Crash, RenewLoad, RetryLoad, StatusLoad, TrialLoad, PageLoad, Completed, Rejected, ReconcileAsk
<1>4. ASSUME NEW w \in Worker, Continue(w) PROVE now' = now
  BY <1>4 DEF Continue, RenewSkip, RenewCharge, RenewRow, Extend, schedule_payment_retries, NoCardToRetry, RetryMark,
      RetryDone, RetrySkip, RetryCharge, RetryNotLast, SuspendSub, SuspendTenant, _settle_paid, ReconcileRefuse,
      StatusTenant, StatusSub, TrialCharge, TrialRow, TrialSave, PageSave
<1> QED
  BY <1>0, <1>1, <1>2, <1>3, <1>4 DEF Next

LEMMA RenewStep ==
    ASSUME RenewInv, [Next]_vars
    PROVE  RenewInv'
<1>0. TypeOK /\ OverAtBank /\ OneRun /\ RowApart /\ RowsApart
  BY DEF RenewInv
<1>1. TypeOK' /\ OverAtBank' /\ OneRun'
  BY <1>0, TypeStep, OverStep, OneRunStep
<1>a. now \in Nat /\ now' \in Nat /\ now <= now' /\ RecentDays \in Nat
  BY <1>0, <1>1, DayMoves, DayTypes
<1>b. \A o \in Order : order[o].created_at \in Nat /\ order'[o].created_at \in Nat
  BY <1>0, <1>1 DEF TypeOK, OrderRow
<1>c. ASSUME NEW w \in Worker, RenewRow(w) PROVE pc[w] = "renew_row" /\ pc'[w] = "idle" /\ Acts(w)
  BY <1>0, <1>c, GoesMoves DEF RenewRow, Ends, Moves, Acts, Continue
<1>2. ASSUME NEW v \in Worker, pc'[v] = "renew_row", NEW o \in Order, Renewal(o)'
      PROVE  order'[o].created_at < now' - RecentDays
  <2>1. CASE Same(v)
    <3>1. pc[v] = "renew_row"
      BY <1>2, <2>1 DEF Same
    <3>2. \A w \in Worker : ~RenewRow(w)
      BY <1>0, <1>2, <1>c, <3>1 DEF OneRun, Renewing
    <3>3. Renewal(o) /\ order'[o].created_at = order[o].created_at
      BY <1>0, <1>2, <3>2, RenewalKinds
    <3>4. order[o].created_at < now - RecentDays
      BY <1>0, <3>1, <3>3 DEF RowApart
    <3> QED
      BY <1>a, <1>b, <3>3, <3>4
  <2>2. CASE Acts(v)
    <3>1. RenewCharge(v)
      BY <1>0, <1>2, <2>2, ActsMove DEF Destinations
    <3>2. ~recent_charge /\ order' = order /\ now' = now
      BY <3>1 DEF RenewCharge
    <3>3. order[o].type = "recurring" /\ bank'[o] \notin Over
      BY <1>2, <3>2 DEF Renewal
    <3>4. bank[o] \notin Over
      BY <1>0, <3>3, BankKinds, OverStays
    <3>5. order[o].status \notin {"failed", "cancelled"}
      BY <1>0, <3>4 DEF OverAtBank, Over
    <3>6. ~(order[o].created_at >= now - RecentDays)
      BY <3>2, <3>3, <3>5 DEF recent_charge
    <3> QED
      BY <1>a, <1>b, <3>2, <3>6
  <2> QED
    BY <1>0, <2>1, <2>2, OneActor
<1>3. RowApart'
  BY <1>2 DEF RowApart
<1>4. ASSUME NEW o \in Order, NEW p \in Order, o # p, NEW w \in Worker, RenewRow(w), mem[w].key = o,
             order'[o].created_at = now, Renewal(p)'
      PROVE  order'[p].created_at < now - RecentDays
  <2>1. \A v \in Worker : RenewRow(v) => v = w
    BY <1>0, <1>4, <1>c DEF OneRun, Renewing
  <2>2. Renewal(p) /\ order'[p].created_at = order[p].created_at
    BY <1>0, <1>4, <2>1, RenewalKinds
  <2> QED
    BY <1>0, <1>4, <1>c, <2>2 DEF RowApart
<1>5. ASSUME NEW o \in Order, NEW p \in Order, o # p, Renewal(o)', Renewal(p)'
      PROVE  order'[o].created_at - order'[p].created_at \notin -RecentDays .. RecentDays
  <2>1. CASE \E w \in Worker : RenewRow(w) /\ mem[w].key = o /\ order'[o].created_at = now
    BY <1>4, <1>5, <1>a, <1>b, <2>1
  <2>2. CASE \E w \in Worker : RenewRow(w) /\ mem[w].key = p /\ order'[p].created_at = now
    BY <1>4, <1>5, <1>a, <1>b, <2>2
  <2>3. CASE /\ Renewal(o) /\ order'[o].created_at = order[o].created_at
             /\ Renewal(p) /\ order'[p].created_at = order[p].created_at
    <3>1. order[o].created_at - order[p].created_at \notin -RecentDays .. RecentDays
      BY <1>0, <1>5, <2>3 DEF RowsApart
    <3> QED
      BY <2>3, <3>1
  <2> QED
    BY <1>0, <1>5, <2>1, <2>2, <2>3, RenewalKinds
<1>6. RowsApart'
  BY <1>5 DEF RowsApart
<1> QED
  BY <1>1, <1>3, <1>6 DEF RenewInv

\* Two renewals on record that took money lie more than RecentDays apart, for any number
\* of workers and orders, though runs overlap, notices are late or lost, the bank answers
\* late and workers die: the run lock keeps the check of the recent orders and the row of
\* the new one together, and an order that failed or was cancelled is never completed
\* afterwards (process_recurring_payments, reconcile_pending_payments, bog_webhook).
THEOREM NoDoubleRenewal == Spec => []RenewedOnce
<1>1. Init => RenewInv
  <2> SUFFICES ASSUME Init PROVE RenewInv
    OBVIOUS
  <2>1. /\ \A w \in Worker : pc[w] = "idle"
        /\ \A o \in Order : order[o].status = "none" /\ order[o].type = "none"
    BY DEF Init
  <2> QED
    BY <2>1, TypeInit DEF RenewInv, OverAtBank, OneRun, RowApart, RowsApart, Renewing, Renewal
<1>2. RenewInv /\ [Next]_vars => RenewInv'
  BY RenewStep
<1>3. RenewInv => RenewedOnce
  BY DEF RenewInv, RowsApart, RenewedOnce, Renewal, Over
<1> QED
  BY <1>1, <1>2, <1>3, PTL DEF Spec

----------------------------------------------------------------------------
(* A payment extends the subscription once *)

\* The row an order has stays what it is.
LEMMA RowStays ==
    ASSUME NewRows, NEW o, RowMoves(o), order[o].status # "none"
    PROVE  order'[o].type = order[o].type /\ order'[o].status # "none"
<1>1. \A w \in Worker : RenewRow(w) \/ TrialRow(w) => mem[w].key # o
  BY DEF NewRows, Recording, RenewRow, TrialRow
<1> QED
  BY <1>1 DEF RowMoves, Marked

LEMMA NewRowsStep ==
    ASSUME TypeOK, OverAtBank, NewRows, [Next]_vars
    PROVE  NewRows'
<1>0. \A o \in Order : BankMoves(o) /\ RowMoves(o)
  BY BankKinds, RowKinds
<1>a. \A v \in Worker : pc[v] \in WithOrder => mem[v].key \in Order
  BY TypeParts DEF Placed
<1>1. ASSUME NEW o \in Order, order'[o].status = "none" PROVE order'[o].type = "none"
  BY <1>0, <1>1 DEF RowMoves, Marked, NewRows
<1>2. ASSUME NEW v \in Worker, pc'[v] \in Recording
      PROVE  \/ Same(v) /\ pc[v] \in Recording
             \/ Acts(v) /\ mem'[v].key \in Order /\ bank[mem'[v].key] = "none" /\ order[mem'[v].key].status = "none"
                        /\ bank'[mem'[v].key] = "processing" /\ order' = order
  <2>1. CASE Same(v)
    BY <1>2, <2>1 DEF Same
  <2>2. CASE Acts(v)
    <3>1. /\ RenewCharge(v) \/ TrialCharge(v)
          /\ \E o \in Order : NextKey(o) /\ Taken(o) /\ mem'[v].key = o
      BY <1>2, <2>2, ActsMove DEF Destinations, Recording
    <3>2. order' = order
      BY <3>1 DEF RenewCharge, TrialCharge
    <3>3. \A o \in Order : Taken(o) => bank'[o] = "processing"
      BY DEF Taken, TypeOK, Charge
    <3> QED
      BY <2>2, <3>1, <3>2, <3>3 DEF NextKey
  <2> QED
    BY <2>1, <2>2, OneActor
<1>3. ASSUME NEW v \in Worker, pc'[v] \in Recording
      PROVE  order'[mem'[v].key].status = "none" /\ bank'[mem'[v].key] # "none"
  <2>1. CASE Same(v) /\ pc[v] \in Recording
    <3> DEFINE k == mem[v].key
    <3>1. k \in Order /\ order[k].status = "none" /\ bank[k] # "none" /\ mem'[v].key = k
      BY <1>a, <2>1 DEF NewRows, Recording, WithOrder, Same
    <3> HIDE DEF k
    <3>2. ASSUME NEW w \in Worker, RenewRow(w) \/ TrialRow(w) PROVE mem[w].key # k
      <4>1. pc[w] \in Recording /\ pc'[w] \notin Recording
        BY <3>2, GoesMoves DEF RenewRow, TrialRow, Ends, Moves, Recording
      <4> QED
        BY <1>3, <2>1, <4>1 DEF NewRows, k
    <3>3. ASSUME NEW w \in Worker, pc[w] \in {"settle", "refuse"} PROVE mem[w].key # k
      BY <3>1, <3>3 DEF NewRows
    <3>4. ASSUME NEW w \in Worker PROVE ~Completed(w, k) /\ ~Settles(w, k)
      BY <3>1, <3>3 DEF Completed, Settles, _settle_paid
    <3>5. order'[k] = order[k]
      BY <1>0, <3>1, <3>2, <3>3, <3>4 DEF RowMoves
    <3> QED
      BY <1>0, <3>1, <3>5, OverStays
  <2> QED
    BY <1>2, <1>3, <2>1
<1>4. ASSUME NEW v \in Worker, NEW w \in Worker, pc'[v] \in Recording, pc'[w] \in Recording,
             mem'[v].key = mem'[w].key, v # w
      PROVE  FALSE
  <2>1. CASE Same(v) /\ Same(w)
    BY <1>4, <2>1 DEF Same, NewRows
  <2>2. ASSUME NEW x \in Worker, NEW y \in Worker, x # y, Acts(x), bank[mem'[x].key] = "none",
               pc'[y] \in Recording, mem'[x].key = mem'[y].key
        PROVE  FALSE
    <3>1. Same(y)
      BY <2>2, ActsMove
    <3> QED
      BY <2>2, <3>1 DEF Same, NewRows
  <2> QED
    BY <1>2, <1>4, <2>1, <2>2
<1>5. ASSUME NEW v \in Worker, pc'[v] = "trial_save" PROVE order'[mem'[v].key].type = "trial_conversion"
  <2>1. CASE Same(v)
    <3> DEFINE k == mem[v].key
    <3>1. k \in Order /\ order[k].type = "trial_conversion" /\ order[k].status # "none" /\ mem'[v].key = k
      BY <1>5, <1>a, <2>1 DEF Same, NewRows, WithOrder
    <3> QED
      BY <1>0, <3>1, RowStays
  <2>2. CASE Acts(v)
    <3>1. TrialRow(v) /\ mem'[v] = mem[v]
      BY <1>5, <2>2, ActsMove DEF Destinations
    <3>2. mem[v].key \in Order
      BY <1>a, <3>1 DEF TrialRow, WithOrder
    <3> QED
      BY <3>1, <3>2 DEF TrialRow, TypeOK
  <2> QED
    BY <2>1, <2>2, OneActor
<1>6. ASSUME NEW v \in Worker, pc'[v] \in {"settle", "refuse"} PROVE order'[mem'[v].key].status # "none"
  <2>1. mem'[v].key \in Order /\ order[mem'[v].key].status # "none"
    <3>1. CASE Same(v)
      BY <1>6, <1>a, <3>1 DEF Same, NewRows, WithOrder
    <3>2. CASE Acts(v)
      BY <1>6, <3>2, ActsMove DEF Destinations, ReconcileAsk
    <3> QED
      BY <3>1, <3>2, OneActor
  <2> QED
    BY <1>0, <2>1, RowStays
<1> QED
  BY <1>1, <1>3, <1>4, <1>5, <1>6 DEF NewRows

LEMMA PaidStep ==
    ASSUME TypeOK, OverAtBank, NewRows, PaidOnce, [Next]_vars
    PROVE  PaidOnce'
<1>0. \A o \in Order : BankMoves(o) /\ RowMoves(o)
  BY BankKinds, RowKinds
<1>a. \A v \in Worker : pc[v] \in WithOrder => mem[v].key \in Order
  BY TypeParts DEF Placed
<1>1. ASSUME NEW o \in Order, order'[o].status = "paid" PROVE bank'[o] \in {"completed", "refunded"}
  <2>1. bank[o] \in {"completed", "refunded"}
    <3>1. ASSUME NEW w \in Worker, Completed(w, o) \/ Settles(w, o) PROVE bank[o] \in {"completed", "refunded"}
      BY <3>1 DEF Completed, Settles, _settle_paid, PaidOnce
    <3> QED
      BY <1>0, <1>1, <3>1 DEF RowMoves, Marked, PaidOnce
  <2> QED
    BY <1>0, <2>1, OverStays
<1>2. ASSUME NEW v \in Worker, pc'[v] = "settle" PROVE bank'[mem'[v].key] \in {"completed", "refunded"}
  <2>1. mem'[v].key \in Order /\ bank[mem'[v].key] \in {"completed", "refunded"}
    <3>1. CASE Same(v)
      BY <1>2, <1>a, <3>1 DEF Same, PaidOnce, WithOrder
    <3>2. CASE Acts(v)
      BY <1>2, <3>2, ActsMove DEF Destinations
    <3> QED
      BY <3>1, <3>2, OneActor
  <2> QED
    BY <1>0, <2>1, OverStays
<1>3. ASSUME NEW v \in Worker, pc'[v] = "extend"
      PROVE  (Same(v) /\ pc[v] = "extend") \/ (Acts(v) /\ mem'[v].key \in Order /\ Completed(v, mem'[v].key))
  <2>1. CASE Same(v)
    BY <1>3, <2>1 DEF Same
  <2>2. CASE Acts(v)
    BY <1>3, <2>2, ActsMove DEF Destinations
  <2> QED
    BY <2>1, <2>2, OneActor
<1>4. ASSUME NEW v \in Worker, pc'[v] = "extend" PROVE order'[mem'[v].key].status = "paid"
  <2>1. CASE Same(v) /\ pc[v] = "extend"
    <3> DEFINE k == mem[v].key
    <3>1. k \in Order /\ order[k].status = "paid" /\ bank[k] \in {"completed", "refunded"} /\ mem'[v].key = k
      BY <1>a, <2>1 DEF Same, PaidOnce, WithOrder
    <3>2. \A w \in Worker : ~(pc[w] = "refuse" /\ mem[w].key = k)
      BY <2>1 DEF PaidOnce
    <3>3. \A w \in Worker : RenewRow(w) \/ TrialRow(w) => mem[w].key # k
      BY <3>1 DEF NewRows, Recording, RenewRow, TrialRow
    <3> HIDE DEF k
    <3> QED
      BY <1>0, <3>1, <3>2, <3>3 DEF RowMoves, Marked
  <2>2. CASE mem'[v].key \in Order /\ Completed(v, mem'[v].key)
    BY <2>2 DEF Completed, TypeOK, OrderRow
  <2> QED
    BY <1>3, <1>4, <2>1, <2>2
<1>5. ASSUME NEW v \in Worker, NEW w \in Worker, pc'[v] = "extend", pc'[w] \in {"extend", "refuse"},
             mem'[v].key = mem'[w].key, v # w
      PROVE  FALSE
  <2>1. CASE Same(v) /\ pc[v] = "extend" /\ Same(w)
    BY <1>5, <2>1 DEF Same, PaidOnce
  <2>2. CASE Acts(v) /\ Completed(v, mem'[v].key)
    <3>1. Same(w)
      BY <1>5, <2>2, ActsMove
    <3>2. order[mem[w].key].status # "paid" /\ bank[mem[w].key] = "completed" /\ pc[w] \in {"extend", "refuse"}
      BY <1>5, <2>2, <3>1 DEF Same, Completed
    <3> QED
      BY <3>2 DEF PaidOnce, OverAtBank, Over
  <2>3. CASE Same(v) /\ pc[v] = "extend" /\ Acts(w)
    <3>1. order[mem'[w].key].status = "paid"
      BY <1>5, <2>3 DEF Same, PaidOnce
    <3>2. \E o \in Order : mem'[w].key = o /\ (Completed(w, o) \/ ReconcileAsk(w, o))
      BY <1>5, <2>3, ActsMove DEF Destinations
    <3> QED
      BY <3>1, <3>2 DEF Completed, ReconcileAsk
  <2> QED
    BY <1>3, <1>5, <2>1, <2>2, <2>3, OneActor
<1> QED
  BY <1>1, <1>2, <1>4, <1>5 DEF PaidOnce

LEMMA OrderFinite == IsFiniteSet(Order)
<1>1. IsFiniteSet({0})
  BY FS_Singleton
<1> QED
  BY <1>1, KeyAssumption, FS_Product DEF Order

LEMMA AppliedFinite == IsFiniteSet(Applied) /\ Cardinality(Applied) \in Nat /\ Applied \subseteq Counted
<1>1. Applied \subseteq Order /\ Applied \subseteq Counted
  BY DEF Applied, Counted
<1> QED
  BY <1>1, OrderFinite, FS_Subset, FS_CardinalityType

LEMMA AppliedFiniteNext == IsFiniteSet(Applied') /\ Cardinality(Applied') \in Nat
<1>1. Applied' \subseteq Order
  BY DEF Applied, Counted
<1> QED
  BY <1>1, OrderFinite, FS_Subset, FS_CardinalityType

\* A payment that was applied, or will not be, stays so.
LEMMA AppliedStays ==
    ASSUME TypeOK, OverAtBank, NewRows, PaidOnce, [Next]_vars
    PROVE  Applied \subseteq Applied'
<1> SUFFICES ASSUME NEW o \in Applied PROVE o \in Applied'
  OBVIOUS
<1>0. o \in Order /\ o \in Counted /\ o \notin Open /\ BankMoves(o) /\ RowMoves(o)
  BY BankKinds, RowKinds DEF Applied, Counted
<1>1. order[o].type = "trial_conversion" => order'[o].type = "trial_conversion"
  BY <1>0, RowStays DEF NewRows
<1>2. o \in Counted'
  BY <1>0, <1>1, OverStays DEF Counted
<1>3. ASSUME o \in Open' PROVE FALSE
  <2>1. order[o].type # "trial_conversion" /\ bank[o] \in {"completed", "refunded"}
    BY <1>0, <1>1, <1>3 DEF Open, Counted
  <2>2. ~(bank[o] = "completed" /\ order[o].status # "paid") /\ ~Extending(o)
    BY <1>0, <2>1 DEF Open
  <2>3. CASE bank'[o] = "completed" /\ order'[o].status # "paid"
    <3>1. bank[o] = "completed" /\ order[o].status = "paid"
      BY <1>0, <2>1, <2>2, <2>3 DEF BankMoves
    <3>2. \A w \in Worker : RenewRow(w) \/ TrialRow(w) => mem[w].key # o
      BY <3>1 DEF NewRows, Recording, RenewRow, TrialRow
    <3> QED
      BY <1>0, <2>3, <3>1, <3>2 DEF RowMoves, Marked
  <2>4. ASSUME NEW v \in Worker, pc'[v] = "extend", mem'[v].key = o PROVE FALSE
    <3>1. CASE Same(v)
      BY <2>2, <2>4, <3>1 DEF Same, Extending
    <3>2. CASE Acts(v)
      <4>1. Completed(v, o)
        BY <2>4, <3>2, ActsMove DEF Destinations
      <4> QED
        BY <2>2, <4>1 DEF Completed
    <3> QED
      BY <3>1, <3>2, OneActor
  <2> QED
    BY <1>3, <2>3, <2>4 DEF Open, Extending
<1> QED
  BY <1>2, <1>3 DEF Applied

\* The latest day the subscription may be due: it only grows, by an interval with each
\* payment applied.
LEMMA LatestGrows ==
    ASSUME TypeOK, TypeOK', [Next]_vars, NEW n \in Nat, Cardinality(Applied) + n <= Cardinality(Applied')
    PROVE  Latest \in Nat /\ Latest' \in Nat /\ Latest + Interval * n <= Latest'
<1> DEFINE a == Cardinality(Applied)
           b == Cardinality(Applied')
           x == IF FirstDue > now THEN FirstDue ELSE now
           y == IF FirstDue > now' THEN FirstDue ELSE now'
<1>1. a \in Nat /\ b \in Nat /\ Interval \in Nat \ {0} /\ FirstDue \in Nat /\ a + n <= b
  BY AppliedFinite, AppliedFiniteNext, DayTypes
<1>2. x \in Nat /\ y \in Nat /\ x <= y
  <2>1. now \in Nat /\ now' \in Nat /\ now <= now'
    BY DayMoves
  <2> QED
    BY <1>1, <2>1
<1>3. Latest = x + Interval * a /\ Latest' = y + Interval * b
  BY DEF Latest
<1> HIDE DEF a, b, x, y
<1>4. a + n \in Nat
  BY <1>1
<1>5. Interval * (a + n) <= Interval * b /\ Interval * a \in Nat /\ Interval * b \in Nat /\ Interval * n \in Nat
  BY <1>1, <1>4, Multiples
<1>6. Interval * (a + n) = Interval * a + Interval * n
  BY <1>1
<1>7. x + Interval * a + Interval * n <= y + Interval * b
  BY <1>2, <1>5, <1>6
<1> QED
  BY <1>2, <1>3, <1>5, <1>7

\* One interval from today is in time when a payment has been applied.
LEMMA OneInterval ==
    ASSUME TypeOK', NEW k \in Applied', NEW d \in Nat, d <= now' + Interval
    PROVE  d <= Latest'
<1> DEFINE b == Cardinality(Applied')
           y == IF FirstDue > now' THEN FirstDue ELSE now'
<1>0. now' \in Nat
  BY DayTypes DEF TypeOK
<1>1. b \in Nat /\ Interval \in Nat \ {0} /\ FirstDue \in Nat /\ y \in Nat /\ now' <= y
  BY <1>0, AppliedFiniteNext, DayTypes
<1>2. b # 0
  BY AppliedFiniteNext, FS_EmptySet
<1>3. Latest' = y + Interval * b
  BY DEF Latest
<1> HIDE DEF b, y
<1>4. Interval * 1 <= Interval * b /\ Interval * b \in Nat /\ Interval * 1 = Interval
  BY <1>1, <1>2, Multiples
<1> DEFINE z == Interval * b
<1>5. z \in Nat /\ Interval <= z
  BY <1>4
<1>6. Latest' = y + z
  BY <1>3
<1> HIDE DEF z
<1>7. d <= y + z
  <2> DEFINE t == now'
  <2>1. t \in Nat /\ t <= y /\ y \in Nat /\ Interval \in Nat /\ z \in Nat /\ Interval <= z /\ d <= t + Interval
    BY <1>0, <1>1, <1>5
  <2> HIDE DEF t
  <2> QED
    BY ONLY <2>1, d \in Nat
<1> QED
  BY <1>6, <1>7

\* How the due day of the subscription moves.
LEMMA SubKinds ==
    ASSUME TypeOK, [Next]_vars
    PROVE  \/ sub'.next_billing_date = sub.next_billing_date
           \/ \E w \in Worker : pc[w] \in WithSub /\ sub'.next_billing_date = mem[w].sub.next_billing_date
           \/ \E w \in Worker : /\ Extend(w) /\ order[mem[w].key].type # "trial_conversion"
                                /\ sub'.next_billing_date \in {Advanced(sub), now + Interval}
           \/ \E w \in Worker : /\ Settles(w, mem[w].key) /\ sub.next_billing_date <= now
                                /\ sub'.next_billing_date = Advanced(sub)
           \/ \E w \in Worker : pc[w] = "trial_save" /\ TrialSave(w) /\ sub'.next_billing_date = now + Interval
<1>0. Tables /\ sub \in Sub /\ now \in Nat /\ now + Interval \in Nat /\ Advanced(sub) \in Nat
  <2>1. Tables /\ sub \in Sub /\ now \in Nat /\ now + Interval \in Nat
    BY DayTypes, TypeParts DEF Tables
  <2> QED
    BY <2>1, AdvancedBound, SubWrite
<1>a. \A w \in Worker : pc[w] \in WithSub => mem[w].sub \in Sub
  BY TypeParts DEF Placed
<1> DEFINE Goal ==
           \/ sub'.next_billing_date = sub.next_billing_date
           \/ \E w \in Worker : pc[w] \in WithSub /\ sub'.next_billing_date = mem[w].sub.next_billing_date
           \/ \E w \in Worker : /\ Extend(w) /\ order[mem[w].key].type # "trial_conversion"
                                /\ sub'.next_billing_date \in {Advanced(sub), now + Interval}
           \/ \E w \in Worker : /\ Settles(w, mem[w].key) /\ sub.next_billing_date <= now
                                /\ sub'.next_billing_date = Advanced(sub)
           \/ \E w \in Worker : pc[w] = "trial_save" /\ TrialSave(w) /\ sub'.next_billing_date = now + Interval
<1>b. sub' = sub => Goal
  OBVIOUS
<1>c. ASSUME NEW w \in Worker, pc[w] \in WithSub,
             \/ sub' = [mem[w].sub EXCEPT !.is_active = FALSE] \/ sub' = [mem[w].sub EXCEPT !.parent_order_id = FALSE]
      PROVE  Goal
  <2>1. sub'.next_billing_date = mem[w].sub.next_billing_date
    BY <1>a, <1>c, SubWrite
  <2> QED
    BY <1>c, <2>1
<1>1. ASSUME NEW w \in Worker, Extend(w) PROVE Goal
  <2>1. CASE sub' = sub
    BY <2>1
  <2>2. CASE order[mem[w].key].type = "recurring" /\ sub' = Billed(sub, Advanced(sub))
    <3>1. sub'.next_billing_date = Advanced(sub)
      BY <1>0, <2>2, BilledType
    <3> QED
      BY <1>1, <2>2, <3>1
  <2>3. CASE /\ order[mem[w].key].type = "reactivation"
             /\ \E saved \in BOOLEAN : sub' = [Billed(sub, now + Interval) EXCEPT
                                                   !.is_active = TRUE, !.parent_order_id = @ \/ saved]
    <3>1. Billed(sub, now + Interval) \in Sub /\ Billed(sub, now + Interval).next_billing_date = now + Interval
      BY <1>0, BilledType
    <3>2. ASSUME NEW s \in Sub, NEW saved
          PROVE  [s EXCEPT !.is_active = TRUE, !.parent_order_id = @ \/ saved].next_billing_date = s.next_billing_date
      BY DEF Sub
    <3>3. sub'.next_billing_date = now + Interval
      BY <2>3, <3>1, <3>2
    <3> QED
      BY <1>1, <2>3, <3>3
  <2> HIDE DEF Goal
  <2> QED
    BY <1>1, <2>1, <2>2, <2>3 DEF Extend
<1>2. ASSUME NEW w \in Worker, _settle_paid(w) PROVE Goal
  <2>1. CASE sub' = sub
    BY <2>1
  <2>2. CASE /\ order[mem[w].key].status # "paid" /\ ~(sub.next_billing_date > now)
             /\ sub' = Billed(sub, Advanced(sub))
    <3>1. sub'.next_billing_date = Advanced(sub)
      BY <1>0, <2>2, BilledType
    <3>2. sub.next_billing_date <= now
      <4>1. sub.next_billing_date \in Nat /\ now \in Nat
        BY <1>0, SubWrite
      <4> QED
        BY <2>2, <4>1
    <3> QED
      BY <1>2, <2>2, <3>1, <3>2 DEF Settles
  <2> HIDE DEF Goal
  <2> QED
    BY <1>2, <2>1, <2>2 DEF _settle_paid
<1>3. ASSUME NEW w \in Worker, TrialSave(w) PROVE Goal
  <2>1. CASE pc[w] = "trial_save" /\ sub' = [Billed(mem[w].sub, now + Interval) EXCEPT !.is_trial = FALSE]
    <3>1. mem[w].sub \in Sub
      BY <1>a, <2>1 DEF WithSub
    <3>2. Billed(mem[w].sub, now + Interval) \in Sub
          /\ Billed(mem[w].sub, now + Interval).next_billing_date = now + Interval
      BY <1>0, <3>1, BilledType
    <3>3. sub'.next_billing_date = now + Interval
      BY <2>1, <3>2, SubWrite
    <3> QED
      BY <1>3, <2>1, <3>3
  <2>2. CASE pc[w] = "trial_stop" /\ sub' = [mem[w].sub EXCEPT !.is_active = FALSE]
    BY <1>c, <2>2 DEF WithSub
  <2> HIDE DEF Goal
  <2> QED
    BY <1>3, <2>1, <2>2 DEF TrialSave
<1>4. ASSUME NEW w \in Worker, SuspendSub(w) \/ StatusSub(w) \/ PageSave(w) PROVE Goal
  <2>1. /\ pc[w] \in WithSub
        /\ \/ sub' = [mem[w].sub EXCEPT !.is_active = FALSE]
           \/ sub' = [mem[w].sub EXCEPT !.parent_order_id = FALSE]
    BY <1>4 DEF SuspendSub, StatusSub, PageSave, WithSub
  <2> HIDE DEF Goal
  <2> QED
    BY <1>c, <2>1
<1> HIDE DEF Goal
<1>5. ASSUME Tick \/ LockExpires \/ BankSettles \/ reactivate_subscription_payment \/ UNCHANGED vars PROVE Goal
  BY <1>5, <1>b DEF Tick, LockExpires, BankSettles, reactivate_subscription_payment, vars
<1>6. ASSUME NEW w \in Worker, Begin(w) \/ Crash(w) PROVE sub' = sub
  BY <1>6 DEF Begin, Crash, RenewLoad, RetryLoad, StatusLoad, TrialLoad, PageLoad, Completed, Rejected, ReconcileAsk
<1>7. ASSUME NEW w \in Worker,
             \/ RenewSkip(w) \/ RenewCharge(w) \/ RenewRow(w) \/ schedule_payment_retries(w) \/ NoCardToRetry(w)
             \/ RetryMark(w) \/ RetryDone(w) \/ RetrySkip(w) \/ RetryCharge(w) \/ RetryNotLast(w)
             \/ SuspendTenant(w) \/ ReconcileRefuse(w) \/ StatusTenant(w) \/ TrialCharge(w) \/ TrialRow(w)
      PROVE  sub' = sub
  BY <1>7 DEF RenewSkip, RenewCharge, RenewRow, schedule_payment_retries, NoCardToRetry, RetryMark, RetryDone,
      RetrySkip, RetryCharge, RetryNotLast, SuspendTenant, ReconcileRefuse, StatusTenant, TrialCharge, TrialRow
<1>8. ASSUME NEW w \in Worker, Continue(w) PROVE Goal
  BY <1>1, <1>2, <1>3, <1>4, <1>7, <1>8, <1>b DEF Continue
<1>9. Goal
  BY <1>5, <1>6, <1>8, <1>b DEF Next
<1> QED
  BY <1>9 DEF Goal

\* What a payment that ends the wait for it does to the payments applied.
LEMMA JustApplied ==
    ASSUME TypeOK, OverAtBank, NewRows, PaidOnce, [Next]_vars, NEW w \in Worker,
           Extend(w) \/ Settles(w, mem[w].key)
    PROVE  /\ mem[w].key \in Applied' /\ now' = now
           /\ Extend(w) /\ order[mem[w].key].type # "trial_conversion" => mem[w].key \notin Applied
<1> DEFINE k == mem[w].key
<1>0. TypeOK' /\ k \in Order /\ bank' = bank /\ now' = now /\ Acts(w) /\ pc'[w] = "idle"
  <2>1. pc[w] \in {"extend", "settle"} /\ bank' = bank /\ now' = now /\ Ends(w) /\ Acts(w)
    BY DEF Extend, Settles, _settle_paid, Acts, Continue
  <2>2. k \in Order
    BY <2>1, TypeParts DEF Placed, WithOrder
  <2>3. pc'[w] = "idle"
    BY <2>1, GoesMoves DEF Ends, Moves
  <2> QED
    BY <2>1, <2>2, <2>3, TypeStep
<1>1. bank[k] \in {"completed", "refunded"} /\ order'[k].status = "paid"
  <2>1. CASE Extend(w)
    BY <1>0, <2>1 DEF Extend, PaidOnce
  <2>2. CASE Settles(w, k)
    <3>1. bank[k] \in {"completed", "refunded"}
      BY <2>2 DEF Settles, _settle_paid, PaidOnce
    <3>2. order' = [order EXCEPT ![k].status = "paid"]
      BY <2>2 DEF Settles, _settle_paid
    <3> QED
      BY <1>0, <3>1, <3>2 DEF TypeOK, OrderRow
  <2> QED
    BY <2>1, <2>2
<1>2. ASSUME NEW v \in Worker, pc'[v] = "extend", mem'[v].key = k PROVE FALSE
  <2>1. v # w /\ Same(v)
    BY <1>0, <1>2, ActsMove
  <2>2. pc[v] = "extend" /\ mem[v].key = k
    BY <1>2, <2>1 DEF Same
  <2>3. order[k].status = "paid"
    BY <2>2 DEF PaidOnce
  <2> QED
    BY <2>1, <2>2, <2>3 DEF Extend, Settles, PaidOnce
<1>3. k \in Applied'
  BY <1>0, <1>1, <1>2 DEF Applied, Counted, Open, Extending
<1>4. ASSUME Extend(w), order[k].type # "trial_conversion" PROVE k \notin Applied
  BY <1>0, <1>4 DEF Extend, Applied, Open, Extending
<1> QED
  BY <1>0, <1>3, <1>4

LEMMA AheadStep ==
    ASSUME AheadInv, [Next]_vars
    PROVE  AheadInv'
<1>0. TypeOK /\ OverAtBank /\ NewRows /\ PaidOnce /\ WithinLatest
  BY DEF AheadInv
<1>1. TypeOK' /\ OverAtBank' /\ NewRows' /\ PaidOnce'
  BY <1>0, TypeStep, OverStep, NewRowsStep, PaidStep
<1>a. now \in Nat /\ now' \in Nat /\ Interval \in Nat
  BY <1>0, <1>1, DayMoves, DayTypes
<1>b. /\ sub.next_billing_date \in Nat /\ sub'.next_billing_date \in Nat
      /\ \A v \in Worker : pc[v] \in WithSub => mem[v].sub.next_billing_date \in Nat
  BY <1>0, <1>1, SubWrite DEF TypeOK
<1>2. Applied \subseteq Applied' /\ Cardinality(Applied) <= Cardinality(Applied')
  BY <1>0, AppliedStays, AppliedFinite, AppliedFiniteNext, FS_Subset
<1>3. Latest \in Nat /\ Latest' \in Nat /\ Latest <= Latest'
  <2>1. Cardinality(Applied) + 0 <= Cardinality(Applied') /\ 0 \in Nat
    BY <1>2, AppliedFinite
  <2>2. Latest \in Nat /\ Latest' \in Nat /\ Latest + Interval * 0 <= Latest'
    BY <1>0, <1>1, <2>1, LatestGrows
  <2>3. Interval * 0 = 0
    BY <1>a
  <2> QED
    BY <2>2, <2>3
<1>c. /\ sub.next_billing_date <= Latest
      /\ \A v \in Worker : pc[v] \in WithSub => mem[v].sub.next_billing_date <= Latest
  BY <1>0 DEF WithinLatest
<1>d. ASSUME NEW d \in Nat, d <= Latest PROVE d <= Latest'
  BY <1>3, <1>d
<1>4. ASSUME NEW w \in Worker, Extend(w), order[mem[w].key].type # "trial_conversion",
             sub'.next_billing_date \in {Advanced(sub), now + Interval}
      PROVE  sub'.next_billing_date <= Latest'
  <2> DEFINE k == mem[w].key
  <2>1. k \in Applied' /\ now' = now /\ k \notin Applied
    BY <1>0, <1>4, JustApplied
  <2>2. CASE sub'.next_billing_date <= now + Interval
    BY <1>1, <1>b, <2>1, <2>2, OneInterval
  <2>3. CASE sub'.next_billing_date = sub.next_billing_date + Interval
    <3>1. Cardinality(Applied \cup {k}) = Cardinality(Applied) + 1
      BY <2>1, AppliedFinite, FS_AddElement
    <3>2. Applied \cup {k} \in SUBSET Applied'
      BY <1>2, <2>1
    <3>3. Cardinality(Applied) + 1 <= Cardinality(Applied')
      BY <3>1, <3>2, AppliedFiniteNext, FS_Subset
    <3>4. Latest + Interval * 1 <= Latest'
      BY <1>0, <1>1, <3>3, LatestGrows
    <3>5. Interval * 1 = Interval
      BY <1>a
    <3> QED
      BY <1>3, <1>a, <1>b, <1>c, <2>3, <3>4, <3>5
  <2>4. Advanced(sub) = sub.next_billing_date + Interval \/ Advanced(sub) <= now + Interval
    BY <1>a, <1>b, AdvancedBound
  <2> QED
    BY <1>4, <1>a, <1>b, <2>2, <2>3, <2>4
<1>5. ASSUME NEW w \in Worker, Settles(w, mem[w].key), sub.next_billing_date <= now,
             sub'.next_billing_date = Advanced(sub)
      PROVE  sub'.next_billing_date <= Latest'
  <2>1. mem[w].key \in Applied' /\ now' = now
    BY <1>0, <1>5, JustApplied
  <2>2. Advanced(sub) = sub.next_billing_date + Interval \/ Advanced(sub) <= now + Interval
    BY <1>a, <1>b, AdvancedBound
  <2>3. sub'.next_billing_date <= now' + Interval
    BY <1>5, <1>a, <1>b, <2>1, <2>2
  <2> QED
    BY <1>1, <1>b, <2>1, <2>3, OneInterval
<1>6. ASSUME NEW w \in Worker, pc[w] = "trial_save", TrialSave(w), sub'.next_billing_date = now + Interval
      PROVE  sub'.next_billing_date <= Latest'
  <2>1. now' = now /\ order' = order
    BY <1>6 DEF TrialSave
  <2>2. mem[w].key \in Order /\ order'[mem[w].key].type = "trial_conversion"
    BY <1>0, <1>6, <2>1, TypeParts DEF Placed, WithOrder, NewRows
  <2>3. mem[w].key \in Applied'
    BY <2>2 DEF Applied, Counted, Open
  <2>4. sub'.next_billing_date <= now' + Interval
    BY <1>6, <1>a, <1>b, <2>1
  <2> QED
    BY <1>1, <1>b, <2>3, <2>4, OneInterval
<1>7. sub'.next_billing_date <= Latest'
  BY <1>0, <1>4, <1>5, <1>6, <1>b, <1>c, <1>d, SubKinds
<1>8. ASSUME NEW v \in Worker, pc'[v] \in WithSub PROVE mem'[v].sub.next_billing_date <= Latest'
  <2>1. mem'[v].sub = sub \/ (pc[v] \in WithSub /\ mem'[v].sub = mem[v].sub)
    <3>1. CASE Same(v)
      BY <1>8, <3>1 DEF Same
    <3>2. CASE Acts(v)
      BY <1>0, <1>8, <3>2, ActsMove DEF Destinations, WithSub, TrialCharge, TrialRow
    <3> QED
      BY <1>0, <3>1, <3>2, OneActor
  <2> QED
    BY <1>b, <1>c, <1>d, <2>1
<1> QED
  BY <1>1, <1>7, <1>8 DEF AheadInv, WithinLatest

\* The subscription is never paid further ahead than the bank was paid for, for any number
\* of workers and orders and any intervals, though the callback, its repetition and the
\* reconciliation race for the same payment, stale rows are saved whole and workers die
\* between marking an order paid and extending the subscription (bog_webhook, _settle_paid,
\* process_trial_expirations, suspend_subscription_for_payment_failure).
THEOREM NeverPaidAhead == Spec => []NeverAhead
<1>1. Init => AheadInv
  <2> SUFFICES ASSUME Init PROVE AheadInv
    OBVIOUS
  <2>1. /\ \A w \in Worker : pc[w] = "idle"
        /\ \A o \in Order : order[o].status = "none" /\ order[o].type = "none"
        /\ sub.next_billing_date = FirstDue /\ now = 0
    BY DEF Init
  <2>2. Interval * Cardinality(Applied) \in Nat /\ FirstDue \in Nat
    BY AppliedFinite, DayTypes, Multiples
  <2>3. sub.next_billing_date <= Latest
    <3> DEFINE z == Interval * Cardinality(Applied)
    <3>1. Latest = FirstDue + z
      BY <2>1, <2>2 DEF Latest
    <3>2. z \in Nat
      BY <2>2
    <3> HIDE DEF z
    <3> QED
      BY <2>1, <2>2, <3>1, <3>2
  <2> QED
    BY <2>1, <2>3, TypeInit DEF AheadInv, OverAtBank, NewRows, PaidOnce, WithinLatest, Recording, WithSub
<1>2. AheadInv /\ [Next]_vars => AheadInv'
  BY AheadStep
<1>3. AheadInv => NeverAhead
  <2> SUFFICES ASSUME AheadInv PROVE NeverAhead
    OBVIOUS
  <2> DEFINE x == IF FirstDue > now THEN FirstDue ELSE now
             a == Cardinality(Applied)
             b == Cardinality(Counted)
  <2>1. TypeOK /\ sub.next_billing_date <= x + Interval * a
    BY DEF AheadInv, WithinLatest, Latest
  <2>2. IsFiniteSet(Counted)
    BY OrderFinite, FS_Subset DEF Counted
  <2>3. a \in Nat /\ b \in Nat /\ a <= b /\ Interval \in Nat \ {0}
    BY <2>2, AppliedFinite, FS_Subset, FS_CardinalityType, DayTypes
  <2>4. x \in Nat /\ sub.next_billing_date \in Nat
    <3>1. now \in Nat /\ FirstDue \in Nat /\ sub \in Sub
      BY <2>1, DayTypes DEF TypeOK
    <3>2. sub.next_billing_date \in Nat
      BY <3>1, SubWrite
    <3> QED
      BY <3>1, <3>2
  <2>5. NeverAhead <=> sub.next_billing_date <= x + Interval * b
    BY DEF NeverAhead
  <2> HIDE DEF x, a, b
  <2>6. Interval * a \in Nat /\ Interval * b \in Nat /\ Interval * a <= Interval * b
    BY <2>3, Multiples
  <2> QED
    BY <2>1, <2>4, <2>5, <2>6
<1> QED
  BY <1>1, <1>2, <1>3, PTL DEF Spec

=============================================================================
