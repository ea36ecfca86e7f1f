------------------------------- MODULE ShopProofs -------------------------------
(***************************************************************************)
(* Proofs about Shop, for any number of workers, products, carts and       *)
(* orders, any baskets, supply, promo limit and offered payment methods.   *)
(***************************************************************************)
EXTENDS Shop, SumTheorems, SequenceTheorems

----------------------------------------------------------------------------
(* The inductive invariants *)

\* What is sold, and with which code, is fixed when the order is created.
SameSale(a, b) == a.items = b.items /\ a.promo = b.promo /\ a.discounted = b.discounted

\* The order a worker is about, and those the sweeper has still to cancel, exist; the
\* instance a request will save as a whole sells what the row does; a transaction begins
\* without a lock.
About(w) ==
    /\ pc[w] \in {"pay", "save", "cancel", "release"} => mem[w].order \in Orders
    /\ pc[w] \in {"cancel", "release"} => mem[w].todo \subseteq Orders
    /\ pc[w] \in {"pay", "save"} => SameSale(mem[w].row, order[mem[w].order])
    /\ pc[w] \in {"priced", "cancel"} => mem[w].n = 0

ShopInv == TypeOK /\ \A w \in Worker : About(w)

\* Stock: a product is reserved by one checkout at a time, which has seen enough of it.
Taken(w) == {mem[w].take[i].product : i \in 1..mem[w].n}

ReserveAlone ==
    \A v, w \in Worker : pc[v] = "reserve" /\ pc[w] = "reserve" /\ v # w => Taken(v) \cap Taken(w) = {}

ReserveBacked ==
    \A w \in Worker : pc[w] = "reserve" =>
        \A p \in Taken(w) : Quantity(SubSeq(mem[w].take, 1, mem[w].n), p) <= stock[p]

LockInv == ShopInv /\ ReserveAlone /\ ReserveBacked

\* Orders, where no request overlaps the one that will save the order: one worker at a
\* time writes an order, from what the row holds, and ends one that has not ended.
NoOverlap == "overlap" \notin Races

Writing == {"pay", "save", "release"}

OneWriter ==
    \A v, w \in Worker : pc[v] \in Writing /\ pc[w] \in Writing /\ mem[v].order = mem[w].order => v = w

Fresh ==
    \A w \in Worker : pc[w] \in {"pay", "save"} => mem[w].row = order[mem[w].order] /\ Unpaid(mem[w].row)

EndsLive == \A w \in Worker : pc[w] = "release" => mem[w].order \in Live

RowsInv == ShopInv /\ OneWriter /\ Fresh /\ EndsLive

\* Where also no cart is edited while it is checked out, what is taken is what is sold.
NoCartEdit == "cart_edit" \notin Races

SoldIsTaken ==
    \A w \in Worker :
        /\ pc[w] = "priced" /\ mem[w].cart # NoCart => cart[mem[w].cart].lines = mem[w].lines
        /\ pc[w] = "reserve" => mem[w].take = mem[w].lines

StockInv == RowsInv /\ SoldIsTaken /\ StockConserved

\* Where also no spent code and no guest's code is used, every use is a live discounted order.
CodesGuarded == "spent_code" \notin Races /\ "guest_code" \notin Races

Discounted == {o \in Live : order[o].discounted}

CodesDiscount ==
    /\ \A o \in Orders : order[o].promo = order[o].discounted
    /\ \A w \in Worker : pc[w] \in {"priced", "reserve"} =>
        /\ mem[w].promo = mem[w].discounted
        /\ mem[w].cart = NoCart => ~mem[w].discounted

UsesCounted == times_used = Cardinality(Discounted) /\ times_used <= MaxUses

PromoInv == RowsInv /\ CodesDiscount /\ UsesCounted

----------------------------------------------------------------------------
(* Type correctness *)

Tables ==
    /\ stock \in [Product -> Int] /\ supply \in [Product -> Nat]
    /\ cart \in [Cart -> [status : {"active", "converted"}, lines : Seq(Line)]]
    /\ order \in [OrderNo -> {NoOrder} \cup OrderRow]
    /\ times_used \in Nat
    /\ opened \subseteq Orders

Placed(w) ==
    /\ pc[w] = "idle" => mem[w] = NoMem
    /\ pc[w] \in {"priced", "reserve"} => mem[w] \in CheckoutMem
    /\ pc[w] \in {"pay", "save"} => mem[w] \in PayMem
    /\ pc[w] \in {"cancel", "release"} => mem[w] \in CancelMem
    /\ InLines(w) => mem[w].n \in 0..Len(Locking(w))

Frame == pc \in [Worker -> Control] /\ DOMAIN mem = Worker

\* A row that is not NoOrder is an order.
LEMMA OrderIsRow ==
    ASSUME Tables, NEW o \in Orders
    PROVE  o \in OrderNo /\ order[o] \in OrderRow
BY DEF Tables, Orders, NoOrder

LEMMA OrderRowFields ==
    ASSUME NEW r \in OrderRow
    PROVE  /\ r.status # "none" /\ r.items \in Seq(Line) /\ r.promo \in BOOLEAN /\ r.discounted \in BOOLEAN
           /\ r.payment_url \in BOOLEAN
BY DEF OrderRow, Terminal

\* A step that writes one existing order leaves what it sells alone.
Rewrites(o, r) ==
    /\ o \in Orders /\ r \in OrderRow /\ SameSale(r, order[o])
    /\ order' = [order EXCEPT ![o] = r]

SalesKept ==
    /\ order' \in [OrderNo -> {NoOrder} \cup OrderRow]
    /\ \A o \in Orders : o \in Orders' /\ SameSale(order'[o], order[o])

LEMMA SameKeeps ==
    ASSUME Tables, order' = order
    PROVE  SalesKept /\ Orders' = Orders
BY DEF Tables, SalesKept, SameSale, Orders

LEMMA RewriteKeeps ==
    ASSUME Tables, NEW o, NEW r, Rewrites(o, r)
    PROVE  SalesKept /\ Orders' = Orders
<1>1. o \in OrderNo /\ r.status # "none" /\ order \in [OrderNo -> {NoOrder} \cup OrderRow]
      /\ order' = [order EXCEPT ![o] = r] /\ r \in OrderRow /\ o \in Orders /\ SameSale(r, order[o])
  BY OrderIsRow, OrderRowFields DEF Rewrites, Tables
<1>2. order' \in [OrderNo -> {NoOrder} \cup OrderRow] /\ order'[o] = r /\ \A q \in OrderNo \ {o} : order'[q] = order[q]
  BY <1>1
<1>3. Orders' = Orders
  BY <1>1, <1>2 DEF Orders
<1>4. \A q \in Orders : SameSale(order'[q], order[q])
  BY <1>1, <1>2 DEF SameSale, Orders
<1> QED
  BY <1>2, <1>3, <1>4 DEF SalesKept

\* A worker that did not move is still where it was.
LEMMA StaysPlaced ==
    ASSUME Tables, SalesKept, NEW v \in Worker, Placed(v), About(v), pc'[v] = pc[v], mem'[v] = mem[v]
    PROVE  Placed(v)' /\ About(v)'
<1>1. \A o \in Orders : o \in Orders' /\ order'[o].items = order[o].items
                        /\ order'[o].promo = order[o].promo /\ order'[o].discounted = order[o].discounted
  BY DEF SalesKept, SameSale
<1>2. About(v)'
  BY <1>1 DEF About, SameSale
<1>3. pc[v] = "release" => mem[v].order \in Orders
  BY DEF About
<1>4. InLines(v) => Locking(v)' = Locking(v)
  BY <1>1, <1>3 DEF InLines, Locking
<1>5. Placed(v)'
  BY <1>4 DEF Placed, InLines
<1> QED
  BY <1>2, <1>5

LEMMA ShopParts == ShopInv <=> Tables /\ Frame /\ \A w \in Worker : Placed(w) /\ About(w)
BY DEF ShopInv, TypeOK, Tables, Frame, Placed

\* One worker goes somewhere, the tables keep their types.
LEMMA GoesInv ==
    ASSUME ShopInv, Tables', SalesKept, NEW w \in Worker, NEW where \in Control, NEW m,
           Goes(w, where, m), Placed(w)', About(w)'
    PROVE  ShopInv'
<1>1. Tables /\ Frame /\ \A v \in Worker : Placed(v) /\ About(v)
  BY ShopParts
<1>2. Frame' /\ \A v \in Worker \ {w} : pc'[v] = pc[v] /\ mem'[v] = mem[v]
  BY <1>1 DEF Frame, Goes
<1>3. \A v \in Worker : Placed(v)' /\ About(v)'
  BY <1>1, <1>2, StaysPlaced
<1>4. TypeOK'
  BY <1>2, <1>3 DEF TypeOK, Tables, Frame, Placed
<1> QED
  BY <1>3, <1>4 DEF ShopInv

LEMMA GoesAt ==
    ASSUME ShopInv, NEW w \in Worker, NEW where, NEW m, Goes(w, where, m)
    PROVE  pc'[w] = where /\ mem'[w] = m
BY DEF ShopInv, TypeOK, Goes

LEMMA EndsInv ==
    ASSUME ShopInv, Tables', SalesKept, NEW w \in Worker, Ends(w)
    PROVE  ShopInv'
<1>1. pc'[w] = "idle" /\ mem'[w] = NoMem
  BY GoesAt DEF Ends
<1>2. Placed(w)' /\ About(w)'
  BY <1>1 DEF Placed, About, InLines
<1>3. "idle" \in Control
  BY DEF Control
<1> QED
  BY <1>2, <1>3, GoesInv DEF Ends

LEMMA StaysInv ==
    ASSUME ShopInv, Tables', SalesKept, pc' = pc, mem' = mem
    PROVE  ShopInv'
<1>1. Tables /\ Frame /\ \A v \in Worker : Placed(v) /\ About(v)
  BY ShopParts
<1>2. \A v \in Worker : Placed(v)' /\ About(v)'
  BY <1>1, StaysPlaced
<1>3. TypeOK'
  BY <1>1, <1>2 DEF TypeOK, Tables, Frame, Placed
<1> QED
  BY <1>2, <1>3 DEF ShopInv

LEMMA CancelGoesInv ==
    ASSUME ShopInv, Tables', SalesKept, NEW w \in Worker, NEW o \in Orders, NEW to \in Terminal,
           NEW todo \in SUBSET Orders,
           Goes(w, "cancel", Cancelling(o, to, todo)) \/ Goes(w, "release", Cancelling(o, to, todo))
    PROVE  ShopInv'
<1>1. Tables /\ o \in Orders' /\ todo \subseteq Orders' /\ o \in OrderNo /\ todo \subseteq OrderNo
  BY ShopParts DEF SalesKept, Orders
<1>2. Cancelling(o, to, todo) \in CancelMem
  BY <1>1 DEF Cancelling, CancelMem
<1>3. pc'[w] \in {"cancel", "release"} /\ mem'[w] = Cancelling(o, to, todo)
  BY GoesAt
<1>4. /\ mem'[w].order = o /\ mem'[w].n = 0 /\ mem'[w].todo = todo
  BY <1>3 DEF Cancelling
<1>5. order'[o].items \in Seq(Line)
  BY <1>1, OrderIsRow, OrderRowFields DEF SalesKept, SameSale
<1>6. Placed(w)'
  <2>1. InLines(w)' => Locking(w)' \in Seq(Line)
    BY <1>3, <1>4, <1>5 DEF InLines, Locking
  <2>2. InLines(w)' => mem'[w].n \in 0..Len(Locking(w)')
    BY <1>4, <2>1
  <2> QED
    BY <1>2, <1>3, <2>2 DEF Placed
<1>7. About(w)'
  BY <1>1, <1>3, <1>4 DEF About
<1>8. {"cancel", "release"} \subseteq Control
  BY DEF Control
<1> QED
  BY <1>6, <1>7, <1>8, GoesInv

LEMMA ContinuesInv ==
    ASSUME ShopInv, Tables', SalesKept, NEW w \in Worker, NEW todo \in SUBSET Orders, Continues(w, todo)
    PROVE  ShopInv'
<1>1. Ends(w) \/ \E o \in todo : Goes(w, "cancel", Cancelling(o, "cancelled", todo \ {o}))
  BY DEF Continues
<1>2. "cancelled" \in Terminal
  BY DEF Terminal
<1>3. \A o \in todo : o \in Orders /\ todo \ {o} \in SUBSET Orders
  OBVIOUS
<1> QED
  BY <1>1, <1>2, <1>3, EndsInv, CancelGoesInv


\* The quantity of a product that some lines ask for.
LEMMA QuantityType ==
    ASSUME NEW lines \in Seq(Line), NEW p
    PROVE  Quantity(lines, p) \in Nat
<1> DEFINE f == [i \in DOMAIN lines |-> IF lines[i].product = p THEN lines[i].quantity ELSE 0]
<1>1. DOMAIN lines = 1..Len(lines) /\ Len(lines) \in Nat
  OBVIOUS
<1>2. IsFiniteSet(DOMAIN lines)
  BY <1>1, FS_Interval
<1>3. \A i \in DOMAIN lines : lines[i] \in Line
  OBVIOUS
<1>4. \A i \in DOMAIN lines : lines[i].quantity \in Nat
  BY <1>3, ShopAssumption DEF Line
<1>5. \A i \in DOMAIN lines : f[i] \in Nat
  BY <1>4
<1> HIDE DEF f
<1>6. SumOver(f, DOMAIN lines) \in Nat
  BY <1>2, <1>5, SumType
<1> QED
  BY <1>6 DEF Quantity, f

\* The rows the actions on one order write.
LEMMA MovesRewrites ==
    ASSUME Tables, NEW o, NoticePaid(o) \/ NoticeRejected(o) \/ mark_paid(o) \/ apply_order_status(o) \/ CourierMoves(o)
    PROVE  \E r : /\ Rewrites(o, r) /\ Moves(o, r)
                  /\ (r.status \in Terminal) = (order[o].status \in Terminal)
                  /\ order[o].payment_status = "paid" => r.payment_status = "paid"
<1>1. o \in Orders
  BY DEF NoticePaid, NoticeRejected, mark_paid, apply_order_status, CourierMoves, Live, Tables
<1>2. order[o] \in OrderRow
  BY <1>1, OrderIsRow
<1> DEFINE Goal == \E r : /\ Rewrites(o, r) /\ Moves(o, r)
                          /\ (r.status \in Terminal) = (order[o].status \in Terminal)
                          /\ order[o].payment_status = "paid" => r.payment_status = "paid"
<1>3. ASSUME NEW r, Moves(o, r), r \in OrderRow, SameSale(r, order[o]),
             (r.status \in Terminal) = (order[o].status \in Terminal),
             order[o].payment_status = "paid" => r.payment_status = "paid"
      PROVE  Goal
  BY <1>1, <1>3 DEF Moves, Rewrites
<1> HIDE DEF Goal
<1>4. {"confirmed", "processing", "shipped", "delivered"} \cap Terminal = {}
  BY DEF Terminal
<1>5. ASSUME NoticePaid(o) PROVE Goal
  <2> DEFINE r == [order[o] EXCEPT !.payment_status = "paid", !.status = "confirmed"]
  <2>1. r \in OrderRow /\ SameSale(r, order[o]) /\ r.status = "confirmed" /\ r.payment_status = "paid"
    BY <1>2 DEF OrderRow, SameSale
  <2>2. Moves(o, r) /\ order[o].status \notin Terminal
    BY <1>5 DEF NoticePaid
  <2> HIDE DEF r
  <2> QED
    BY <1>3, <1>4, <2>1, <2>2
<1>6. ASSUME NoticeRejected(o) PROVE Goal
  <2> DEFINE r == [order[o] EXCEPT !.payment_status = "failed"]
  <2>1. r \in OrderRow /\ SameSale(r, order[o]) /\ r.status = order[o].status
    BY <1>2 DEF OrderRow, SameSale
  <2>2. Moves(o, r) /\ order[o].payment_status # "paid"
    BY <1>6 DEF NoticeRejected
  <2> HIDE DEF r
  <2> QED
    BY <1>3, <2>1, <2>2
<1>7. ASSUME mark_paid(o) PROVE Goal
  <2> DEFINE s == IF order[o].status = "pending" THEN "confirmed" ELSE order[o].status
             r == [order[o] EXCEPT !.payment_status = "paid", !.status = s]
  <2>1. s \in {"confirmed", order[o].status}
    OBVIOUS
  <2>2. Moves(o, r) /\ order[o].status \notin Terminal
    BY <1>7 DEF mark_paid, Live
  <2> HIDE DEF s
  <2>3. r \in OrderRow /\ SameSale(r, order[o]) /\ r.status = s /\ r.payment_status = "paid"
    BY <1>2, <2>1 DEF OrderRow, SameSale
  <2> HIDE DEF r
  <2> QED
    BY <1>3, <1>4, <2>1, <2>2, <2>3
<1>8. ASSUME NEW s \in {"confirmed", "processing", "shipped", "delivered"}, o \in Live,
             Moves(o, [order[o] EXCEPT !.status = s])
      PROVE  Goal
  <2> DEFINE r == [order[o] EXCEPT !.status = s]
  <2>1. r \in OrderRow /\ SameSale(r, order[o]) /\ r.status = s /\ r.payment_status = order[o].payment_status
    BY <1>2 DEF OrderRow, SameSale
  <2>2. Moves(o, r) /\ order[o].status \notin Terminal
    BY <1>8 DEF Live
  <2> HIDE DEF r
  <2> QED
    BY <1>3, <1>4, <2>1, <2>2
<1>9. ASSUME apply_order_status(o) \/ CourierMoves(o) PROVE Goal
  BY <1>8, <1>9, ShopAssumption DEF apply_order_status, CourierMoves
<1>10. Goal
  BY <1>5, <1>6, <1>7, <1>9
<1> QED
  BY <1>10 DEF Goal

\* The rows a request saves after it arranged the payment.
LEMMA PaySaves ==
    ASSUME ShopInv, NEW w \in Worker, PayOnDelivery(w) \/ SavePayment(w)
    PROVE  /\ pc[w] \in {"pay", "save"} /\ Ends(w)
           /\ UNCHANGED <<stock, supply, cart, times_used, opened>>
           /\ \/ order' = order
              \/ \E r : /\ Rewrites(mem[w].order, r)
                        /\ r.status \in {mem[w].row.status, order[mem[w].order].status}
<1>1. Tables /\ Placed(w) /\ About(w)
  BY ShopParts
<1> DEFINE o == mem[w].order
<1>2. pc[w] \in {"pay", "save"} /\ Ends(w) /\ UNCHANGED <<stock, supply, cart, times_used, opened>>
  BY DEF PayOnDelivery, SavePayment
<1>3. /\ o \in Orders /\ SameSale(mem[w].row, order[o]) /\ mem[w].row \in OrderRow /\ mem[w] \in PayMem
  BY <1>1, <1>2 DEF Placed, About, PayMem
<1>4. order[o] \in OrderRow
  BY <1>1, <1>3, OrderIsRow
<1>5. mem[w].method \in {"card", "saved_card", "cash_on_delivery"}
  BY <1>3, ShopAssumption DEF PayMem
<1> HIDE DEF o
<1>6. ASSUME PayOnDelivery(w)
      PROVE  order' = order \/ \E r : Rewrites(o, r) /\ r.status \in {mem[w].row.status, order[o].status}
  <2> DEFINE row == IF mem[w].from = "guest" THEN order[o] ELSE mem[w].row
             r == [row EXCEPT !.payment_method = "cash_on_delivery", !.payment_status = "pending"]
  <2>1. order' = [order EXCEPT ![o] = r] \/ order' = order
    BY <1>6 DEF PayOnDelivery, o
  <2>2. row \in {order[o], mem[w].row}
    OBVIOUS
  <2> HIDE DEF row
  <2>3. row \in OrderRow /\ SameSale(row, order[o])
    BY <1>3, <1>4, <2>2 DEF SameSale
  <2>4. r \in OrderRow /\ SameSale(r, order[o]) /\ r.status = row.status
    BY <2>3 DEF OrderRow, SameSale
  <2> HIDE DEF r
  <2> QED
    BY <1>3, <2>1, <2>2, <2>4 DEF Rewrites
<1>7. ASSUME SavePayment(w)
      PROVE  \E r : Rewrites(o, r) /\ r.status \in {mem[w].row.status, order[o].status}
  <2> DEFINE ps == IF mem[w].method = "saved_card" THEN "processing" ELSE "pending"
             url == IF mem[w].method = "saved_card" THEN mem[w].row.payment_url ELSE TRUE
             r == [mem[w].row EXCEPT !.payment_status = ps, !.payment_method = mem[w].method, !.payment_url = url]
  <2>1. order' = [order EXCEPT ![o] = r]
    BY <1>7 DEF SavePayment, o
  <2>2. ps \in {"processing", "pending"} /\ url \in BOOLEAN
    BY <1>3, OrderRowFields
  <2> HIDE DEF ps, url
  <2>3. r \in OrderRow /\ SameSale(r, order[o]) /\ r.status = mem[w].row.status
    BY <1>3, <1>5, <2>2 DEF OrderRow, SameSale
  <2> HIDE DEF r
  <2> QED
    BY <1>3, <2>1, <2>3 DEF Rewrites
<1> QED
  BY <1>2, <1>6, <1>7 DEF o

\* The order a cancel or a refund ends.
LEMMA ReleaseRewrites ==
    ASSUME ShopInv, NEW w \in Worker, CommitRelease(w)
    PROVE  /\ pc[w] = "release" /\ mem[w].order \in Orders /\ mem[w].todo \in SUBSET Orders
           /\ \E r : /\ Rewrites(mem[w].order, r) /\ r.status \in Terminal
                     /\ r.payment_status \in {order[mem[w].order].payment_status, "refunded"}
<1>1. Tables /\ Placed(w) /\ About(w) /\ pc[w] = "release"
  BY ShopParts DEF CommitRelease
<1> DEFINE o == mem[w].order
<1>2. o \in Orders /\ mem[w].todo \in SUBSET Orders /\ mem[w].to \in Terminal
  BY <1>1 DEF Placed, About, CancelMem
<1>3. order[o] \in OrderRow /\ order \in [OrderNo -> {NoOrder} \cup OrderRow] /\ o \in OrderNo
  BY <1>1, <1>2, OrderIsRow DEF Tables
<1> DEFINE ps == IF mem[w].to = "refunded" THEN "refunded" ELSE order[o].payment_status
           r == [order[o] EXCEPT !.status = mem[w].to, !.payment_status = ps]
<1>4. order' = [order EXCEPT ![o].status = mem[w].to,
                             ![o].payment_status = IF mem[w].to = "refunded" THEN "refunded" ELSE @]
  BY DEF CommitRelease
<1>5. ps \in {order[o].payment_status, "refunded"}
  OBVIOUS
<1>6. order' = [order EXCEPT ![o] = r]
  BY <1>3, <1>4 DEF OrderRow
<1> HIDE DEF ps
<1>7. r \in OrderRow /\ SameSale(r, order[o]) /\ r.status = mem[w].to /\ r.payment_status = ps
  BY <1>2, <1>3, <1>5 DEF OrderRow, SameSale
<1> HIDE DEF r
<1>8. Rewrites(o, r)
  BY <1>2, <1>6, <1>7 DEF Rewrites
<1> QED
  BY <1>1, <1>2, <1>5, <1>7, <1>8

\* The order a checkout creates.
LEMMA CommitCreates ==
    ASSUME ShopInv, NEW w \in Worker, Reserved(w), Commits(w)
    PROVE  /\ mem[w] \in CheckoutMem /\ Created(w) \in OrderRow /\ SalesKept
           /\ \E o \in OrderNo \ Orders :
                /\ order' = [order EXCEPT ![o] = Created(w)] /\ Orders' = Orders \cup {o}
                /\ order'[o] = Created(w) /\ \A q \in Orders : order'[q] = order[q]
                /\ pc'[w] = "pay" /\ mem'[w].order = o /\ mem'[w].row = Created(w) /\ mem'[w] \in PayMem
                /\ \A v \in Worker \ {w} : pc'[v] = pc[v] /\ mem'[v] = mem[v]
           /\ stock' = [p \in Product |-> stock[p] - Quantity(mem[w].take, p)]
           /\ supply' = supply /\ opened' = opened
<1>1. Tables /\ Frame /\ pc[w] = "reserve" /\ mem[w] \in CheckoutMem
  BY ShopParts DEF Placed, Reserved
<1>2. Created(w) \in OrderRow
  <2>1. mem[w].lines \in Seq(Line) /\ mem[w].promo \in BOOLEAN /\ mem[w].discounted \in BOOLEAN
    BY <1>1 DEF CheckoutMem
  <2> QED
    BY <2>1 DEF Created, OrderRow
<1>3. stock' = [p \in Product |-> stock[p] - Quantity(mem[w].take, p)] /\ supply' = supply /\ opened' = opened
  BY DEF Commits
<1> DEFINE from == IF mem[w].cart = NoCart THEN "guest" ELSE "client"
<1>4. PICK o \in OrderNo \ Orders :
        /\ order' = [order EXCEPT ![o] = Created(w)]
        /\ Goes(w, "pay", [order |-> o, row |-> Created(w), method |-> mem[w].method, from |-> from])
  BY DEF Commits
<1>5. from \in {"client", "guest", "staff"} /\ mem[w].method \in Method
  BY <1>1 DEF CheckoutMem
<1> HIDE DEF from
<1>6. /\ pc'[w] = "pay"
      /\ mem'[w] = [order |-> o, row |-> Created(w), method |-> mem[w].method, from |-> from]
  BY <1>4, GoesAt
<1>7. mem'[w].order = o /\ mem'[w].row = Created(w) /\ mem'[w] \in PayMem
  BY <1>2, <1>5, <1>6 DEF PayMem
<1>8. \A v \in Worker \ {w} : pc'[v] = pc[v] /\ mem'[v] = mem[v]
  BY <1>1, <1>4 DEF Frame, Goes
<1>9. order'[o] = Created(w) /\ (\A q \in OrderNo \ {o} : order'[q] = order[q])
      /\ order' \in [OrderNo -> {NoOrder} \cup OrderRow]
  BY <1>1, <1>2, <1>4 DEF Tables
<1>10. Created(w).status # "none"
  BY <1>2, OrderRowFields
<1>11. Orders' = Orders \cup {o} /\ \A q \in Orders : order'[q] = order[q]
  BY <1>9, <1>10 DEF Orders
<1>12. SalesKept
  BY <1>9, <1>11 DEF SalesKept, SameSale
<1> QED
  BY <1>1, <1>2, <1>3, <1>4, <1>6, <1>7, <1>8, <1>9, <1>11, <1>12

LEMMA CommitInv ==
    ASSUME ShopInv, NEW w \in Worker, Reserved(w), Commits(w), times_used' \in Nat,
           cart' \in [Cart -> [status : {"active", "converted"}, lines : Seq(Line)]]
    PROVE  ShopInv'
<1>1. Tables /\ Frame /\ mem[w] \in CheckoutMem
  BY ShopParts, CommitCreates
<1>2. mem[w].take \in Seq(Line)
  BY <1>1 DEF CheckoutMem
<1>3. stock' \in [Product -> Int]
  <2>1. \A p \in Product : stock[p] - Quantity(mem[w].take, p) \in Int
    BY <1>1, <1>2, QuantityType DEF Tables
  <2> QED
    BY <2>1, CommitCreates
<1>4. SalesKept /\ supply' = supply /\ opened' = opened
  BY CommitCreates
<1>5. Tables'
  BY <1>1, <1>3, <1>4 DEF Tables, SalesKept
<1>6. PICK o \in OrderNo \ Orders :
        /\ Orders' = Orders \cup {o} /\ order'[o] = Created(w)
        /\ pc'[w] = "pay" /\ mem'[w].order = o /\ mem'[w].row = Created(w) /\ mem'[w] \in PayMem
        /\ \A v \in Worker \ {w} : pc'[v] = pc[v] /\ mem'[v] = mem[v]
  BY CommitCreates
<1>7. Placed(w)' /\ About(w)'
  BY <1>6 DEF Placed, About, InLines, SameSale
<1>8. \E m : Goes(w, "pay", m)
  BY DEF Commits
<1>9. "pay" \in Control
  BY DEF Control
<1> QED
  BY <1>4, <1>5, <1>7, <1>8, <1>9, GoesInv

LEMMA ShopStep ==
    ASSUME ShopInv, [Next]_vars
    PROVE  ShopInv'
<1>0. Tables /\ Frame /\ \A w \in Worker : Placed(w) /\ About(w)
  BY ShopParts
<1>a. ASSUME UNCHANGED <<stock, supply, cart, order, times_used, opened>> PROVE Tables' /\ SalesKept
  <2>1. SalesKept /\ Orders' = Orders
    BY <1>0, <1>a, SameKeeps
  <2> QED
    BY <1>0, <1>a, <2>1 DEF Tables
<1>b. ASSUME NEW o, NEW r, Rewrites(o, r), UNCHANGED <<supply, cart, opened>>, stock' \in [Product -> Int], times_used' \in Nat
      PROVE  Tables' /\ SalesKept
  <2>1. SalesKept /\ Orders' = Orders
    BY <1>0, <1>b, RewriteKeeps
  <2> QED
    BY <1>0, <1>b, <2>1 DEF Tables, SalesKept
<1>c. stock \in [Product -> Int] /\ times_used \in Nat
      /\ cart \in [Cart -> [status : {"active", "converted"}, lines : Seq(Line)]]
  BY <1>0 DEF Tables
<1>1. ASSUME NEW w \in Worker, NEW c \in Cart \cup {NoCart}, NEW lines \in Seq(Line), NEW method \in Method,
             NEW code \in BOOLEAN, Priced(w, c, lines, method, code)
      PROVE  ShopInv'
  <2> DEFINE d == code /\ times_used < MaxUses
             m == [cart |-> c, lines |-> lines, method |-> method, promo |-> code,
                   discounted |-> d, uses |-> times_used, take |-> << >>, n |-> 0]
  <2>1. Goes(w, "priced", m) /\ UNCHANGED <<stock, supply, cart, order, times_used, opened>>
    BY <1>1 DEF Priced
  <2>2. d \in BOOLEAN
    BY Zenon
  <2>3. << >> \in Seq(Line)
    OBVIOUS
  <2> HIDE DEF d
  <2>4. m \in CheckoutMem /\ m.n = 0
    BY <1>c, <2>2, <2>3 DEF CheckoutMem
  <2> HIDE DEF m
  <2>5. pc'[w] = "priced" /\ mem'[w] = m
    BY <2>1, GoesAt
  <2>6. Placed(w)' /\ About(w)'
    BY <2>4, <2>5 DEF Placed, About, InLines
  <2>7. "priced" \in Control
    BY DEF Control
  <2> QED
    BY <1>a, <2>1, <2>6, <2>7, GoesInv
<1>2. ASSUME NEW w \in Worker, Checkout(w) PROVE ShopInv'
  <2>1. \A c \in Cart : cart[c].lines \in Seq(Line) /\ c \in Cart \cup {NoCart}
    BY <1>c
  <2> QED
    BY <1>1, <1>2, <2>1 DEF Checkout
<1>3. ASSUME NEW w \in Worker, GuestCheckout(w) PROVE ShopInv'
  <2>1. Basket \subseteq Seq(Line) /\ NoCart \in Cart \cup {NoCart}
    BY ShopAssumption
  <2> QED
    BY <1>1, <1>3, <2>1 DEF GuestCheckout
<1>4. ASSUME NEW w \in Worker, LockCart(w) PROVE ShopInv'
  <2> DEFINE now == IF mem[w].cart = NoCart THEN mem[w].lines ELSE cart[mem[w].cart].lines
             m == [mem[w] EXCEPT !.take = now]
  <2>1. Goes(w, "reserve", m) /\ UNCHANGED <<stock, supply, cart, order, times_used, opened>> /\ pc[w] = "priced"
    BY <1>4 DEF LockCart
  <2>2. mem[w] \in CheckoutMem /\ mem[w].n = 0
    BY <1>0, <2>1 DEF Placed, About
  <2>3. now \in Seq(Line)
    BY <1>c, <2>2 DEF CheckoutMem
  <2> HIDE DEF now
  <2>4. m \in CheckoutMem /\ m.n = 0 /\ m.take = now
    BY <2>2, <2>3 DEF CheckoutMem
  <2> HIDE DEF m
  <2>5. pc'[w] = "reserve" /\ mem'[w] = m
    BY <2>1, GoesAt
  <2>6. Len(now) \in Nat
    BY <2>3
  <2>7. Placed(w)' /\ About(w)'
    BY <2>4, <2>5, <2>6 DEF Placed, About, InLines, Locking
  <2>8. "reserve" \in Control
    BY DEF Control
  <2> QED
    BY <1>a, <2>1, <2>7, <2>8, GoesInv
<1>5. ASSUME NEW w \in Worker, reserve_stock(w) PROVE ShopInv'
  <2> DEFINE m == [mem[w] EXCEPT !.n = @ + 1]
  <2>1. /\ pc[w] = "reserve" /\ UNCHANGED <<stock, supply, cart, order, times_used, opened>>
        /\ Ends(w) \/ Goes(w, "reserve", m)
        /\ \E p \in Product : Wants(w, p)
    BY <1>5 DEF reserve_stock
  <2>2. CASE Ends(w)
    BY <1>a, <2>1, <2>2, EndsInv
  <2>3. CASE Goes(w, "reserve", m)
    <3>1. mem[w] \in CheckoutMem /\ mem[w].n \in Nat /\ mem[w].n < Len(mem[w].take) /\ mem[w].take \in Seq(Line)
      BY <1>0, <2>1 DEF Placed, Wants, Locking, CheckoutMem
    <3>2. m \in CheckoutMem /\ m.n = mem[w].n + 1 /\ m.take = mem[w].take
      BY <3>1 DEF CheckoutMem
    <3> HIDE DEF m
    <3>3. pc'[w] = "reserve" /\ mem'[w] = m
      BY <2>3, GoesAt
    <3>4. Len(mem[w].take) \in Nat
      BY <3>1
    <3>5. m.n \in 0..Len(m.take)
      BY <3>1, <3>2, <3>4
    <3>6. Placed(w)' /\ About(w)'
      BY <3>2, <3>3, <3>5 DEF Placed, About, InLines, Locking
    <3>7. "reserve" \in Control
      BY DEF Control
    <3> QED
      BY <1>a, <2>1, <2>3, <3>6, <3>7, GoesInv
  <2> QED
    BY <2>1, <2>2, <2>3
<1>6. ASSUME NEW w \in Worker, CommitCheckout(w) PROVE ShopInv'
  <2>1. times_used' \in Nat
    BY <1>c, <1>6 DEF CommitCheckout
  <2>2. cart' \in [Cart -> [status : {"active", "converted"}, lines : Seq(Line)]]
    BY <1>c, <1>6 DEF CommitCheckout
  <2> QED
    BY <1>6, <2>1, <2>2, CommitInv DEF CommitCheckout
<1>7. ASSUME NEW w \in Worker, CommitGuest(w) PROVE ShopInv'
  <2>1. pc[w] = "reserve"
    BY <1>7 DEF CommitGuest, Reserved
  <2>2. mem[w].uses \in Nat
    BY <1>0, <2>1 DEF Placed, CheckoutMem
  <2>3. times_used' \in Nat
    BY <1>c, <1>7, <2>2 DEF CommitGuest
  <2> QED
    BY <1>c, <1>7, <2>3, CommitInv DEF CommitGuest
<1>8. ASSUME NEW w \in Worker, CodeUsedUp(w) \/ Crash(w) PROVE ShopInv'
  BY <1>8, <1>a, EndsInv DEF CodeUsedUp, Crash
<1>9. ASSUME NEW w \in Worker, InitiatePayment(w) PROVE ShopInv'
  <2>1. PICK o \in Orders, method \in Method :
            Goes(w, "pay", [order |-> o, row |-> order[o], method |-> method, from |-> "staff"])
    BY <1>9 DEF InitiatePayment
  <2> DEFINE m == [order |-> o, row |-> order[o], method |-> method, from |-> "staff"]
  <2>2. order[o] \in OrderRow /\ o \in OrderNo
    BY <1>0, OrderIsRow
  <2>3. m \in PayMem /\ m.order = o /\ m.row = order[o]
    BY <2>2 DEF PayMem
  <2> HIDE DEF m
  <2>4. pc'[w] = "pay" /\ mem'[w] = m
    BY <2>1, GoesAt DEF m
  <2>5. Tables' /\ SalesKept /\ order' = order /\ Orders' = Orders
    BY <1>0, <1>9, <1>a, SameKeeps DEF InitiatePayment
  <2>6. Placed(w)' /\ About(w)'
    BY <2>3, <2>4, <2>5 DEF Placed, About, InLines, SameSale
  <2>7. "pay" \in Control
    BY DEF Control
  <2> QED
    BY <2>1, <2>5, <2>6, <2>7, GoesInv
<1>10. ASSUME NEW w \in Worker, PayOnDelivery(w) \/ SavePayment(w) PROVE ShopInv'
  <2>1. Ends(w) /\ UNCHANGED <<stock, supply, cart, times_used, opened>>
    BY <1>10, PaySaves
  <2>2. CASE order' = order
    BY <1>a, <2>1, <2>2, EndsInv
  <2>3. ASSUME NEW o, NEW r, Rewrites(o, r) PROVE ShopInv'
    BY <1>b, <1>c, <2>1, <2>3, EndsInv
  <2> QED
    BY <1>10, <2>2, <2>3, PaySaves
<1>11. ASSUME NEW w \in Worker, pc[w] = "pay", opened' \in {opened, opened \cup {mem[w].order}},
              UNCHANGED <<stock, supply, cart, order, times_used>>
       PROVE  Tables' /\ SalesKept
  <2>1. SalesKept /\ Orders' = Orders
    BY <1>0, <1>11, SameKeeps
  <2>2. mem[w].order \in Orders
    BY <1>0, <1>11 DEF About
  <2> QED
    BY <1>0, <1>11, <2>1, <2>2 DEF Tables
<1>12. ASSUME NEW w \in Worker, OpenPayment(w) PROVE ShopInv'
  <2>1. pc[w] = "pay" /\ Goes(w, "save", mem[w]) /\ opened' = opened \cup {mem[w].order}
        /\ UNCHANGED <<stock, supply, cart, order, times_used>>
    BY <1>12 DEF OpenPayment
  <2>2. Tables' /\ SalesKept /\ order' = order /\ Orders' = Orders
    BY <1>0, <1>11, <2>1, SameKeeps
  <2>3. pc'[w] = "save" /\ mem'[w] = mem[w]
    BY <2>1, GoesAt
  <2>4. Placed(w)' /\ About(w)'
    BY <1>0, <2>1, <2>2, <2>3 DEF Placed, About, InLines, SameSale
  <2>5. "save" \in Control
    BY DEF Control
  <2> QED
    BY <2>1, <2>2, <2>4, <2>5, GoesInv
<1>13. ASSUME NEW w \in Worker, OpenFails(w) PROVE ShopInv'
  <2>1. /\ pc[w] = "pay" /\ opened' \in {opened, opened \cup {mem[w].order}}
        /\ UNCHANGED <<stock, supply, cart, order, times_used>>
        /\ Ends(w) \/ Goes(w, "cancel", Cancelling(mem[w].order, "cancelled", {}))
    BY <1>13 DEF OpenFails, Cancelling
  <2>2. Tables' /\ SalesKept
    BY <1>11, <2>1
  <2>3. mem[w].order \in Orders /\ "cancelled" \in Terminal /\ {} \in SUBSET Orders
    BY <1>0, <2>1 DEF About, Terminal
  <2> QED
    BY <2>1, <2>2, <2>3, EndsInv, CancelGoesInv
<1>14. ASSUME NEW w \in Worker, ClientCancel(w) PROVE ShopInv'
  <2>1. "cancelled" \in Terminal /\ {} \in SUBSET Orders
    BY DEF Terminal
  <2>2. \E o \in Orders : Goes(w, "cancel", Cancelling(o, "cancelled", {}))
    BY <1>14 DEF ClientCancel
  <2>3. Tables' /\ SalesKept
    BY <1>14, <1>a DEF ClientCancel
  <2> QED
    BY <2>1, <2>2, <2>3, CancelGoesInv
<1>15. ASSUME NEW w \in Worker, NEW o, cancel_unpaid_orders(w, o) PROVE ShopInv'
  <2>1. o \in Orders /\ "cancelled" \in Terminal
    BY <1>15 DEF cancel_unpaid_orders, Abandoned, Terminal
  <2>2. \E rest \in SUBSET Orders : Goes(w, "cancel", Cancelling(o, "cancelled", rest))
    BY <1>15 DEF cancel_unpaid_orders, Abandoned
  <2>3. Tables' /\ SalesKept
    BY <1>15, <1>a DEF cancel_unpaid_orders
  <2> QED
    BY <2>1, <2>2, <2>3, CancelGoesInv
<1>16. ASSUME NEW w \in Worker, CancelLock(w) PROVE ShopInv'
  <2>1. pc[w] = "cancel" /\ (Continues(w, mem[w].todo) \/ Goes(w, "release", mem[w]))
    BY <1>16 DEF CancelLock
  <2>2. Tables' /\ SalesKept
    BY <1>16, <1>a DEF CancelLock
  <2>3. /\ mem[w] \in CancelMem /\ mem[w].n = 0 /\ mem[w].order \in Orders /\ mem[w].todo \in SUBSET Orders
    BY <1>0, <2>1 DEF Placed, About
  <2>4. mem[w] = Cancelling(mem[w].order, mem[w].to, mem[w].todo) /\ mem[w].to \in Terminal
    BY <2>3 DEF CancelMem, Cancelling
  <2>5. CASE Goes(w, "release", mem[w])
    BY <2>2, <2>3, <2>4, <2>5, CancelGoesInv
  <2>6. CASE Continues(w, mem[w].todo)
    BY <2>2, <2>3, <2>6, ContinuesInv
  <2> QED
    BY <2>1, <2>5, <2>6
<1>17. ASSUME NEW w \in Worker, StaffEnds(w) PROVE ShopInv'
  <2>1. \E o \in Orders, to \in Terminal : Goes(w, "release", Cancelling(o, to, {}))
    BY <1>17 DEF StaffEnds, Live
  <2>2. Tables' /\ SalesKept /\ {} \in SUBSET Orders
    BY <1>17, <1>a DEF StaffEnds
  <2> QED
    BY <2>1, <2>2, CancelGoesInv
<1>18. ASSUME NEW w \in Worker, release_stock(w) PROVE ShopInv'
  <2> DEFINE m == [mem[w] EXCEPT !.n = @ + 1]
  <2>1. /\ pc[w] = "release" /\ Goes(w, "release", m) /\ UNCHANGED <<stock, supply, cart, order, times_used, opened>>
        /\ mem[w].n < Len(order[mem[w].order].items)
    BY <1>18 DEF release_stock, Wants, Locking
  <2>2. /\ mem[w] \in CancelMem /\ mem[w].order \in Orders /\ mem[w].todo \in SUBSET Orders
    BY <1>0, <2>1 DEF Placed, About
  <2>3. order[mem[w].order].items \in Seq(Line)
    BY <1>0, <2>2, OrderIsRow, OrderRowFields
  <2>4. m \in CancelMem /\ m.n = mem[w].n + 1 /\ m.order = mem[w].order /\ m.todo = mem[w].todo /\ mem[w].n \in Nat
    BY <2>2 DEF CancelMem
  <2> HIDE DEF m
  <2>5. pc'[w] = "release" /\ mem'[w] = m
    BY <2>1, GoesAt
  <2>6. Tables' /\ SalesKept /\ order' = order /\ Orders' = Orders
    BY <1>0, <1>a, <2>1, SameKeeps
  <2>7. Len(order[mem[w].order].items) \in Nat
    BY <2>3
  <2>8. m.n \in 0..Len(order[mem[w].order].items)
    BY <2>1, <2>4, <2>7
  <2>9. Placed(w)' /\ About(w)'
    BY <2>2, <2>4, <2>5, <2>6, <2>8 DEF Placed, About, InLines, Locking
  <2>10. "release" \in Control
    BY DEF Control
  <2> QED
    BY <2>1, <2>6, <2>9, <2>10, GoesInv
<1>19. ASSUME NEW w \in Worker, CommitRelease(w) PROVE ShopInv'
  <2>1. /\ mem[w].order \in Orders /\ mem[w].todo \in SUBSET Orders
        /\ \E r : Rewrites(mem[w].order, r)
    BY <1>19, ReleaseRewrites
  <2>2. order[mem[w].order].items \in Seq(Line)
    BY <1>0, <2>1, OrderIsRow, OrderRowFields
  <2>3. \A p \in Product : stock[p] + Quantity(order[mem[w].order].items, p) \in Int
    BY <1>c, <2>2, QuantityType
  <2>4. stock' \in [Product -> Int] /\ times_used' \in Nat /\ UNCHANGED <<supply, cart, opened>> /\ Continues(w, mem[w].todo)
    BY <1>19, <1>c, <2>3 DEF CommitRelease
  <2> QED
    BY <1>b, <2>1, <2>4, ContinuesInv
<1>20. ASSUME NEW w \in Worker, DeadlockAborts(w) PROVE ShopInv'
  <2>1. Tables' /\ SalesKept
    BY <1>20, <1>a DEF DeadlockAborts
  <2>2. pc[w] = "release" => mem[w].todo \in SUBSET Orders
    BY <1>0 DEF About
  <2>3. (pc[w] = "release" /\ Continues(w, mem[w].todo)) \/ Ends(w)
    BY <1>20 DEF DeadlockAborts
  <2> QED
    BY <2>1, <2>2, <2>3, ContinuesInv, EndsInv
<1>21. ASSUME NEW o, NoticePaid(o) \/ NoticeRejected(o) \/ mark_paid(o) \/ apply_order_status(o) \/ CourierMoves(o)
       PROVE  ShopInv'
  <2>1. PICK r : Rewrites(o, r) /\ Moves(o, r)
    BY <1>0, <1>21, MovesRewrites
  <2>2. UNCHANGED <<stock, supply, cart, times_used, opened, pc, mem>>
    BY <2>1 DEF Moves
  <2>3. Tables' /\ SalesKept
    BY <1>b, <1>c, <2>1, <2>2
  <2> QED
    BY <2>2, <2>3, StaysInv
<1>22. ASSUME NEW p \in Product, adjust_stock(p) PROVE ShopInv'
  <2>1. PICK total \in Supply[p] : stock' = [stock EXCEPT ![p] = @ + total - supply[p]] /\ supply' = [supply EXCEPT ![p] = total]
    BY <1>22 DEF adjust_stock
  <2>2. UNCHANGED <<cart, order, times_used, opened, pc, mem>>
    BY <1>22 DEF adjust_stock
  <2>3. total \in Nat /\ supply \in [Product -> Nat]
    BY <1>0, ShopAssumption DEF Tables
  <2>4. stock' \in [Product -> Int] /\ supply' \in [Product -> Nat]
    BY <1>c, <2>1, <2>3
  <2>5. SalesKept /\ Orders' = Orders
    BY <1>0, <2>2, SameKeeps
  <2>6. Tables'
    BY <1>0, <2>2, <2>4, <2>5 DEF Tables
  <2> QED
    BY <2>2, <2>5, <2>6, StaysInv
<1>23. ASSUME NEW c \in Cart, AddItem(c) PROVE ShopInv'
  <2>1. UNCHANGED <<stock, supply, order, times_used, opened, pc, mem>>
    BY <1>23 DEF AddItem
  <2>2. cart[c].lines \in Seq(Line)
    BY <1>c
  <2>3. ASSUME NEW lines \in Seq(Line), cart' = [cart EXCEPT ![c].lines = lines]
        PROVE  cart' \in [Cart -> [status : {"active", "converted"}, lines : Seq(Line)]]
    BY <1>c, <2>3
  <2>4. ASSUME NEW i \in DOMAIN cart[c].lines, cart[c].lines[i].quantity < MaxQuantity,
               cart' = [cart EXCEPT ![c].lines[i].quantity = @ + 1]
        PROVE  cart' \in [Cart -> [status : {"active", "converted"}, lines : Seq(Line)]]
    <3> DEFINE line == [cart[c].lines[i] EXCEPT !.quantity = @ + 1]
               lines == [cart[c].lines EXCEPT ![i] = line]
    <3>1. cart[c].lines[i] \in Line
      BY <2>2
    <3>a. cart[c].lines[i].quantity + 1 \in 1..MaxQuantity
      BY <2>4, <3>1, ShopAssumption DEF Line
    <3>2. line \in Line
      BY <3>a, <3>1 DEF Line
    <3>3. cart' = [cart EXCEPT ![c].lines = lines]
      BY <2>4
    <3> HIDE DEF line
    <3>4. lines \in Seq(Line)
      BY <2>2, <3>2
    <3> HIDE DEF lines
    <3> QED
      BY <2>3, <3>3, <3>4
  <2>5. ASSUME NEW p \in Product, cart' = [cart EXCEPT ![c].lines = Append(@, [product |-> p, quantity |-> 1])]
        PROVE  cart' \in [Cart -> [status : {"active", "converted"}, lines : Seq(Line)]]
    <3>1. [product |-> p, quantity |-> 1] \in Line
      BY <2>5, ShopAssumption DEF Line
    <3>2. Append(cart[c].lines, [product |-> p, quantity |-> 1]) \in Seq(Line)
      BY <2>2, <3>1
    <3> QED
      BY <2>3, <2>5, <3>2
  <2>6. SalesKept /\ Orders' = Orders
    BY <1>0, <2>1, SameKeeps
  <2>7. cart' \in [Cart -> [status : {"active", "converted"}, lines : Seq(Line)]]
    BY <1>23, <2>4, <2>5 DEF AddItem
  <2>8. Tables'
    BY <1>0, <2>1, <2>6, <2>7 DEF Tables
  <2> QED
    BY <2>1, <2>6, <2>8, StaysInv
<1>24. ASSUME UNCHANGED vars PROVE ShopInv'
  BY <1>24, <1>a, StaysInv DEF vars
<1>25. ASSUME NEW w \in Worker, Continuing(w) PROVE ShopInv'
  BY <1>25, <1>4, <1>5, <1>6, <1>7, <1>8, <1>10, <1>12, <1>13, <1>16, <1>18, <1>19, <1>20 DEF Continuing
<1> QED
  BY <1>2, <1>3, <1>8, <1>9, <1>14, <1>15, <1>17, <1>21, <1>22, <1>23, <1>24, <1>25 DEF Next


LEMMA ShopInit ==
    ASSUME Init
    PROVE  ShopInv
<1>1. Orders = {}
  BY DEF Init, Orders, NoOrder
<1>2. cart \in [Cart -> [status : {"active", "converted"}, lines : Seq(Line)]]
  <2>1. PICK lines \in [Cart -> Basket] : cart = [c \in Cart |-> [status |-> "active", lines |-> lines[c]]]
    BY DEF Init
  <2>2. \A c \in Cart : lines[c] \in Seq(Line)
    BY ShopAssumption
  <2> QED
    BY <2>1, <2>2
<1>3. Tables
  BY <1>1, <1>2, ShopAssumption DEF Init, Tables
<1>4. Frame /\ \A w \in Worker : pc[w] = "idle" /\ mem[w] = NoMem
  BY DEF Init, Frame, Control
<1>5. \A w \in Worker : Placed(w) /\ About(w)
  BY <1>4 DEF Placed, About, InLines
<1> QED
  BY <1>3, <1>4, <1>5, ShopParts

\* Every row and everything a worker holds has its columns in every state, also where
\* requests race: the order a worker goes on with exists, and a transaction that goes
\* through the lines of a cart or of an order finds the lines it began with.
THEOREM TypeCorrect == Spec => []TypeOK
<1>1. Init => ShopInv
  BY ShopInit
<1>2. ShopInv /\ [Next]_vars => ShopInv'
  BY ShopStep
<1>3. ShopInv => TypeOK
  BY DEF ShopInv
<1> QED
  BY <1>1, <1>2, <1>3, PTL DEF Spec

----------------------------------------------------------------------------
(* Never oversold *)

Wanted(lines, p) == [i \in DOMAIN lines |-> IF lines[i].product = p THEN lines[i].quantity ELSE 0]

LEMMA WantedType ==
    ASSUME NEW lines \in Seq(Line), NEW p
    PROVE  /\ DOMAIN lines = 1..Len(lines) /\ Len(lines) \in Nat /\ IsFiniteSet(1..Len(lines))
           /\ \A i \in 1..Len(lines) :
                /\ Wanted(lines, p)[i] \in Nat /\ lines[i] \in Line
                /\ lines[i].product # p => Wanted(lines, p)[i] = 0
<1>1. DOMAIN lines = 1..Len(lines) /\ Len(lines) \in Nat
  OBVIOUS
<1>2. IsFiniteSet(1..Len(lines))
  BY <1>1, FS_Interval
<1>3. \A i \in 1..Len(lines) : lines[i] \in Line
  OBVIOUS
<1>4. \A i \in 1..Len(lines) : lines[i].quantity \in Nat
  BY <1>3, ShopAssumption DEF Line
<1> QED
  BY <1>1, <1>2, <1>3, <1>4 DEF Wanted

\* The first n lines ask for the sum of what each of them does.
LEMMA FirstLines ==
    ASSUME NEW lines \in Seq(Line), NEW p, NEW n \in 0..Len(lines)
    PROVE  Quantity(SubSeq(lines, 1, n), p) = SumOver(Wanted(lines, p), 1..n)
<1>1. /\ DOMAIN lines = 1..Len(lines) /\ Len(lines) \in Nat
      /\ \A i \in 1..Len(lines) : Wanted(lines, p)[i] \in Nat
  BY WantedType
<1> DEFINE first == SubSeq(lines, 1, n)
<1>2. /\ first \in Seq(Line) /\ Len(first) = n /\ \A i \in 1..n : first[i] = lines[i]
  BY <1>1
<1> HIDE DEF first
<1>3. DOMAIN first = 1..n /\ n \in Nat /\ \A i \in 1..n : i \in 1..Len(lines)
  BY <1>1, <1>2
<1>4. IsFiniteSet(1..n)
  BY <1>3, FS_Interval
<1>5. \A i \in 1..n : Wanted(first, p)[i] = Wanted(lines, p)[i] /\ Wanted(first, p)[i] \in Nat
  <2> SUFFICES ASSUME NEW i \in 1..n
               PROVE  Wanted(first, p)[i] = Wanted(lines, p)[i] /\ Wanted(first, p)[i] \in Nat
    OBVIOUS
  <2>1. i \in DOMAIN lines /\ i \in DOMAIN first /\ first[i] = lines[i]
    BY <1>1, <1>2, <1>3
  <2>2. Wanted(first, p)[i] = Wanted(lines, p)[i]
    BY <2>1 DEF Wanted
  <2> QED
    BY <1>1, <1>3, <2>2
<1>6. SumOver(Wanted(first, p), 1..n) = SumOver(Wanted(lines, p), 1..n)
  BY <1>4, <1>5, SumSame
<1>7. Quantity(first, p) = SumOver(Wanted(first, p), 1..n)
  BY <1>3 DEF Quantity, Wanted
<1> QED
  BY <1>6, <1>7 DEF first

\* One more line of another product asks for nothing more.
LEMMA OtherLine ==
    ASSUME NEW lines \in Seq(Line), NEW p, NEW n \in Nat, n < Len(lines), lines[n + 1].product # p
    PROVE  Quantity(SubSeq(lines, 1, n + 1), p) = Quantity(SubSeq(lines, 1, n), p)
<1>1. /\ Len(lines) \in Nat
      /\ \A i \in 1..Len(lines) : Wanted(lines, p)[i] \in Nat /\ (lines[i].product # p => Wanted(lines, p)[i] = 0)
  BY WantedType
<1> DEFINE f == Wanted(lines, p)
<1>2. /\ n \in 0..Len(lines) /\ n + 1 \in 0..Len(lines) /\ n + 1 \in 1..Len(lines)
      /\ n + 1 \in 1..n + 1
  BY <1>1
<1>3. f[n + 1] = 0 /\ (\A i \in 1..n : f[i] \in Nat) /\ (\A i \in 1..n + 1 : f[i] \in Nat)
  BY <1>1, <1>2
<1>4. IsFiniteSet(1..n) /\ IsFiniteSet(1..n + 1)
  BY FS_Interval
<1> HIDE DEF f
<1>5. SumOver(f, 1..n + 1) = f[n + 1] + SumOver(f, (1..n + 1) \ {n + 1})
  BY <1>2, <1>3, <1>4, SumRemove
<1>6. SumOver(f, 1..n) = SumOver(f, 1..n + 1)
  <2>1. (1..n + 1) \ {n + 1} = 1..n /\ SumOver(f, 1..n) \in Nat
    BY <1>3, <1>4, SumType
  <2>2. SumOver(f, 1..n + 1) = f[n + 1] + SumOver(f, 1..n)
    BY <1>5, <2>1, Zenon
  <2> QED
    BY <1>3, <2>1, <2>2
<1>7. /\ Quantity(SubSeq(lines, 1, n), p) = SumOver(f, 1..n)
      /\ Quantity(SubSeq(lines, 1, n + 1), p) = SumOver(f, 1..n + 1)
  BY <1>2, FirstLines DEF f
<1> QED
  BY <1>6, <1>7

\* Lines of other products ask for nothing.
LEMMA OtherLines ==
    ASSUME NEW lines \in Seq(Line), NEW p, \A i \in 1..Len(lines) : lines[i].product # p
    PROVE  Quantity(lines, p) = 0
<1>1. /\ DOMAIN lines = 1..Len(lines) /\ IsFiniteSet(1..Len(lines))
      /\ \A i \in 1..Len(lines) : Wanted(lines, p)[i] = 0
  BY WantedType
<1>2. SumOver(Wanted(lines, p), 1..Len(lines)) = 0
  BY <1>1, SumZero
<1> QED
  BY <1>1, <1>2 DEF Quantity, Wanted

LEMMA AllLines ==
    ASSUME NEW lines \in Seq(Line)
    PROVE  SubSeq(lines, 1, Len(lines)) = lines
OBVIOUS

----------------------------------------------------------------------------
(* The kinds of steps *)

Kept == UNCHANGED <<stock, supply, cart, order, times_used>>

\* A worker gives up what it holds, and perhaps begins to cancel an order.
Stops(w) == Kept /\ \E where \in {"idle", "cancel"} : \E m : Goes(w, where, m)

Reserves(w) == reserve_stock(w) /\ Goes(w, "reserve", [mem[w] EXCEPT !.n = @ + 1])

\* A worker locks an order it will end.
LocksOrder(w) ==
    /\ Kept
    /\ \E o \in Live : Reachable(o) /\ \E m : m.order = o /\ Goes(w, "release", m)

MovesOrder(o) == NoticePaid(o) \/ NoticeRejected(o) \/ mark_paid(o) \/ apply_order_status(o) \/ CourierMoves(o)

Kinds ==
    \/ UNCHANGED vars
    \/ \E w \in Worker :
        \/ Stops(w) \/ Checkout(w) \/ GuestCheckout(w) \/ LockCart(w) \/ Reserves(w)
        \/ CommitCheckout(w) \/ CommitGuest(w)
        \/ InitiatePayment(w) \/ PayOnDelivery(w) \/ SavePayment(w) \/ OpenPayment(w)
        \/ LocksOrder(w) \/ release_stock(w) \/ CommitRelease(w)
    \/ \E c \in Cart : AddItem(c)
    \/ \E p \in Product : adjust_stock(p)
    \/ \E o \in OrderNo : MovesOrder(o)

LEMMA KindsOfSteps ==
    ASSUME ShopInv, [Next]_vars
    PROVE  Kinds
<1>0. \A w \in Worker : About(w)
  BY DEF ShopInv
<1>1. ASSUME NEW w \in Worker, Kept, Ends(w) PROVE Stops(w)
  BY <1>1 DEF Stops, Ends
<1>2. ASSUME NEW w \in Worker, NEW m, Kept, Goes(w, "cancel", m) PROVE Stops(w)
  BY <1>2 DEF Stops
<1>3. ASSUME NEW w \in Worker, NEW todo, Kept, Continues(w, todo) PROVE Stops(w)
  BY <1>1, <1>2, <1>3 DEF Continues
<1>4. ASSUME NEW w \in Worker, CodeUsedUp(w) \/ Crash(w) PROVE Stops(w)
  BY <1>1, <1>4 DEF CodeUsedUp, Crash, Kept
<1>5. ASSUME NEW w \in Worker, DeadlockAborts(w) PROVE Stops(w)
  BY <1>1, <1>3, <1>5 DEF DeadlockAborts, Kept
<1>6. ASSUME NEW w \in Worker, OpenFails(w) PROVE Stops(w)
  <2>1. Kept /\ (Ends(w) \/ \E m : Goes(w, "cancel", m))
    BY <1>6 DEF OpenFails, Kept
  <2> QED
    BY <1>1, <1>2, <2>1
<1>7. ASSUME NEW w \in Worker, NEW o, ClientCancel(w) \/ cancel_unpaid_orders(w, o) PROVE Stops(w)
  <2>1. Kept /\ \E m : Goes(w, "cancel", m)
    BY <1>7 DEF ClientCancel, cancel_unpaid_orders, Kept
  <2> QED
    BY <1>2, <2>1
<1>8. ASSUME NEW w \in Worker, reserve_stock(w) PROVE Stops(w) \/ Reserves(w)
  <2>1. Kept /\ (Ends(w) \/ Goes(w, "reserve", [mem[w] EXCEPT !.n = @ + 1]))
    BY <1>8 DEF reserve_stock, Kept
  <2> QED
    BY <1>1, <1>8, <2>1 DEF Reserves
<1>9. ASSUME NEW w \in Worker, CancelLock(w) PROVE Stops(w) \/ LocksOrder(w)
  <2>1. Kept /\ pc[w] = "cancel" /\ Reachable(mem[w].order)
    BY <1>9 DEF CancelLock, Kept
  <2>2. CASE order[mem[w].order].status \in Terminal
    BY <1>3, <1>9, <2>1, <2>2 DEF CancelLock
  <2>3. CASE order[mem[w].order].status \notin Terminal
    <3>1. Goes(w, "release", mem[w])
      BY <1>9, <2>3 DEF CancelLock
    <3>2. mem[w].order \in Live
      BY <1>0, <2>1, <2>3 DEF About, Live
    <3> QED
      BY <2>1, <3>1, <3>2 DEF LocksOrder
  <2> QED
    BY <2>2, <2>3
<1>10. ASSUME NEW w \in Worker, StaffEnds(w) PROVE LocksOrder(w)
  <2>1. Kept
    BY <1>10 DEF StaffEnds, Kept
  <2>2. PICK o \in Live, to \in Terminal : Reachable(o) /\ Goes(w, "release", Cancelling(o, to, {}))
    BY <1>10 DEF StaffEnds
  <2>3. Cancelling(o, to, {}).order = o
    BY DEF Cancelling
  <2> QED
    BY <2>1, <2>2, <2>3 DEF LocksOrder
<1>11. ASSUME NEW w \in Worker, Continuing(w) PROVE Kinds
  BY <1>11, <1>4, <1>5, <1>6, <1>8, <1>9 DEF Continuing, Kinds
<1>12. ASSUME NEW w \in Worker, NEW o,
              \/ Checkout(w) \/ GuestCheckout(w) \/ InitiatePayment(w) \/ ClientCancel(w) \/ StaffEnds(w)
              \/ cancel_unpaid_orders(w, o) \/ Crash(w)
       PROVE  Kinds
  BY <1>12, <1>4, <1>7, <1>10 DEF Kinds
<1>13. ASSUME NEW o \in OrderNo,
              NoticePaid(o) \/ NoticeRejected(o) \/ mark_paid(o) \/ apply_order_status(o) \/ CourierMoves(o)
       PROVE  Kinds
  BY <1>13 DEF Kinds, MovesOrder
<1>14. ASSUME (\E c \in Cart : AddItem(c)) \/ (\E p \in Product : adjust_stock(p)) \/ UNCHANGED vars PROVE Kinds
  BY <1>14 DEF Kinds
<1> QED
  BY <1>11, <1>12, <1>13, <1>14 DEF Next

LEMMA OthersStay ==
    ASSUME ShopInv, NEW w \in Worker, NEW where, NEW m, Goes(w, where, m), NEW v \in Worker, v # w
    PROVE  pc'[v] = pc[v] /\ mem'[v] = mem[v]
BY DEF ShopInv, TypeOK, Goes

\* What each step does to the stock.
LEMMA StockKinds ==
    ASSUME ShopInv, Kinds
    PROVE  \/ stock' = stock /\ supply' = supply
           \/ \E w \in Worker : Reserved(w) /\ Commits(w)
           \/ \E w \in Worker : CommitRelease(w)
           \/ \E p \in Product : adjust_stock(p)
<1>1. ASSUME NEW w \in Worker,
             \/ Stops(w) \/ Checkout(w) \/ GuestCheckout(w) \/ LockCart(w) \/ Reserves(w)
             \/ InitiatePayment(w) \/ PayOnDelivery(w) \/ SavePayment(w) \/ OpenPayment(w)
             \/ LocksOrder(w) \/ release_stock(w)
      PROVE  stock' = stock /\ supply' = supply
  BY <1>1 DEF Stops, Kept, Checkout, GuestCheckout, Priced, LockCart, Reserves, reserve_stock, InitiatePayment,
              PayOnDelivery, SavePayment, OpenPayment, LocksOrder, release_stock
<1>2. ASSUME NEW o \in OrderNo, MovesOrder(o) PROVE stock' = stock /\ supply' = supply
  BY <1>2, MovesRewrites, ShopParts DEF MovesOrder, Moves
<1>3. ASSUME NEW w \in Worker, CommitCheckout(w) \/ CommitGuest(w) PROVE Reserved(w) /\ Commits(w)
  BY <1>3 DEF CommitCheckout, CommitGuest
<1>4. ASSUME NEW c \in Cart, AddItem(c) PROVE stock' = stock /\ supply' = supply
  BY <1>4 DEF AddItem
<1>5. ASSUME UNCHANGED vars PROVE stock' = stock /\ supply' = supply
  BY <1>5 DEF vars
<1> QED
  BY <1>1, <1>2, <1>3, <1>4, <1>5 DEF Kinds

----------------------------------------------------------------------------
(* Concurrent checkouts never sell what is not there *)

Settled == \A v \in Worker : pc'[v] = "reserve" => pc[v] = "reserve" /\ mem'[v] = mem[v]

LEMMA GoesSettled ==
    ASSUME ShopInv, NEW w \in Worker, NEW where, where # "reserve", NEW m, Goes(w, where, m)
    PROVE  Settled
BY GoesAt, OthersStay DEF Settled

\* What each step does to the checkouts that reserve.
LEMMA ReserveKinds ==
    ASSUME ShopInv, Kinds
    PROVE  Settled \/ \E w \in Worker : LockCart(w) \/ Reserves(w)
<1>1. ASSUME NEW w \in Worker,
             \/ Stops(w) \/ Checkout(w) \/ GuestCheckout(w) \/ InitiatePayment(w) \/ PayOnDelivery(w)
             \/ SavePayment(w) \/ OpenPayment(w) \/ LocksOrder(w) \/ release_stock(w)
      PROVE  Settled
  <2>1. \E where : where # "reserve" /\ \E m : Goes(w, where, m)
    <3>1. ASSUME Stops(w) PROVE \E where \in {"idle", "cancel"} : \E m : Goes(w, where, m)
      BY <3>1 DEF Stops
    <3>2. ASSUME Checkout(w) \/ GuestCheckout(w) PROVE \E m : Goes(w, "priced", m)
      BY <3>2 DEF Checkout, GuestCheckout, Priced
    <3>3. ASSUME InitiatePayment(w) PROVE \E m : Goes(w, "pay", m)
      BY <3>3 DEF InitiatePayment
    <3>4. ASSUME PayOnDelivery(w) \/ SavePayment(w) PROVE \E m : Goes(w, "idle", m)
      BY <3>4 DEF PayOnDelivery, SavePayment, Ends
    <3>5. ASSUME OpenPayment(w) PROVE \E m : Goes(w, "save", m)
      BY <3>5 DEF OpenPayment
    <3>6. ASSUME LocksOrder(w) \/ release_stock(w) PROVE \E m : Goes(w, "release", m)
      BY <3>6 DEF LocksOrder, release_stock
    <3> QED
      BY <1>1, <3>1, <3>2, <3>3, <3>4, <3>5, <3>6
  <2> QED
    BY <2>1, GoesSettled
<1>2. ASSUME NEW w \in Worker, CommitCheckout(w) \/ CommitGuest(w) PROVE Settled
  <2>1. \E m : Goes(w, "pay", m)
    BY <1>2 DEF CommitCheckout, CommitGuest, Commits
  <2> QED
    BY <2>1, GoesSettled
<1>3. ASSUME NEW w \in Worker, CommitRelease(w) PROVE Settled
  <2>1. \E where \in {"idle", "cancel"} : \E m : Goes(w, where, m)
    BY <1>3 DEF CommitRelease, Continues, Ends
  <2> QED
    BY <2>1, GoesSettled
<1>4. pc' = pc /\ mem' = mem => Settled
  BY DEF Settled
<1>5. ASSUME NEW o \in OrderNo, MovesOrder(o) PROVE Settled
  BY <1>4, <1>5, MovesRewrites, ShopParts DEF MovesOrder, Moves
<1>6. ASSUME NEW c, NEW p, AddItem(c) \/ adjust_stock(p) \/ UNCHANGED vars PROVE Settled
  BY <1>4, <1>6 DEF AddItem, adjust_stock, vars
<1> QED
  BY <1>1, <1>2, <1>3, <1>5, <1>6 DEF Kinds

\* A reserving checkout's lines, and what it holds.
LEMMA ReserveFacts ==
    ASSUME ShopInv, NEW w \in Worker, pc[w] = "reserve"
    PROVE  /\ mem[w] \in CheckoutMem /\ mem[w].take \in Seq(Line) /\ mem[w].n \in 0..Len(mem[w].take)
           /\ Len(mem[w].take) \in Nat /\ mem[w].n \in Nat /\ Holding(w) = Taken(w) /\ Taken(w) \subseteq Product
<1>1. Placed(w)
  BY ShopParts
<1>2. mem[w] \in CheckoutMem /\ mem[w].n \in 0..Len(mem[w].take)
  BY <1>1 DEF Placed, InLines, Locking
<1>3. mem[w].take \in Seq(Line)
  BY <1>2 DEF CheckoutMem
<1>4. Len(mem[w].take) \in Nat /\ mem[w].n \in Nat
  BY <1>2, <1>3
<1>5. Holding(w) = Taken(w)
  BY DEF Holding, InLines, Locking, Taken
<1>6. \A i \in 1..mem[w].n : mem[w].take[i] \in Line
  BY <1>2, <1>3, <1>4
<1>7. Taken(w) \subseteq Product
  BY <1>6 DEF Taken, Line
<1> QED
  BY <1>2, <1>3, <1>4, <1>5, <1>7

\* A product that a checkout takes none of.
LEMMA NotTaken ==
    ASSUME ShopInv, NEW w \in Worker, Reserved(w), NEW p, p \notin Taken(w)
    PROVE  Quantity(mem[w].take, p) = 0
<1>1. mem[w].take \in Seq(Line) /\ mem[w].n = Len(mem[w].take)
  BY ReserveFacts DEF Reserved
<1>2. \A i \in 1..Len(mem[w].take) : mem[w].take[i].product # p
  BY <1>1 DEF Taken
<1> QED
  BY <1>1, <1>2, OtherLines

\* When a checkout commits, its products are there.
LEMMA TakenBacked ==
    ASSUME LockInv, NEW w \in Worker, Reserved(w), NEW p \in Taken(w)
    PROVE  Quantity(mem[w].take, p) <= stock[p]
<1>1. mem[w].take \in Seq(Line) /\ mem[w].n = Len(mem[w].take) /\ pc[w] = "reserve"
  BY ReserveFacts DEF Reserved, LockInv
<1>2. SubSeq(mem[w].take, 1, mem[w].n) = mem[w].take
  BY <1>1, AllLines
<1>3. Quantity(SubSeq(mem[w].take, 1, mem[w].n), p) <= stock[p]
  BY <1>1 DEF LockInv, ReserveBacked
<1> QED
  BY <1>2, <1>3

LEMMA LockStep ==
    ASSUME LockInv, [Next]_vars
    PROVE  LockInv'
<1>0. ShopInv /\ ShopInv' /\ ReserveAlone /\ ReserveBacked
  BY ShopStep DEF LockInv
<1>1. Kinds
  BY <1>0, KindsOfSteps
<1>2. \A v \in Worker : mem'[v] = mem[v] => Taken(v)' = Taken(v)
  BY DEF Taken
<1>3. stock \in [Product -> Int]
  BY <1>0, ShopParts DEF Tables
<1>4. CASE Settled
  <2>1. ReserveAlone'
    BY <1>0, <1>2, <1>4 DEF ReserveAlone, Settled
  <2>2. ASSUME NEW v \in Worker, pc'[v] = "reserve", NEW p \in Taken(v)
        PROVE  stock[p] <= stock'[p]
    <3>0. pc[v] = "reserve" /\ mem'[v] = mem[v]
      BY <1>4, <2>2 DEF Settled
    <3>1. p \in Product /\ p \in Holding(v) /\ stock[p] \in Int
      BY <1>0, <1>3, <2>2, <3>0, ReserveFacts
    <3>2. CASE stock' = stock
      BY <3>1, <3>2
    <3>3. ASSUME NEW u \in Worker, Reserved(u), Commits(u) PROVE stock[p] <= stock'[p]
      <4>1. pc'[u] = "pay" /\ stock' = [q \in Product |-> stock[q] - Quantity(mem[u].take, q)]
        BY <1>0, <3>3, CommitCreates
      <4>2. u # v /\ pc[u] = "reserve"
        BY <2>2, <3>3, <4>1 DEF Reserved
      <4>3. p \notin Taken(u)
        BY <1>0, <2>2, <3>0, <4>2 DEF ReserveAlone
      <4>4. Quantity(mem[u].take, p) = 0
        BY <1>0, <3>3, <4>3, NotTaken
      <4> QED
        BY <3>1, <4>1, <4>4
    <3>4. ASSUME NEW u \in Worker, CommitRelease(u) PROVE stock[p] <= stock'[p]
      <4>1. mem[u].order \in Orders /\ stock' = [q \in Product |-> stock[q] + Quantity(order[mem[u].order].items, q)]
        BY <1>0, <3>4, ReleaseRewrites DEF CommitRelease
      <4>2. Quantity(order[mem[u].order].items, p) \in Nat
        BY <1>0, <4>1, ShopParts, OrderIsRow, OrderRowFields, QuantityType
      <4> QED
        BY <3>1, <4>1, <4>2
    <3>5. ASSUME NEW q \in Product, adjust_stock(q) PROVE stock[p] <= stock'[p]
      <4>1. p # q /\ \E x : stock' = [stock EXCEPT ![q] = x]
        BY <3>1, <3>5 DEF adjust_stock
      <4> QED
        BY <1>3, <3>1, <4>1
    <3> QED
      BY <1>0, <1>1, <3>2, <3>3, <3>4, <3>5, StockKinds
  <2>3. ReserveBacked'
    <3> SUFFICES ASSUME NEW v \in Worker, pc'[v] = "reserve", NEW p \in Taken(v)'
                 PROVE  Quantity(SubSeq(mem'[v].take, 1, mem'[v].n), p) <= stock'[p]
      BY DEF ReserveBacked
    <3>1. pc[v] = "reserve" /\ mem'[v] = mem[v] /\ p \in Taken(v)
      BY <1>2, <1>4 DEF Settled
    <3>2. stock[p] <= stock'[p] /\ Quantity(SubSeq(mem[v].take, 1, mem[v].n), p) <= stock[p]
      BY <1>0, <2>2, <3>1 DEF ReserveBacked
    <3>3. mem[v].take \in Seq(Line) /\ mem[v].n \in 0..Len(mem[v].take) /\ p \in Product
      BY <1>0, <3>1, ReserveFacts
    <3>4. SubSeq(mem[v].take, 1, mem[v].n) \in Seq(Line)
      BY <3>3
    <3>5. Quantity(SubSeq(mem[v].take, 1, mem[v].n), p) \in Nat
      BY <3>4, QuantityType
    <3>6. stock[p] \in Int /\ stock'[p] \in Int
      BY <1>0, <1>3, <3>3 DEF ShopInv, TypeOK
    <3> QED
      BY <3>1, <3>2, <3>5, <3>6
  <2> QED
    BY <1>0, <2>1, <2>3 DEF LockInv
<1>5. ASSUME NEW w \in Worker, LockCart(w) PROVE LockInv'
  <2>1. pc[w] = "priced" /\ stock' = stock /\ \E now : Goes(w, "reserve", [mem[w] EXCEPT !.take = now])
    BY <1>5 DEF LockCart
  <2>2. mem[w] \in CheckoutMem /\ mem[w].n = 0
    BY <1>0, <2>1, ShopParts DEF Placed, About
  <2>3. mem'[w].n = 0
    BY <1>0, <2>1, <2>2, GoesAt DEF CheckoutMem
  <2>4. Taken(w)' = {}
    BY <2>3 DEF Taken
  <2>5. \A v \in Worker \ {w} : pc'[v] = pc[v] /\ mem'[v] = mem[v]
    BY <1>0, <2>1, OthersStay
  <2>6. ReserveAlone'
    BY <1>0, <1>2, <2>4, <2>5 DEF ReserveAlone
  <2>7. ReserveBacked'
    BY <1>0, <1>2, <2>1, <2>4, <2>5 DEF ReserveBacked
  <2> QED
    BY <1>0, <2>6, <2>7 DEF LockInv
<1>6. ASSUME NEW w \in Worker, Reserves(w) PROVE LockInv'
  <2> DEFINE n == mem[w].n
             take == mem[w].take
  <2>1. pc[w] = "reserve" /\ stock' = stock /\ Goes(w, "reserve", [mem[w] EXCEPT !.n = @ + 1])
    BY <1>6 DEF Reserves, reserve_stock
  <2>2. /\ mem[w] \in CheckoutMem /\ take \in Seq(Line) /\ n \in 0..Len(take) /\ n \in Nat /\ Len(take) \in Nat
        /\ Taken(w) \subseteq Product
    BY <1>0, <2>1, ReserveFacts
  <2>3. pc'[w] = "reserve" /\ mem'[w].n = n + 1 /\ mem'[w].take = take
    BY <1>0, <2>1, <2>2, GoesAt DEF CheckoutMem
  <2>4. \A v \in Worker \ {w} : pc'[v] = pc[v] /\ mem'[v] = mem[v]
    BY <1>0, <2>1, OthersStay
  <2>5. mem'[w] # mem[w] /\ ~Ends(w)
    BY <1>0, <2>2, <2>3, GoesAt DEF Ends
  <2>6. PICK p \in Product : /\ Wants(w, p) /\ Free(w, p)
                             /\ ~(stock[p] < Quantity(SubSeq(take, 1, n + 1), p))
    BY <1>6, <2>5 DEF Reserves, reserve_stock
  <2>7. n < Len(take) /\ p = take[n + 1].product
    BY <2>1, <2>6 DEF Wants, Locking
  <2> HIDE DEF n, take
  <2>8. Taken(w)' = Taken(w) \cup {p}
    <3>1. 1..n + 1 = (1..n) \cup {n + 1}
      BY <2>2
    <3>2. Taken(w)' = {take[i].product : i \in 1..n + 1} /\ Taken(w) = {take[i].product : i \in 1..n}
      BY <2>3 DEF Taken, n, take
    <3> QED
      BY <2>7, <3>1, <3>2
  <2>9. ReserveAlone'
    <3>1. \A v \in Worker \ {w} : pc[v] = "reserve" => p \notin Taken(v) /\ Taken(v) \cap Taken(w) = {}
      BY <1>0, <2>1, <2>6, ReserveFacts DEF Free, ReserveAlone
    <3>2. \A v \in Worker \ {w} : pc'[v] = "reserve" => Taken(v)' \cap Taken(w)' = {}
      BY <1>2, <2>4, <2>8, <3>1
    <3>3. \A u, v \in Worker \ {w} : pc'[u] = "reserve" /\ pc'[v] = "reserve" /\ u # v => Taken(u)' \cap Taken(v)' = {}
      BY <1>0, <1>2, <2>4 DEF ReserveAlone
    <3> QED
      BY <3>2, <3>3 DEF ReserveAlone
  <2>10. ReserveBacked'
    <3>1. ASSUME NEW q \in Taken(w)' PROVE Quantity(SubSeq(take, 1, n + 1), q) <= stock[q]
      <4>1. CASE q = p
        <5>1. SubSeq(take, 1, n + 1) \in Seq(Line)
          BY <2>2, <2>7
        <5>2. Quantity(SubSeq(take, 1, n + 1), p) \in Nat /\ stock[p] \in Int
          BY <1>3, <5>1, QuantityType
        <5> QED
          BY <2>6, <4>1, <5>2 DEF n, take
      <4>2. CASE q # p
        <5>1. Quantity(SubSeq(take, 1, n), q) <= stock[q]
          BY <1>0, <2>1, <2>8, <3>1, <4>2 DEF ReserveBacked, n, take
        <5>2. Quantity(SubSeq(take, 1, n + 1), q) = Quantity(SubSeq(take, 1, n), q)
          BY <2>2, <2>7, <4>2, OtherLine
        <5> QED
          BY <5>1, <5>2
      <4> QED
        BY <4>1, <4>2
    <3>2. \A v \in Worker \ {w} : pc'[v] = "reserve" =>
             \A q \in Taken(v)' : Quantity(SubSeq(mem'[v].take, 1, mem'[v].n), q) <= stock'[q]
      BY <1>0, <1>2, <2>1, <2>4 DEF ReserveBacked
    <3> QED
      BY <2>1, <2>3, <3>1, <3>2 DEF ReserveBacked
  <2> QED
    BY <1>0, <2>9, <2>10 DEF LockInv
<1> QED
  BY <1>0, <1>1, <1>4, <1>5, <1>6, ReserveKinds

\* A step that takes stock which no stock take explains leaves none below zero.
LEMMA OversoldStep ==
    ASSUME LockInv, [Next]_vars, NEW p \in Product, stock'[p] < stock[p], supply'[p] = supply[p]
    PROVE  stock'[p] >= 0
<1>0. ShopInv /\ Kinds /\ stock \in [Product -> Int] /\ supply \in [Product -> Nat]
  BY KindsOfSteps, ShopParts DEF LockInv, Tables
<1>1. CASE stock' = stock
  BY <1>0, <1>1
<1>2. ASSUME NEW w \in Worker, Reserved(w), Commits(w) PROVE stock'[p] >= 0
  <2>1. stock' = [q \in Product |-> stock[q] - Quantity(mem[w].take, q)] /\ mem[w].take \in Seq(Line)
    BY <1>0, <1>2, CommitCreates DEF CheckoutMem
  <2>2. Quantity(mem[w].take, p) \in Nat
    BY <2>1, QuantityType
  <2>3. CASE p \in Taken(w)
    BY <1>0, <1>2, <2>1, <2>2, <2>3, TakenBacked
  <2>4. CASE p \notin Taken(w)
    BY <1>0, <1>2, <2>1, <2>4, NotTaken
  <2> QED
    BY <2>3, <2>4
<1>3. ASSUME NEW w \in Worker, CommitRelease(w) PROVE FALSE
  <2>1. mem[w].order \in Orders /\ stock' = [q \in Product |-> stock[q] + Quantity(order[mem[w].order].items, q)]
    BY <1>0, <1>3, ReleaseRewrites DEF CommitRelease
  <2>2. Quantity(order[mem[w].order].items, p) \in Nat
    BY <1>0, <2>1, ShopParts, OrderIsRow, OrderRowFields, QuantityType
  <2> QED
    BY <1>0, <2>1, <2>2
<1>4. ASSUME NEW q \in Product, adjust_stock(q) PROVE FALSE
  <2>1. \E total \in Supply[q] \ {supply[q]} :
            stock' = [stock EXCEPT ![q] = @ + total - supply[q]] /\ supply' = [supply EXCEPT ![q] = total]
    BY <1>4 DEF adjust_stock
  <2> QED
    BY <1>0, <2>1
<1> QED
  BY <1>0, <1>1, <1>2, <1>3, <1>4, StockKinds

\* Whatever carts, guests, releases, crashes and lost deadlocks interleave, also with every
\* race, a checkout only ever takes products that are there; only a stock take of the staff
\* brings the stock of a product below zero.  A checkout compares its lines with the stock
\* one product at a time, and it is the row locks it keeps that make the comparison of an
\* early line good when it commits.
THEOREM NotOversold == Spec => NeverOversold
<1>1. Init => LockInv
  <2> SUFFICES ASSUME Init PROVE LockInv
    OBVIOUS
  <2>1. \A w \in Worker : pc[w] # "reserve"
    BY DEF Init
  <2> QED
    BY <2>1, ShopInit DEF LockInv, ReserveAlone, ReserveBacked
<1>2. LockInv /\ [Next]_vars => LockInv'
  BY LockStep
<1>3. LockInv /\ [Next]_vars =>
        [\A p \in Product : stock'[p] < stock[p] /\ supply'[p] = supply[p] => stock'[p] >= 0]_vars
  BY OversoldStep
<1> QED
  BY <1>1, <1>2, <1>3, PTL DEF Spec, NeverOversold

----------------------------------------------------------------------------
(* One worker at a time writes an order *)

\* A worker that writes an order went on with what it held, and its row is as it was.
Carries(v) ==
    pc'[v] \in Writing =>
        /\ pc[v] \in Writing /\ mem'[v].order = mem[v].order
        /\ (pc'[v] = "release") = (pc[v] = "release")
        /\ pc'[v] # "release" => mem'[v].row = mem[v].row
        /\ order'[mem[v].order] = order[mem[v].order]

\* A worker that begins to write an order which nobody else writes.
Begins(w) ==
    /\ \A v \in Worker \ {w} : pc[v] \in Writing => mem[v].order # mem'[w].order
    /\ pc'[w] \in {"pay", "save"} => mem'[w].row = order'[mem'[w].order] /\ Unpaid(mem'[w].row)
    /\ pc'[w] = "release" => mem'[w].order \in Live'

LEMMA CarriedOn ==
    ASSUME RowsInv, ShopInv', NEW v \in Worker, Carries(v), pc'[v] \in Writing
    PROVE  /\ pc'[v] \in {"pay", "save"} => mem'[v].row = order'[mem'[v].order] /\ Unpaid(mem'[v].row)
           /\ pc'[v] = "release" => mem'[v].order \in Live'
<1>1. /\ pc[v] \in Writing /\ mem'[v].order = mem[v].order /\ (pc'[v] = "release") = (pc[v] = "release")
      /\ pc'[v] # "release" => mem'[v].row = mem[v].row
      /\ order'[mem[v].order] = order[mem[v].order]
  BY DEF Carries
<1>2. ASSUME pc'[v] \in {"pay", "save"} PROVE mem'[v].row = order'[mem'[v].order] /\ Unpaid(mem'[v].row)
  BY <1>1, <1>2 DEF RowsInv, Fresh, Writing
<1>3. ASSUME pc'[v] = "release" PROVE mem'[v].order \in Live'
  <2>1. mem[v].order \in Live
    BY <1>1, <1>3 DEF RowsInv, EndsLive
  <2>2. mem[v].order \in OrderNo /\ order[mem[v].order].status \notin Terminal /\ order[mem[v].order].status # "none"
    BY <2>1 DEF Live, Orders
  <2> QED
    BY <1>1, <2>2 DEF Live, Orders
<1> QED
  BY <1>2, <1>3

LEMMA RowsFrame ==
    ASSUME RowsInv, ShopInv', NEW W \in SUBSET Worker, \A v \in Worker \ W : Carries(v),
           \A v, w \in W : v = w, \A w \in W : Begins(w)
    PROVE  RowsInv'
<1>1. \A v \in Worker \ W : pc'[v] \in Writing => pc[v] \in Writing /\ mem'[v].order = mem[v].order
  BY DEF Carries
<1>2. OneWriter'
  <2> SUFFICES ASSUME NEW u \in Worker, NEW v \in Worker, pc'[u] \in Writing, pc'[v] \in Writing,
                      mem'[u].order = mem'[v].order
               PROVE  u = v
    BY DEF OneWriter
  <2>1. CASE u \notin W /\ v \notin W
    BY <1>1, <2>1 DEF RowsInv, OneWriter
  <2>2. CASE u \in W /\ v \notin W
    BY <1>1, <2>2 DEF Begins
  <2>3. CASE u \notin W /\ v \in W
    BY <1>1, <2>3 DEF Begins
  <2> QED
    BY <2>1, <2>2, <2>3
<1>3. ASSUME NEW v \in Worker
      PROVE  /\ pc'[v] \in {"pay", "save"} => mem'[v].row = order'[mem'[v].order] /\ Unpaid(mem'[v].row)
             /\ pc'[v] = "release" => mem'[v].order \in Live'
  <2>1. CASE v \in W
    BY <2>1 DEF Begins
  <2>2. CASE v \notin W
    BY <2>2, CarriedOn DEF Writing
  <2> QED
    BY <2>1, <2>2
<1>4. Fresh' /\ EndsLive'
  BY <1>3 DEF Fresh, EndsLive
<1> QED
  BY <1>2, <1>4 DEF RowsInv

\* Without overlaps, an order that a transaction can reach is written by nobody.
LEMMA ReachedAlone ==
    ASSUME NoOverlap, NEW o, Reachable(o), NEW v \in Worker, pc[v] \in Writing
    PROVE  mem[v].order # o
BY DEF NoOverlap, Reachable, OrderFree, Unwritten, Writing

LEMMA CarriesSame ==
    ASSUME order' = order, NEW v \in Worker, pc'[v] = pc[v], mem'[v] = mem[v]
    PROVE  Carries(v)
BY DEF Carries

LEMMA RowsStep ==
    ASSUME NoOverlap, RowsInv, [Next]_vars
    PROVE  RowsInv'
<1>0. ShopInv /\ ShopInv' /\ OneWriter /\ Fresh /\ EndsLive
  BY ShopStep DEF RowsInv
<1>1. Kinds /\ Tables
  BY <1>0, KindsOfSteps, ShopParts
<1>a. ASSUME \A v \in Worker : Carries(v) PROVE RowsInv'
  <2> DEFINE W == {}
  <2>1. W \in SUBSET Worker /\ (\A v \in Worker \ W : Carries(v)) /\ (\A v, w \in W : v = w) /\ \A w \in W : Begins(w)
    BY <1>a
  <2> HIDE DEF W
  <2> QED
    BY <1>0, <2>1, RowsFrame
<1>b. ASSUME NEW w \in Worker, \A v \in Worker \ {w} : Carries(v), Begins(w) PROVE RowsInv'
  <2> DEFINE W == {w}
  <2>1. W \in SUBSET Worker /\ (\A v \in Worker \ W : Carries(v)) /\ (\A v, u \in W : v = u) /\ \A u \in W : Begins(u)
    BY <1>b
  <2> HIDE DEF W
  <2> QED
    BY <1>0, <2>1, RowsFrame
<1>c. ASSUME NEW w \in Worker, NEW where, NEW m, Goes(w, where, m), order' = order
      PROVE  pc'[w] = where /\ mem'[w] = m /\ \A v \in Worker \ {w} : Carries(v)
  BY <1>0, <1>c, GoesAt, OthersStay, CarriesSame
<1>2. ASSUME order' = order, NEW w \in Worker, NEW where, where \notin Writing, NEW m, Goes(w, where, m)
      PROVE  RowsInv'
  <2>1. pc'[w] \notin Writing /\ \A v \in Worker \ {w} : Carries(v)
    BY <1>2, <1>c
  <2>2. Carries(w)
    BY <2>1 DEF Carries
  <2> QED
    BY <1>a, <2>1, <2>2
<1>3. ASSUME order' = order, pc' = pc, mem' = mem PROVE RowsInv'
  BY <1>a, <1>3, CarriesSame
<1>4. ASSUME NEW w \in Worker, Stops(w) \/ Checkout(w) \/ GuestCheckout(w) \/ LockCart(w) \/ Reserves(w)
      PROVE  RowsInv'
  <2>1. order' = order
    BY <1>4 DEF Stops, Kept, Checkout, GuestCheckout, Priced, LockCart, Reserves, reserve_stock
  <2>2. ASSUME Stops(w) PROVE \E where \in {"idle", "cancel"} : \E m : Goes(w, where, m)
    BY <2>2 DEF Stops
  <2>3. ASSUME Checkout(w) \/ GuestCheckout(w) PROVE \E m : Goes(w, "priced", m)
    BY <2>3 DEF Checkout, GuestCheckout, Priced
  <2>4. ASSUME LockCart(w) \/ Reserves(w) PROVE \E m : Goes(w, "reserve", m)
    BY <2>4 DEF LockCart, Reserves
  <2>5. \E where : where \notin Writing /\ \E m : Goes(w, where, m)
    BY <1>4, <2>2, <2>3, <2>4 DEF Writing
  <2> QED
    BY <1>2, <2>1, <2>5
<1>5. ASSUME NEW w \in Worker, OpenPayment(w) PROVE RowsInv'
  <2>1. order' = order /\ pc[w] = "pay" /\ Goes(w, "save", mem[w])
    BY <1>5 DEF OpenPayment
  <2>2. pc'[w] = "save" /\ mem'[w] = mem[w] /\ \A v \in Worker \ {w} : Carries(v)
    BY <1>c, <2>1
  <2>3. Carries(w)
    BY <2>1, <2>2 DEF Carries, Writing
  <2> QED
    BY <1>a, <2>2, <2>3
<1>6. ASSUME NEW w \in Worker, release_stock(w) PROVE RowsInv'
  <2>1. order' = order /\ pc[w] = "release" /\ Goes(w, "release", [mem[w] EXCEPT !.n = @ + 1])
    BY <1>6 DEF release_stock
  <2>2. pc'[w] = "release" /\ mem'[w] = [mem[w] EXCEPT !.n = @ + 1] /\ \A v \in Worker \ {w} : Carries(v)
    BY <1>c, <2>1
  <2>3. mem[w] \in CancelMem
    BY <1>0, <2>1, ShopParts DEF Placed
  <2>4. mem'[w].order = mem[w].order
    BY <2>2, <2>3 DEF CancelMem
  <2>5. Carries(w)
    BY <2>1, <2>2, <2>4 DEF Carries, Writing
  <2> QED
    BY <1>a, <2>2, <2>5
<1>7. ASSUME NEW w \in Worker, InitiatePayment(w) PROVE RowsInv'
  <2>1. PICK o \in Orders, method \in Method :
            /\ Reachable(o) /\ Unpaid(order[o])
            /\ Goes(w, "pay", [order |-> o, row |-> order[o], method |-> method, from |-> "staff"])
    BY <1>7 DEF InitiatePayment
  <2>2. order' = order
    BY <1>7 DEF InitiatePayment
  <2>3. pc'[w] = "pay" /\ mem'[w].order = o /\ mem'[w].row = order[o] /\ \A v \in Worker \ {w} : Carries(v)
    BY <1>c, <2>1, <2>2
  <2>4. Begins(w)
    BY <2>1, <2>2, <2>3, ReachedAlone DEF Begins, Unpaid
  <2> QED
    BY <1>b, <2>3, <2>4
<1>8. ASSUME NEW w \in Worker, LocksOrder(w) PROVE RowsInv'
  <2>1. order' = order
    BY <1>8 DEF LocksOrder, Kept
  <2>2. PICK o \in Live : Reachable(o) /\ \E m : m.order = o /\ Goes(w, "release", m)
    BY <1>8 DEF LocksOrder
  <2>3. pc'[w] = "release" /\ mem'[w].order = o /\ \A v \in Worker \ {w} : Carries(v)
    BY <1>c, <2>1, <2>2
  <2>4. Live' = Live
    BY <2>1 DEF Live, Orders
  <2>5. Begins(w)
    BY <2>2, <2>3, <2>4, ReachedAlone DEF Begins
  <2> QED
    BY <1>b, <2>3, <2>5
<1>9. ASSUME NEW w \in Worker, Reserved(w), Commits(w) PROVE RowsInv'
  <2>1. PICK o \in OrderNo \ Orders :
          /\ order'[o] = Created(w) /\ \A q \in Orders : order'[q] = order[q]
          /\ pc'[w] = "pay" /\ mem'[w].order = o /\ mem'[w].row = Created(w)
          /\ \A v \in Worker \ {w} : pc'[v] = pc[v] /\ mem'[v] = mem[v]
    BY <1>0, <1>9, CommitCreates
  <2>2. \A v \in Worker : pc[v] \in Writing => mem[v].order \in Orders
    BY <1>0 DEF ShopInv, About, Writing
  <2>3. \A v \in Worker \ {w} : Carries(v)
    BY <2>1, <2>2 DEF Carries
  <2>4. Unpaid(Created(w))
    BY DEF Unpaid, Created, Terminal
  <2>5. Begins(w)
    BY <2>1, <2>2, <2>4 DEF Begins, Unpaid
  <2> QED
    BY <1>b, <2>3, <2>5
<1>10. ASSUME NEW w \in Worker, pc[w] \in Writing, NEW r, Rewrites(mem[w].order, r), NEW where, where \notin Writing,
              NEW m, Goes(w, where, m)
       PROVE  RowsInv'
  <2>1. \A q \in OrderNo : q # mem[w].order => order'[q] = order[q]
    BY <1>1, <1>10 DEF Rewrites, Tables
  <2>2. \A v \in Worker \ {w} : pc[v] \in Writing => mem[v].order # mem[w].order /\ mem[v].order \in OrderNo
    BY <1>0, <1>10 DEF OneWriter, ShopInv, About, Writing, Orders
  <2>3. pc'[w] = where /\ \A v \in Worker \ {w} : pc'[v] = pc[v] /\ mem'[v] = mem[v]
    BY <1>0, <1>10, GoesAt, OthersStay
  <2>4. \A v \in Worker : Carries(v)
    BY <1>10, <2>1, <2>2, <2>3 DEF Carries
  <2> QED
    BY <1>a, <2>4
<1>11. ASSUME NEW w \in Worker, PayOnDelivery(w) \/ SavePayment(w) PROVE RowsInv'
  <2>1. /\ pc[w] \in Writing /\ Goes(w, "idle", NoMem) /\ "idle" \notin Writing
        /\ order' = order \/ \E r : Rewrites(mem[w].order, r)
    BY <1>0, <1>11, PaySaves DEF Writing, Ends
  <2> QED
    BY <1>2, <1>10, <2>1
<1>12. ASSUME NEW w \in Worker, CommitRelease(w) PROVE RowsInv'
  <2>1. pc[w] \in Writing /\ \E r : Rewrites(mem[w].order, r)
    BY <1>0, <1>12, ReleaseRewrites DEF Writing
  <2>2. \E where \in {"idle", "cancel"} : \E m : Goes(w, where, m)
    BY <1>12 DEF CommitRelease, Continues, Ends
  <2>3. {"idle", "cancel"} \cap Writing = {}
    BY DEF Writing
  <2> QED
    BY <1>10, <2>1, <2>2, <2>3
<1>13. ASSUME NEW o \in OrderNo, MovesOrder(o) PROVE RowsInv'
  <2>1. PICK r : Rewrites(o, r) /\ Moves(o, r)
    BY <1>1, <1>13, MovesRewrites DEF MovesOrder
  <2>2. Reachable(o) /\ pc' = pc /\ mem' = mem
    BY <2>1 DEF Moves
  <2>3. \A q \in OrderNo : q # o => order'[q] = order[q]
    BY <1>1, <2>1 DEF Rewrites, Tables
  <2>4. \A v \in Worker : pc[v] \in Writing => mem[v].order # o /\ mem[v].order \in OrderNo
    BY <1>0, <2>2, ReachedAlone DEF ShopInv, About, Writing, Orders
  <2>5. \A v \in Worker : Carries(v)
    BY <2>2, <2>3, <2>4 DEF Carries
  <2> QED
    BY <1>a, <2>5
<1>14. ASSUME NEW c, NEW p, AddItem(c) \/ adjust_stock(p) \/ UNCHANGED vars PROVE RowsInv'
  BY <1>3, <1>14 DEF AddItem, adjust_stock, vars
<1>15. ASSUME NEW w \in Worker, CommitCheckout(w) \/ CommitGuest(w) PROVE RowsInv'
  BY <1>9, <1>15 DEF CommitCheckout, CommitGuest
<1> QED
  BY <1>1, <1>4, <1>5, <1>6, <1>7, <1>8, <1>11, <1>12, <1>13, <1>14, <1>15 DEF Kinds

LEMMA RowsInit ==
    ASSUME Init
    PROVE  RowsInv
<1>1. \A w \in Worker : pc[w] = "idle"
  BY DEF Init
<1> QED
  BY <1>1, ShopInit DEF RowsInv, OneWriter, Fresh, EndsLive, Writing

\* What each step does to the orders.
LEMMA OrderKinds ==
    ASSUME ShopInv, Kinds
    PROVE  \/ order' = order
           \/ \E w \in Worker : Reserved(w) /\ Commits(w)
           \/ \E w \in Worker : PayOnDelivery(w) \/ SavePayment(w)
           \/ \E w \in Worker : CommitRelease(w)
           \/ \E o \in OrderNo : MovesOrder(o)
<1>1. ASSUME NEW w \in Worker,
             \/ Stops(w) \/ Checkout(w) \/ GuestCheckout(w) \/ LockCart(w) \/ Reserves(w)
             \/ InitiatePayment(w) \/ OpenPayment(w) \/ LocksOrder(w) \/ release_stock(w)
      PROVE  order' = order
  BY <1>1 DEF Stops, Kept, Checkout, GuestCheckout, Priced, LockCart, Reserves, reserve_stock, InitiatePayment,
              OpenPayment, LocksOrder, release_stock
<1>2. ASSUME NEW w \in Worker, CommitCheckout(w) \/ CommitGuest(w) PROVE Reserved(w) /\ Commits(w)
  BY <1>2 DEF CommitCheckout, CommitGuest
<1>3. ASSUME NEW c, NEW p, AddItem(c) \/ adjust_stock(p) \/ UNCHANGED vars PROVE order' = order
  BY <1>3 DEF AddItem, adjust_stock, vars
<1> QED
  BY <1>1, <1>2, <1>3 DEF Kinds

LEMMA PaidStep ==
    ASSUME RowsInv, [Next]_vars, NEW o \in Orders, order[o].payment_status = "paid"
    PROVE  order'[o].payment_status \in {"paid", "refunded"}
<1>0. ShopInv /\ Tables /\ Kinds /\ o \in OrderNo
  BY KindsOfSteps, ShopParts DEF RowsInv, Orders
<1>1. ASSUME NEW q, NEW r, Rewrites(q, r), q = o => r.payment_status \in {"paid", "refunded"}
      PROVE  order'[o].payment_status \in {"paid", "refunded"}
  BY <1>0, <1>1 DEF Rewrites, Tables
<1>2. ASSUME NEW w \in Worker, Reserved(w), Commits(w) PROVE order'[o] = order[o]
  BY <1>0, <1>2, CommitCreates
<1>3. ASSUME NEW w \in Worker, PayOnDelivery(w) \/ SavePayment(w)
      PROVE  order'[o].payment_status \in {"paid", "refunded"}
  <2>1. pc[w] \in {"pay", "save"} /\ (order' = order \/ \E r : Rewrites(mem[w].order, r))
    BY <1>0, <1>3, PaySaves
  <2>2. mem[w].order # o
    BY <2>1 DEF RowsInv, Fresh, Unpaid
  <2> QED
    BY <1>1, <2>1, <2>2
<1>4. ASSUME NEW w \in Worker, CommitRelease(w) PROVE order'[o].payment_status \in {"paid", "refunded"}
  BY <1>0, <1>1, <1>4, ReleaseRewrites
<1>5. ASSUME NEW q \in OrderNo, MovesOrder(q) PROVE order'[o].payment_status \in {"paid", "refunded"}
  BY <1>0, <1>1, <1>5, MovesRewrites DEF MovesOrder
<1> QED
  BY <1>0, <1>2, <1>3, <1>4, <1>5, OrderKinds

\* A paid order stays paid until it is refunded, for any number of workers, orders and
\* gateways' notices in any order, as long as no request reaches an order whose whole
\* instance another one will save: the condition that the run ShopSavedCard shows to be
\* needed.
THEOREM PaidOrdersKept == NoOverlap => (Spec => PaidKept)
<1> SUFFICES ASSUME NoOverlap PROVE Spec => PaidKept
  OBVIOUS
<1>1. Init => RowsInv
  BY RowsInit
<1>2. RowsInv /\ [Next]_vars => RowsInv'
  BY RowsStep
<1>3. RowsInv /\ [Next]_vars =>
        [\A o \in Orders : order[o].payment_status = "paid" => order'[o].payment_status \in {"paid", "refunded"}]_vars
  BY PaidStep
<1> QED
  BY <1>1, <1>2, <1>3, PTL DEF Spec, PaidKept

----------------------------------------------------------------------------
(* Stock is conserved *)

\* What each step does to the lines of the checkouts and of the carts.
CartsKept == \A c \in Cart : cart'[c].lines = cart[c].lines

NoNewCheckout ==
    \A v \in Worker : pc'[v] \in {"priced", "reserve"} => pc'[v] = pc[v] /\ mem'[v] = mem[v]

LEMMA GoesNoCheckout ==
    ASSUME ShopInv, NEW w \in Worker, NEW where, where \notin {"priced", "reserve"}, NEW m, Goes(w, where, m)
    PROVE  NoNewCheckout
BY GoesAt, OthersStay DEF NoNewCheckout

LEMMA CheckoutKinds ==
    ASSUME ShopInv, Kinds
    PROVE  \/ CartsKept /\ NoNewCheckout
           \/ \E w \in Worker : Checkout(w) \/ GuestCheckout(w) \/ LockCart(w) \/ Reserves(w)
           \/ \E c \in Cart : AddItem(c)
<1>0. cart \in [Cart -> [status : {"active", "converted"}, lines : Seq(Line)]]
  BY ShopParts DEF Tables
<1>a. cart' = cart => CartsKept
  BY DEF CartsKept
<1>b. pc' = pc /\ mem' = mem => NoNewCheckout
  BY DEF NoNewCheckout
<1>1. ASSUME NEW w \in Worker,
             \/ Stops(w) \/ InitiatePayment(w) \/ PayOnDelivery(w)
             \/ SavePayment(w) \/ OpenPayment(w) \/ LocksOrder(w) \/ release_stock(w) \/ CommitRelease(w)
      PROVE  CartsKept /\ NoNewCheckout
  <2>1. cart' = cart
    BY <1>1 DEF Stops, Kept, InitiatePayment, PayOnDelivery, SavePayment, OpenPayment, LocksOrder, release_stock,
                CommitRelease
  <2>2. \E where : where \notin {"priced", "reserve"} /\ \E m : Goes(w, where, m)
    <3>1. ASSUME Stops(w) PROVE \E where \in {"idle", "cancel"} : \E m : Goes(w, where, m)
      BY <3>1 DEF Stops
    <3>2. ASSUME CommitRelease(w) PROVE \E where \in {"idle", "cancel"} : \E m : Goes(w, where, m)
      BY <3>2 DEF CommitRelease, Continues, Ends
    <3>3. ASSUME InitiatePayment(w) PROVE \E m : Goes(w, "pay", m)
      BY <3>3 DEF InitiatePayment
    <3>4. ASSUME PayOnDelivery(w) \/ SavePayment(w) PROVE \E m : Goes(w, "idle", m)
      BY <3>4 DEF PayOnDelivery, SavePayment, Ends
    <3>5. ASSUME OpenPayment(w) PROVE \E m : Goes(w, "save", m)
      BY <3>5 DEF OpenPayment
    <3>6. ASSUME LocksOrder(w) \/ release_stock(w) PROVE \E m : Goes(w, "release", m)
      BY <3>6 DEF LocksOrder, release_stock
    <3> QED
      BY <1>1, <3>1, <3>2, <3>3, <3>4, <3>5, <3>6
  <2> QED
    BY <1>a, <2>1, <2>2, GoesNoCheckout
<1>2. ASSUME NEW w \in Worker, CommitCheckout(w) \/ CommitGuest(w) PROVE CartsKept /\ NoNewCheckout
  <2>1. \E m : Goes(w, "pay", m)
    BY <1>2 DEF CommitCheckout, CommitGuest, Commits
  <2>2. cart' = cart \/ \E c : cart' = [cart EXCEPT ![c].status = "converted"]
    BY <1>2 DEF CommitCheckout, CommitGuest
  <2>3. CartsKept
    BY <1>0, <2>2 DEF CartsKept
  <2> QED
    BY <2>1, <2>3, GoesNoCheckout
<1>3. ASSUME NEW o \in OrderNo, MovesOrder(o) PROVE CartsKept /\ NoNewCheckout
  BY <1>a, <1>b, <1>3, MovesRewrites, ShopParts DEF MovesOrder, Moves
<1>4. ASSUME NEW p, adjust_stock(p) \/ UNCHANGED vars PROVE CartsKept /\ NoNewCheckout
  BY <1>a, <1>b, <1>4 DEF adjust_stock, vars
<1> QED
  BY <1>1, <1>2, <1>3, <1>4 DEF Kinds

LEMMA SoldStep ==
    ASSUME NoCartEdit, ShopInv, SoldIsTaken, [Next]_vars
    PROVE  SoldIsTaken'
<1>0. Kinds /\ ShopInv'
  BY KindsOfSteps, ShopStep
<1>a. \A v \in Worker : pc[v] = "priced" => mem[v] \in CheckoutMem
  BY ShopParts DEF Placed
<1>1. CASE CartsKept /\ NoNewCheckout
  <2> SUFFICES ASSUME NEW v \in Worker
               PROVE  /\ pc'[v] = "priced" /\ mem'[v].cart # NoCart => cart'[mem'[v].cart].lines = mem'[v].lines
                      /\ pc'[v] = "reserve" => mem'[v].take = mem'[v].lines
    BY DEF SoldIsTaken
  <2>1. pc'[v] = "priced" => mem[v].cart \in Cart \cup {NoCart}
    BY <1>1, <1>a DEF NoNewCheckout, CheckoutMem
  <2> QED
    BY <1>1, <2>1 DEF SoldIsTaken, CartsKept, NoNewCheckout
<1>2. ASSUME NEW w \in Worker, cart' = cart, NEW where, NEW m, Goes(w, where, m),
             where = "priced" /\ m.cart # NoCart => cart[m.cart].lines = m.lines,
             where = "reserve" => m.take = m.lines
      PROVE  SoldIsTaken'
  <2>1. pc'[w] = where /\ mem'[w] = m /\ \A v \in Worker \ {w} : pc'[v] = pc[v] /\ mem'[v] = mem[v]
    BY <1>2, GoesAt, OthersStay
  <2> QED
    BY <1>2, <2>1 DEF SoldIsTaken
<1>3. ASSUME NEW w \in Worker, NEW c, NEW lines, NEW method, NEW code, Priced(w, c, lines, method, code),
             c # NoCart => lines = cart[c].lines
      PROVE  SoldIsTaken'
  <2>1. cart' = cart /\ \E d, u : Goes(w, "priced", [cart |-> c, lines |-> lines, method |-> method, promo |-> code,
                                                    discounted |-> d, uses |-> u, take |-> << >>, n |-> 0])
    BY <1>3 DEF Priced
  <2> QED
    BY <1>2, <1>3, <2>1
<1>4. ASSUME NEW w \in Worker, Checkout(w) \/ GuestCheckout(w) PROVE SoldIsTaken'
  BY <1>3, <1>4 DEF Checkout, GuestCheckout
<1>5. ASSUME NEW w \in Worker, LockCart(w) PROVE SoldIsTaken'
  <2> DEFINE now == IF mem[w].cart = NoCart THEN mem[w].lines ELSE cart[mem[w].cart].lines
  <2>1. pc[w] = "priced" /\ cart' = cart /\ Goes(w, "reserve", [mem[w] EXCEPT !.take = now])
    BY <1>5 DEF LockCart
  <2>2. now = mem[w].lines /\ mem[w] \in CheckoutMem
    BY <1>a, <2>1 DEF SoldIsTaken
  <2> HIDE DEF now
  <2>3. [mem[w] EXCEPT !.take = now].take = [mem[w] EXCEPT !.take = now].lines
    BY <2>2 DEF CheckoutMem
  <2> QED
    BY <1>2, <2>1, <2>3
<1>6. ASSUME NEW w \in Worker, Reserves(w) PROVE SoldIsTaken'
  <2>1. pc[w] = "reserve" /\ cart' = cart /\ Goes(w, "reserve", [mem[w] EXCEPT !.n = @ + 1])
    BY <1>6 DEF Reserves, reserve_stock
  <2>2. mem[w] \in CheckoutMem /\ mem[w].take = mem[w].lines
    BY <2>1, ReserveFacts DEF SoldIsTaken
  <2>3. [mem[w] EXCEPT !.n = @ + 1].take = [mem[w] EXCEPT !.n = @ + 1].lines
    BY <2>2 DEF CheckoutMem
  <2> QED
    BY <1>2, <2>1, <2>3
<1>7. ASSUME NEW c \in Cart, AddItem(c) PROVE SoldIsTaken'
  <2>1. /\ pc' = pc /\ mem' = mem
        /\ \A w \in Worker : pc[w] \in {"priced", "reserve"} => mem[w].cart # c
    BY <1>7 DEF AddItem, NoCartEdit
  <2>2. cart \in [Cart -> [status : {"active", "converted"}, lines : Seq(Line)]]
    BY ShopParts DEF Tables
  <2>3. \A q \in Cart : q # c => cart'[q] = cart[q]
    BY <1>7, <2>2 DEF AddItem
  <2>4. \A w \in Worker : pc[w] = "priced" => mem[w].cart \in Cart \cup {NoCart}
    BY <1>a DEF CheckoutMem
  <2> QED
    BY <2>1, <2>3, <2>4 DEF SoldIsTaken
<1> QED
  BY <1>0, <1>1, <1>4, <1>5, <1>6, <1>7, CheckoutKinds

\* What live orders hold of a product.
Ordered(p) == SumOver([o \in Live |-> Quantity(order[o].items, p)], Live)

LEMMA LiveFinite ==
    ASSUME Tables
    PROVE  /\ IsFiniteSet(Live) /\ Live \subseteq OrderNo
           /\ \A o \in Live : order[o] \in OrderRow
           /\ \A o \in Live, p \in Product : Quantity(order[o].items, p) \in Nat
<1>1. Live \subseteq OrderNo /\ \A o \in Live : o \in Orders
  BY DEF Live, Orders
<1>2. IsFiniteSet(Live)
  BY <1>1, NameAssumption, FS_Subset
<1>3. \A o \in Live : order[o] \in OrderRow
  BY <1>1, OrderIsRow
<1>4. \A o \in Live, p \in Product : Quantity(order[o].items, p) \in Nat
  BY <1>3, OrderRowFields, QuantityType
<1> QED
  BY <1>1, <1>2, <1>3, <1>4

\* One order enters or leaves the live orders, or none does.
LEMMA OrderedChange ==
    ASSUME Tables, Tables', NEW p \in Product, NEW x,
           Live \ {x} = Live' \ {x}, \A o \in Live \ {x} : order'[o].items = order[o].items
    PROVE  \E rest \in Nat :
             /\ Ordered(p) = rest + (IF x \in Live THEN Quantity(order[x].items, p) ELSE 0)
             /\ Ordered(p)' = rest + (IF x \in Live' THEN Quantity(order'[x].items, p) ELSE 0)
<1> DEFINE S == Live
           T == Live'
           f == [o \in S |-> Quantity(order[o].items, p)]
           g == [o \in T |-> Quantity(order'[o].items, p)]
<1>1. IsFiniteSet(S) /\ \A o \in S : f[o] \in Nat
  BY LiveFinite
<1>2. IsFiniteSet(T) /\ \A o \in T : g[o] \in Nat
  <2>1. Live' \subseteq OrderNo /\ \A o \in Live' : order'[o] \in OrderRow
    BY DEF Tables, Live, Orders, NoOrder
  <2>2. IsFiniteSet(T)
    BY <2>1, NameAssumption, FS_Subset
  <2>3. \A o \in T : Quantity(order'[o].items, p) \in Nat
    BY <2>1, OrderRowFields, QuantityType
  <2> QED
    BY <2>2, <2>3
<1>3. S \ {x} = T \ {x} /\ \A y \in S \ {x} : f[y] = g[y]
  <2>1. ASSUME NEW y \in S \ {x} PROVE f[y] = g[y]
    <3>1. y \in S /\ y \in T /\ order'[y].items = order[y].items
      OBVIOUS
    <3>2. Quantity(order'[y].items, p) = Quantity(order[y].items, p)
      BY <3>1
    <3> QED
      BY <3>1, <3>2
  <2> QED
    BY <2>1
<1>4. /\ Ordered(p) = SumOver(f, S) /\ Ordered(p)' = SumOver(g, T)
      /\ x \in S => f[x] = Quantity(order[x].items, p)
      /\ x \in T => g[x] = Quantity(order'[x].items, p)
  BY DEF Ordered
<1> HIDE DEF f, g, S, T
<1>5. \E rest \in Nat : /\ SumOver(f, S) = rest + (IF x \in S THEN f[x] ELSE 0)
                        /\ SumOver(g, T) = rest + (IF x \in T THEN g[x] ELSE 0)
  <2>1. IsFiniteSet(S) /\ IsFiniteSet(T)
    BY <1>1, <1>2
  <2>2. \A y \in S : f[y] \in Nat
    BY <1>1
  <2>3. \A y \in T : g[y] \in Nat
    BY <1>2
  <2>4. S \ {x} = T \ {x}
    BY <1>3
  <2>5. \A y \in S \ {x} : f[y] = g[y]
    BY <1>3
  <2> QED
    BY ONLY <2>1, <2>2, <2>3, <2>4, <2>5, SumChange
<1>6. PICK rest \in Nat : /\ SumOver(f, S) = rest + (IF x \in S THEN f[x] ELSE 0)
                          /\ SumOver(g, T) = rest + (IF x \in T THEN g[x] ELSE 0)
  BY <1>5
<1>7. /\ Ordered(p) = rest + (IF x \in S THEN Quantity(order[x].items, p) ELSE 0)
      /\ Ordered(p)' = rest + (IF x \in T THEN Quantity(order'[x].items, p) ELSE 0)
  BY <1>4, <1>6, Zenon
<1> QED
  BY <1>7 DEF S, T

\* The orders a step writes without ending one.
LEMMA LiveKept ==
    ASSUME ShopInv, NEW o, NEW r, Rewrites(o, r), (r.status \in Terminal) = (order[o].status \in Terminal)
    PROVE  /\ Live' = Live /\ \A q \in Orders : SameSale(order'[q], order[q])
<1>1. Tables /\ Orders' = Orders /\ SalesKept
  BY ShopParts, RewriteKeeps
<1>2. \A q \in Orders : (order'[q].status \in Terminal) = (order[q].status \in Terminal)
  <2>1. o \in OrderNo /\ order'[o] = r /\ \A q \in OrderNo \ {o} : order'[q] = order[q]
    BY <1>1 DEF Rewrites, Tables, Orders
  <2> QED
    BY <2>1 DEF Orders
<1>3. Live' = Live
  BY <1>1, <1>2 DEF Live
<1> QED
  BY <1>1, <1>3 DEF SalesKept

\* The steps that end no order and create none.
Rewriting ==
    \/ order' = order
    \/ \E w \in Worker : PayOnDelivery(w) \/ SavePayment(w)
    \/ \E o \in OrderNo : MovesOrder(o)

LEMMA LiveSame ==
    ASSUME RowsInv, Rewriting
    PROVE  Live' = Live /\ \A q \in Orders : SameSale(order'[q], order[q])
<1>0. ShopInv
  BY DEF RowsInv
<1>1. CASE order' = order
  BY <1>1 DEF SameSale, Live, Orders
<1>2. ASSUME NEW w \in Worker, PayOnDelivery(w) \/ SavePayment(w)
      PROVE  Live' = Live /\ \A q \in Orders : SameSale(order'[q], order[q])
  <2>1. /\ pc[w] \in {"pay", "save"}
        /\ \/ order' = order
           \/ \E r : /\ Rewrites(mem[w].order, r) /\ r.status \in {mem[w].row.status, order[mem[w].order].status}
    BY <1>0, <1>2, PaySaves
  <2>2. mem[w].row = order[mem[w].order]
    BY <2>1 DEF RowsInv, Fresh
  <2>3. CASE order' = order
    BY <2>3 DEF SameSale, Live, Orders
  <2>4. ASSUME NEW r, Rewrites(mem[w].order, r), r.status = order[mem[w].order].status
        PROVE  Live' = Live /\ \A q \in Orders : SameSale(order'[q], order[q])
    BY <1>0, <2>4, LiveKept
  <2> QED
    BY <2>1, <2>2, <2>3, <2>4
<1>3. ASSUME NEW o \in OrderNo, MovesOrder(o)
      PROVE  Live' = Live /\ \A q \in Orders : SameSale(order'[q], order[q])
  BY <1>0, <1>3, ShopParts, MovesRewrites, LiveKept DEF MovesOrder
<1> QED
  BY <1>1, <1>2, <1>3 DEF Rewriting

\* The live orders after each step: no change, a new one, or one less.
LEMMA LiveKinds ==
    ASSUME RowsInv, Kinds
    PROVE  \/ Live' = Live /\ \A q \in Orders : SameSale(order'[q], order[q])
           \/ \E w \in Worker : Reserved(w) /\ Commits(w)
           \/ \E w \in Worker : CommitRelease(w)
<1>1. ShopInv
  BY DEF RowsInv
<1> QED
  BY <1>1, LiveSame, OrderKinds DEF Rewriting

\* A new live order.
LEMMA LiveGrows ==
    ASSUME ShopInv, NEW w \in Worker, Reserved(w), Commits(w)
    PROVE  \E o \in OrderNo \ Orders :
             /\ Live' = Live \cup {o} /\ o \notin Live /\ order'[o] = Created(w)
             /\ \A q \in Orders : order'[q] = order[q]
<1>1. PICK o \in OrderNo \ Orders :
        /\ Orders' = Orders \cup {o} /\ order'[o] = Created(w) /\ \A q \in Orders : order'[q] = order[q]
  BY CommitCreates
<1>2. Created(w).status \notin Terminal
  BY DEF Created, Terminal
<1>3. Live' = Live \cup {o} /\ o \notin Live
  BY <1>1, <1>2 DEF Live
<1> QED
  BY <1>1, <1>3

\* One live order less.
LEMMA LiveShrinks ==
    ASSUME RowsInv, NEW w \in Worker, CommitRelease(w)
    PROVE  /\ mem[w].order \in Live /\ Live' = Live \ {mem[w].order}
           /\ \A q \in Orders : SameSale(order'[q], order[q])
<1>1. ShopInv /\ mem[w].order \in Live
  <2>1. pc[w] = "release"
    BY DEF CommitRelease
  <2> QED
    BY <2>1 DEF RowsInv, EndsLive
<1>2. PICK r : Rewrites(mem[w].order, r) /\ r.status \in Terminal
  BY <1>1, ReleaseRewrites
<1>3. Tables /\ Orders' = Orders /\ SalesKept
  BY <1>1, <1>2, ShopParts, RewriteKeeps
<1>4. order'[mem[w].order] = r /\ \A q \in OrderNo \ {mem[w].order} : order'[q] = order[q]
  BY <1>2, <1>3 DEF Rewrites, Tables, Orders
<1>5. Live' = Live \ {mem[w].order}
  BY <1>2, <1>3, <1>4 DEF Live, Orders
<1> QED
  BY <1>1, <1>3, <1>5 DEF SalesKept

\* Stock and what the live orders hold of a product.
LEMMA StockStep ==
    ASSUME NoOverlap, NoCartEdit, StockInv, [Next]_vars
    PROVE  StockInv'
<1>0. RowsInv /\ ShopInv /\ SoldIsTaken /\ Kinds /\ Tables /\ \A p \in Product : stock[p] + Ordered(p) = supply[p]
  BY KindsOfSteps, ShopParts DEF StockInv, RowsInv, StockConserved, Ordered
<1>1. RowsInv' /\ SoldIsTaken' /\ ShopInv'
  BY <1>0, RowsStep, SoldStep DEF RowsInv
<1>a. Tables'
  BY <1>1, ShopStep DEF ShopInv, TypeOK, Tables
<1>b. Live \subseteq Orders
  BY DEF Live
<1>c. \A p \in Product : stock[p] \in Int /\ supply[p] \in Nat
  BY <1>0 DEF Tables
<1>2. SUFFICES ASSUME NEW p \in Product PROVE stock'[p] + Ordered(p)' = supply'[p]
  BY <1>1, <1>2 DEF StockInv, StockConserved, Ordered
<1>3. ASSUME NEW w \in Worker, Reserved(w), Commits(w) PROVE stock'[p] + Ordered(p)' = supply'[p]
  <2>1. PICK o \in OrderNo \ Orders :
          /\ Live' = Live \cup {o} /\ o \notin Live /\ order'[o] = Created(w)
          /\ \A q \in Orders : order'[q] = order[q]
    BY <1>0, <1>3, LiveGrows
  <2>2. mem[w] \in CheckoutMem /\ stock'[p] = stock[p] - Quantity(mem[w].take, p) /\ supply' = supply
    BY <1>0, <1>3, CommitCreates
  <2>3. mem[w].take = order'[o].items
    BY <1>0, <1>3, <2>1 DEF SoldIsTaken, Reserved, Created
  <2>4. Quantity(mem[w].take, p) \in Nat
    BY <2>2, QuantityType DEF CheckoutMem
  <2>5. Live \ {o} = Live' \ {o} /\ \A q \in Live \ {o} : order'[q].items = order[q].items
    BY <1>b, <2>1
  <2>6. PICK rest \in Nat :
          /\ Ordered(p) = rest + (IF o \in Live THEN Quantity(order[o].items, p) ELSE 0)
          /\ Ordered(p)' = rest + (IF o \in Live' THEN Quantity(order'[o].items, p) ELSE 0)
    BY <1>0, <1>a, <2>5, OrderedChange
  <2>7. Ordered(p) = rest + 0 /\ Ordered(p)' = rest + Quantity(mem[w].take, p)
    BY <2>1, <2>3, <2>6, Zenon
  <2>8. stock[p] + Ordered(p) = supply[p] /\ supply'[p] = supply[p]
    BY <1>0, <2>2
  <2> QED
    BY <1>c, <2>2, <2>4, <2>7, <2>8
<1>4. ASSUME NEW w \in Worker, CommitRelease(w) PROVE stock'[p] + Ordered(p)' = supply'[p]
  <2> DEFINE o == mem[w].order
  <2>1. o \in Live /\ Live' = Live \ {o} /\ \A q \in Orders : SameSale(order'[q], order[q])
    BY <1>0, <1>4, LiveShrinks
  <2>2. stock'[p] = stock[p] + Quantity(order[o].items, p) /\ supply' = supply
    BY <1>4 DEF CommitRelease
  <2>3. Quantity(order[o].items, p) \in Nat
    BY <1>0, <2>1, LiveFinite
  <2>4. Live \ {o} = Live' \ {o} /\ \A q \in Live \ {o} : order'[q].items = order[q].items
    BY <1>b, <2>1 DEF SameSale
  <2> HIDE DEF o
  <2>5. PICK rest \in Nat :
          /\ Ordered(p) = rest + (IF o \in Live THEN Quantity(order[o].items, p) ELSE 0)
          /\ Ordered(p)' = rest + (IF o \in Live' THEN Quantity(order'[o].items, p) ELSE 0)
    BY <1>0, <1>a, <2>4, OrderedChange
  <2>6. Ordered(p) = rest + Quantity(order[o].items, p) /\ Ordered(p)' = rest + 0
    <3>1. o \in Live /\ o \notin Live'
      BY <2>1
    <3> QED
      BY <2>5, <3>1, Zenon
  <2>7. stock[p] + Ordered(p) = supply[p] /\ supply'[p] = supply[p]
    BY <1>0, <2>2
  <2> QED
    BY <1>c, <2>2, <2>3, <2>6, <2>7
<1>5. ASSUME Live' = Live, \A q \in Orders : SameSale(order'[q], order[q]) PROVE Ordered(p)' = Ordered(p)
  <2>1. \A q \in Live : order'[q].items = order[q].items
    BY <1>b, <1>5 DEF SameSale
  <2>2. [q \in Live' |-> Quantity(order'[q].items, p)] = [q \in Live |-> Quantity(order[q].items, p)]
    BY <1>5, <2>1
  <2> QED
    BY <1>5, <2>2, Zenon DEF Ordered
<1>6. ASSUME Ordered(p)' = Ordered(p), stock' = stock, supply' = supply PROVE stock'[p] + Ordered(p)' = supply'[p]
  BY <1>0, <1>6
<1>7. ASSUME Ordered(p)' = Ordered(p), NEW q \in Product, adjust_stock(q) PROVE stock'[p] + Ordered(p)' = supply'[p]
  <2>1. \E total \in Nat :
          /\ stock' = [stock EXCEPT ![q] = @ + total - supply[q]]
          /\ supply' = [supply EXCEPT ![q] = total]
    BY <1>7, ShopAssumption DEF adjust_stock
  <2>2. \E d \in Int : stock'[p] = stock[p] + d /\ supply'[p] = supply[p] + d
    <3>1. CASE p = q
      <4>1. PICK total \in Nat : stock'[p] = stock[p] + total - supply[p] /\ supply'[p] = total
        BY <1>0, <2>1, <3>1 DEF Tables
      <4>2. total - supply[p] \in Int
        BY <1>c
      <4> QED
        BY <1>c, <4>1, <4>2
    <3>2. CASE p # q
      <4>1. stock'[p] = stock[p] /\ supply'[p] = supply[p]
        BY <1>0, <2>1, <3>2 DEF Tables
      <4>2. stock'[p] = stock[p] + 0 /\ supply'[p] = supply[p] + 0
        BY <1>c, <4>1
      <4> QED
        BY <4>2
    <3> QED
      BY <3>1, <3>2
  <2>3. Ordered(p) \in Int
    <3>1. IsFiniteSet(Live) /\ \A o \in Live : [x \in Live |-> Quantity(order[x].items, p)][o] \in Nat
      BY <1>0, LiveFinite
    <3> QED
      BY <3>1, SumType DEF Ordered
  <2> QED
    BY <1>0, <1>7, <1>c, <2>2, <2>3
<1> QED
  BY <1>0, <1>3, <1>4, <1>5, <1>6, <1>7, LiveKinds, StockKinds

\* What is in stock and what live orders hold adds up to the supply in every state, for
\* any number of workers, products and orders, as long as no request reaches an order
\* that another will save as a whole and no cart is edited while it is checked out: an
\* edit makes the items of the order differ from what was taken (reserve_stock, Order.cancel).
THEOREM StockAlwaysConserved == NoOverlap /\ NoCartEdit => (Spec => []StockConserved)
<1> SUFFICES ASSUME NoOverlap, NoCartEdit PROVE Spec => []StockConserved
  OBVIOUS
<1>1. Init => StockInv
  <2> SUFFICES ASSUME Init PROVE StockInv
    OBVIOUS
  <2>1. RowsInv /\ \A w \in Worker : pc[w] = "idle"
    BY RowsInit DEF Init
  <2>2. Live = {}
    BY DEF Init, Live, Orders, NoOrder
  <2>3. \A f : SumOver(f, {}) = 0
    BY SumEmpty
  <2>4. \A p \in Product : stock[p] + 0 = supply[p]
    BY ShopAssumption DEF Init
  <2>5. StockConserved
    BY <2>2, <2>3, <2>4, Zenon DEF StockConserved
  <2> QED
    BY <2>1, <2>5 DEF StockInv, SoldIsTaken
<1>2. StockInv /\ [Next]_vars => StockInv'
  BY StockStep
<1>3. StockInv => StockConserved
  BY DEF StockInv
<1> QED
  BY <1>1, <1>2, <1>3, PTL DEF Spec

----------------------------------------------------------------------------
(* A promo code is never used more than it may be *)

\* What each step does to the uses of the promo code.
LEMMA UsesKinds ==
    ASSUME ShopInv, Kinds
    PROVE  \/ times_used' = times_used /\ Rewriting
           \/ \E w \in Worker : CommitCheckout(w) \/ CommitGuest(w)
           \/ \E w \in Worker : CommitRelease(w)
<1>1. ASSUME NEW w \in Worker,
             \/ Stops(w) \/ Checkout(w) \/ GuestCheckout(w) \/ LockCart(w) \/ Reserves(w)
             \/ InitiatePayment(w) \/ OpenPayment(w) \/ LocksOrder(w) \/ release_stock(w)
      PROVE  times_used' = times_used /\ order' = order
  BY <1>1 DEF Stops, Kept, Checkout, GuestCheckout, Priced, LockCart, Reserves, reserve_stock, InitiatePayment,
              OpenPayment, LocksOrder, release_stock
<1>2. ASSUME NEW w \in Worker, PayOnDelivery(w) \/ SavePayment(w) PROVE times_used' = times_used
  BY <1>2 DEF PayOnDelivery, SavePayment
<1>3. ASSUME NEW o \in OrderNo, MovesOrder(o) PROVE times_used' = times_used
  BY <1>3, MovesRewrites, ShopParts DEF MovesOrder, Moves
<1>4. ASSUME NEW c, NEW p, AddItem(c) \/ adjust_stock(p) \/ UNCHANGED vars
      PROVE  times_used' = times_used /\ order' = order
  BY <1>4 DEF AddItem, adjust_stock, vars
<1> QED
  BY <1>1, <1>2, <1>3, <1>4 DEF Kinds, Rewriting

\* The part of CodesDiscount that is about a worker.
CodeOf(w) ==
    pc[w] \in {"priced", "reserve"} =>
        /\ mem[w].promo = mem[w].discounted
        /\ mem[w].cart = NoCart => ~mem[w].discounted

LEMMA CodeStep ==
    ASSUME CodesGuarded, ShopInv, CodesDiscount, [Next]_vars, NEW v \in Worker
    PROVE  CodeOf(v)'
<1>0. Kinds /\ ShopInv'
  BY KindsOfSteps, ShopStep
<1>a. \A w \in Worker : CodeOf(w)
  BY DEF CodesDiscount, CodeOf
<1>b. \A w \in Worker : pc[w] \in {"priced", "reserve"} => mem[w] \in CheckoutMem
  BY ShopParts DEF Placed
<1>1. ASSUME pc'[v] = pc[v], mem'[v] = mem[v] PROVE CodeOf(v)'
  BY <1>1, <1>a DEF CodeOf
<1>2. CASE NoNewCheckout
  <2>1. CASE pc'[v] \in {"priced", "reserve"}
    BY <1>1, <1>2, <2>1 DEF NoNewCheckout
  <2>2. CASE pc'[v] \notin {"priced", "reserve"}
    BY <2>2 DEF CodeOf
  <2> QED
    BY <2>1, <2>2
<1>3. ASSUME NEW w \in Worker, NEW where, NEW m, Goes(w, where, m), m.promo = m.discounted,
             m.cart = NoCart => ~m.discounted
      PROVE  CodeOf(v)'
  <2>1. CASE v = w
    BY <1>3, <2>1, GoesAt DEF CodeOf
  <2>2. CASE v # w
    BY <1>1, <1>3, <2>2, OthersStay
  <2> QED
    BY <2>1, <2>2
<1>4. ASSUME NEW w \in Worker, NEW c, NEW lines, NEW method, NEW code \in BOOLEAN, Priced(w, c, lines, method, code),
             code => ~SpentCode, c = NoCart => ~code
      PROVE  CodeOf(v)'
  <2>1. times_used \in Nat /\ MaxUses \in Nat
    BY ShopAssumption, ShopParts DEF Tables
  <2> DEFINE d == code /\ times_used < MaxUses
             m == [cart |-> c, lines |-> lines, method |-> method, promo |-> code,
                   discounted |-> d, uses |-> times_used, take |-> << >>, n |-> 0]
  <2>2. Goes(w, "priced", m)
    BY <1>4 DEF Priced
  <2>3. d = code
    <3>1. code => times_used < MaxUses
      BY <1>4, <2>1 DEF SpentCode
    <3> QED
      BY <3>1
  <2> HIDE DEF d
  <2>4. m.promo = code /\ m.discounted = d /\ m.cart = c
    OBVIOUS
  <2> HIDE DEF m
  <2>5. m.promo = m.discounted /\ (m.cart = NoCart => ~m.discounted)
    BY <1>4, <2>3, <2>4
  <2> QED
    BY <1>3, <2>2, <2>5
<1>5. ASSUME NEW w \in Worker, Checkout(w) PROVE CodeOf(v)'
  <2>1. PICK c \in Cart, method \in Method, code \in BOOLEAN :
          /\ code /\ SpentCode => "spent_code" \in Races
          /\ Priced(w, c, cart[c].lines, method, code)
    BY <1>5 DEF Checkout
  <2>2. (code => ~SpentCode) /\ c # NoCart
    BY <2>1, NameAssumption DEF CodesGuarded
  <2> QED
    BY <1>4, <2>1, <2>2
<1>6. ASSUME NEW w \in Worker, GuestCheckout(w) PROVE CodeOf(v)'
  <2>1. PICK lines \in Basket, method \in Method \ {"saved_card"}, code \in BOOLEAN :
          /\ code => "guest_code" \in Races
          /\ Priced(w, NoCart, lines, method, code)
    BY <1>6 DEF GuestCheckout
  <2>2. ~code
    BY <2>1 DEF CodesGuarded
  <2> QED
    BY <1>4, <2>1, <2>2
<1>7. ASSUME NEW w \in Worker, LockCart(w) PROVE CodeOf(v)'
  <2>1. pc[w] = "priced" /\ \E t : Goes(w, "reserve", [mem[w] EXCEPT !.take = t])
    BY <1>7 DEF LockCart
  <2>2. PICK t : Goes(w, "reserve", [mem[w] EXCEPT !.take = t])
    BY <2>1
  <2> DEFINE m == [mem[w] EXCEPT !.take = t]
  <2>3. m.promo = mem[w].promo /\ m.discounted = mem[w].discounted /\ m.cart = mem[w].cart
    BY <1>b, <2>1 DEF CheckoutMem
  <2> HIDE DEF m
  <2>4. Goes(w, "reserve", m)
    BY <2>2 DEF m
  <2>5. m.promo = m.discounted /\ (m.cart = NoCart => ~m.discounted)
    BY <1>a, <2>1, <2>3 DEF CodeOf
  <2> QED
    BY <1>3, <2>4, <2>5
<1>8. ASSUME NEW w \in Worker, Reserves(w) PROVE CodeOf(v)'
  <2>1. pc[w] = "reserve" /\ Goes(w, "reserve", [mem[w] EXCEPT !.n = @ + 1])
    BY <1>8 DEF Reserves, reserve_stock
  <2> DEFINE m == [mem[w] EXCEPT !.n = @ + 1]
  <2>3. m.promo = mem[w].promo /\ m.discounted = mem[w].discounted /\ m.cart = mem[w].cart
    BY <1>b, <2>1 DEF CheckoutMem
  <2>4. Goes(w, "reserve", m)
    BY <2>1
  <2> HIDE DEF m
  <2>5. m.promo = m.discounted /\ (m.cart = NoCart => ~m.discounted)
    BY <1>a, <2>1, <2>3 DEF CodeOf
  <2> QED
    BY <1>3, <2>4, <2>5
<1>9. ASSUME NEW c \in Cart, AddItem(c) PROVE CodeOf(v)'
  BY <1>1, <1>9 DEF AddItem
<1> QED
  BY <1>0, <1>2, <1>5, <1>6, <1>7, <1>8, <1>9, CheckoutKinds

LEMMA DiscountedFinite ==
    ASSUME ShopInv
    PROVE  IsFiniteSet(Discounted) /\ Cardinality(Discounted) \in Nat /\ Discounted \subseteq Orders
<1>1. Discounted \subseteq OrderNo /\ Discounted \subseteq Orders
  BY DEF Discounted, Live, Orders
<1>2. IsFiniteSet(Discounted)
  BY <1>1, NameAssumption, FS_Subset
<1> QED
  BY <1>1, <1>2, FS_CardinalityType

\* Every use of the code is a live order with its discount, before and after each step.
LEMMA PromoStep ==
    ASSUME NoOverlap, CodesGuarded, PromoInv, [Next]_vars
    PROVE  PromoInv'
<1>0. RowsInv /\ ShopInv /\ Kinds /\ Tables /\ CodesDiscount
  BY KindsOfSteps, ShopParts DEF PromoInv, RowsInv
<1>a. RowsInv' /\ \A w \in Worker : CodeOf(w) /\ CodeOf(w)'
  BY <1>0, RowsStep, CodeStep DEF CodesDiscount, CodeOf
<1>b. /\ times_used = Cardinality(Discounted) /\ times_used \in Nat /\ times_used <= MaxUses /\ MaxUses \in Nat
      /\ IsFiniteSet(Discounted) /\ Discounted \subseteq Orders
  BY <1>0, DiscountedFinite, ShopAssumption DEF PromoInv, UsesCounted
<1>c. Live \subseteq Orders /\ \A o \in Orders : order[o].promo = order[o].discounted
  BY <1>0 DEF Live, CodesDiscount
<1>1. SUFFICES (\A o \in Orders' : order'[o].promo = order'[o].discounted) /\ UsesCounted'
  BY <1>a, <1>1 DEF PromoInv, CodesDiscount, CodeOf
<1>2. ASSUME Orders' = Orders, \A q \in Orders : SameSale(order'[q], order[q])
      PROVE  /\ \A o \in Orders' : order'[o].promo = order'[o].discounted
             /\ \A o \in Orders : order'[o].discounted = order[o].discounted
  BY <1>2, <1>c DEF SameSale
<1>3. ASSUME times_used' = times_used, Rewriting
      PROVE  (\A o \in Orders' : order'[o].promo = order'[o].discounted) /\ UsesCounted'
  <2>1. Live' = Live /\ \A q \in Orders : SameSale(order'[q], order[q])
    BY <1>0, <1>3, LiveSame
  <2>2. Orders' = Orders
    <3>1. ASSUME NEW w \in Worker, PayOnDelivery(w) \/ SavePayment(w) PROVE Orders' = Orders
      BY <1>0, <3>1, PaySaves, RewriteKeeps, SameKeeps
    <3>2. ASSUME NEW o \in OrderNo, MovesOrder(o) PROVE Orders' = Orders
      BY <1>0, <3>2, MovesRewrites, RewriteKeeps DEF MovesOrder
    <3> QED
      BY <1>0, <1>3, <3>1, <3>2, SameKeeps DEF Rewriting
  <2>3. Discounted' = Discounted
    BY <1>2, <1>c, <2>1, <2>2 DEF Discounted
  <2>4. Cardinality(Discounted)' = Cardinality(Discounted)
    BY <2>3
  <2> QED
    BY <1>2, <1>3, <1>b, <2>1, <2>2, <2>4 DEF UsesCounted
<1>4. ASSUME NEW w \in Worker, CommitCheckout(w) \/ CommitGuest(w)
      PROVE  (\A o \in Orders' : order'[o].promo = order'[o].discounted) /\ UsesCounted'
  <2>1. Reserved(w) /\ Commits(w) /\ pc[w] = "reserve"
    BY <1>4 DEF CommitCheckout, CommitGuest, Reserved
  <2>2. /\ mem[w].promo = mem[w].discounted /\ mem[w].discounted \in BOOLEAN
        /\ mem[w].cart = NoCart => ~mem[w].discounted
    BY <1>0, <1>a, <2>1, CommitCreates DEF CodeOf, CheckoutMem
  <2>3. PICK o \in OrderNo \ Orders :
          /\ Orders' = Orders \cup {o} /\ order'[o] = Created(w) /\ \A q \in Orders : order'[q] = order[q]
    BY <1>0, <2>1, CommitCreates
  <2>4. Created(w).promo = mem[w].promo /\ Created(w).discounted = mem[w].discounted /\ Created(w).status \notin Terminal
    BY DEF Created, Terminal
  <2>5. \A q \in Orders' : order'[q].promo = order'[q].discounted
    BY <1>c, <2>2, <2>3, <2>4
  <2>6. Live' = Live \cup {o} /\ o \notin Live /\ \A q \in Live : order'[q] = order[q]
    BY <1>c, <2>3, <2>4 DEF Live
  <2>7. CASE mem[w].discounted
    <3>1. times_used < MaxUses /\ times_used' = times_used + 1
      BY <1>4, <2>2, <2>7 DEF CommitCheckout, CommitGuest
    <3>2. Discounted' = Discounted \cup {o} /\ o \notin Discounted
      BY <2>3, <2>4, <2>6, <2>7 DEF Discounted
    <3>3. Cardinality(Discounted \cup {o}) = Cardinality(Discounted) + 1
      BY <1>b, <3>2, FS_AddElement
    <3>4. Cardinality(Discounted)' = times_used + 1
      BY <1>b, <3>2, <3>3
    <3> QED
      BY <1>b, <2>5, <3>1, <3>4 DEF UsesCounted
  <2>8. CASE ~mem[w].discounted
    <3>1. times_used' = times_used
      BY <1>4, <2>8 DEF CommitCheckout, CommitGuest
    <3>2. Discounted' = Discounted
      BY <2>3, <2>4, <2>6, <2>8 DEF Discounted
    <3>3. Cardinality(Discounted)' = times_used
      BY <1>b, <3>2
    <3> QED
      BY <1>b, <2>5, <3>1, <3>3 DEF UsesCounted
  <2> QED
    BY <2>7, <2>8
<1>5. ASSUME NEW w \in Worker, CommitRelease(w)
      PROVE  (\A o \in Orders' : order'[o].promo = order'[o].discounted) /\ UsesCounted'
  <2> DEFINE o == mem[w].order
  <2>1. o \in Live /\ Live' = Live \ {o} /\ \A q \in Orders : SameSale(order'[q], order[q])
    BY <1>0, <1>5, LiveShrinks
  <2>2. Orders' = Orders
    BY <1>0, <1>5, ReleaseRewrites, RewriteKeeps
  <2>3. times_used' = IF order[o].promo /\ times_used > 0 THEN times_used - 1 ELSE times_used
    BY <1>5 DEF CommitRelease
  <2> HIDE DEF o
  <2>4. Discounted' = Discounted \ {o}
    BY <1>2, <1>c, <2>1, <2>2 DEF Discounted
  <2>5. order[o].promo = order[o].discounted
    BY <1>c, <2>1
  <2>6. CASE order[o].discounted
    <3>1. o \in Discounted
      BY <2>1, <2>6 DEF Discounted
    <3>2. Cardinality(Discounted \ {o}) = Cardinality(Discounted) - 1 /\ IsFiniteSet(Discounted \ {o})
      BY <1>b, <3>1, FS_RemoveElement
    <3>3. Cardinality(Discounted \ {o}) \in Nat
      BY <3>2, FS_CardinalityType
    <3>4. Cardinality(Discounted)' = Cardinality(Discounted \ {o})
      BY <2>4
    <3>5. Cardinality(Discounted)' = times_used - 1 /\ times_used > 0
      BY <1>b, <3>2, <3>3, <3>4
    <3>6. times_used' = times_used - 1
      BY <2>3, <2>5, <2>6, <3>5
    <3> QED
      BY <1>2, <1>b, <2>1, <2>2, <3>5, <3>6 DEF UsesCounted
  <2>7. CASE ~order[o].discounted
    <3>1. Discounted' = Discounted
      BY <2>4, <2>7 DEF Discounted
    <3>2. Cardinality(Discounted)' = times_used
      BY <1>b, <3>1
    <3>3. times_used' = times_used
      BY <2>3, <2>5, <2>7
    <3> QED
      BY <1>2, <1>b, <2>1, <2>2, <3>2, <3>3 DEF UsesCounted
  <2> QED
    BY <2>6, <2>7
<1> QED
  BY <1>0, <1>3, <1>4, <1>5, UsesKinds

\* Live orders never have the discount of the code more often than it may be used, for
\* any number of concurrent checkouts and cancels, where a code that is used up is not
\* sent again, guests send none and no request reaches an order another will save as a
\* whole: the uses counted are then exactly the live discounted orders, so that a cancel
\* frees one use and a checkout that finds the last one gone is refused.
THEOREM PromoNeverExceeded == NoOverlap /\ CodesGuarded => (Spec => []PromoWithinLimit)
<1> SUFFICES ASSUME NoOverlap, CodesGuarded PROVE Spec => []PromoWithinLimit
  OBVIOUS
<1>1. Init => PromoInv
  <2> SUFFICES ASSUME Init PROVE PromoInv
    OBVIOUS
  <2>1. RowsInv /\ \A w \in Worker : pc[w] = "idle"
    BY RowsInit DEF Init
  <2>2. Orders = {} /\ Discounted = {} /\ times_used = 0
    BY DEF Init, Orders, NoOrder, Discounted, Live
  <2>3. Cardinality(Discounted) = 0
    BY <2>2, FS_EmptySet
  <2>4. UsesCounted
    BY <2>2, <2>3, ShopAssumption DEF UsesCounted
  <2> QED
    BY <2>1, <2>2, <2>4 DEF PromoInv, CodesDiscount
<1>2. PromoInv /\ [Next]_vars => PromoInv'
  BY PromoStep
<1>3. PromoInv => PromoWithinLimit
  BY DEF PromoInv, UsesCounted, PromoWithinLimit, Discounted
<1> QED
  BY <1>1, <1>2, <1>3, PTL DEF Spec

=============================================================================
