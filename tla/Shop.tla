--------------------------------- MODULE Shop ---------------------------------
(***************************************************************************)
(* The shop of a tenant: stock, carts, orders and one promo code.          *)
(*                                                                         *)
(* A checkout reserves stock in one transaction and arranges the payment   *)
(* after it, on the Order instance it created; the customer, the staff,    *)
(* the courier, the gateways and the sweeper then move the order, and a    *)
(* cancel or a refund gives the stock and the promo use back.              *)
(*                                                                         *)
(* Row locks: a checkout holds its cart lines and the products it has      *)
(* reserved so far, a release holds its order and the products it has      *)
(* given back so far; PostgreSQL aborts one of the transactions of a       *)
(* circular wait.  Locks last to the end of the transaction, so its writes *)
(* are made in its last step.                                              *)
(***************************************************************************)
EXTENDS Integers, FiniteSets, Sequences, Sums

CONSTANTS
    Worker,      \* web and Celery workers
    NoMem,       \* an idle worker holds nothing
    Product,
    Cart,
    NoCart,      \* a guest sends the lines with the request
    OrderNo,     \* bound: the orders there is room for
    Stock,       \* what each product starts with
    Basket,      \* what carts start with and guests send: sequences of lines
    MaxQuantity, \* bound: the quantity of a cart line
    Supply,      \* bound: what deliveries and stock takes can bring the supply of a product to
    MaxUses,     \* PromoCode.max_uses
    Method,      \* the payment methods the shop offers
    StaffSets,   \* the statuses the staff move live orders to
    CourierSets, \* the statuses the courier reports
    Handles,     \* the requests and tasks each worker runs
    Crashing,    \* the workers that may die
    Races        \* which of the unguarded overlaps may occur

Handler == {"checkout", "guest", "client_cancel", "staff", "sweep", "initiate_payment"}

Line == [product : Product, quantity : 1..MaxQuantity]

ASSUME NameAssumption ==
    /\ NoMem \notin Worker /\ NoCart \notin Cart
    /\ IsFiniteSet(Worker) /\ IsFiniteSet(Product) /\ IsFiniteSet(OrderNo)
ASSUME ShopAssumption ==
    /\ Stock \in [Product -> Nat]
    /\ Basket \subseteq Seq(Line) \ {<< >>}
    /\ Supply \in [Product -> SUBSET Nat]
    /\ MaxQuantity \in Nat \ {0} /\ MaxUses \in Nat
    /\ Method \subseteq {"card", "saved_card", "cash_on_delivery"}
    /\ CourierSets \subseteq {"shipped", "delivered"}
    /\ StaffSets \subseteq {"confirmed", "processing", "shipped", "delivered"}
    /\ Handles \in [Worker -> SUBSET Handler]
    /\ Crashing \subseteq Worker
    /\ Races \subseteq {"overlap", "cart_edit", "spent_code", "guest_code"}

VARIABLES
    stock,       \* Product.quantity
    supply,      \* history: what each product started with, as the staff have adjusted it
    cart,        \* Cart rows with their lines
    order,       \* Order rows with their items
    times_used,  \* PromoCode.times_used
    opened,      \* the orders the gateway has a payment page or a charge for
    pc, mem      \* where each worker is, and what it holds

vars == <<stock, supply, cart, order, times_used, opened, pc, mem>>

Terminal == {"cancelled", "refunded"}

\* promo: promo_code is set.  discounted: discount_amount > 0.
OrderRow ==
    [status : {"pending", "confirmed", "processing", "shipped", "delivered"} \cup Terminal,
     payment_status : {"pending", "processing", "paid", "failed", "refunded"},
     payment_method : {"card", "saved_card", "cash_on_delivery"},
     payment_url : BOOLEAN, items : Seq(Line), promo : BOOLEAN, discounted : BOOLEAN]

NoOrder == [status |-> "none"]
Orders == {o \in OrderNo : order[o].status # "none"}
Live == {o \in Orders : order[o].status \notin Terminal}

\* How much of a product some lines ask for.
Quantity(lines, p) ==
    SumOver([i \in DOMAIN lines |-> IF lines[i].product = p THEN lines[i].quantity ELSE 0], DOMAIN lines)

----------------------------------------------------------------------------
(* Workers and their locks *)

Goes(w, where, m) ==
    /\ pc' = [pc EXCEPT ![w] = where]
    /\ mem' = [mem EXCEPT ![w] = m]

Ends(w) == Goes(w, "idle", NoMem)

\* The lines a transaction locks the products of, and the products it has.
Locking(w) == IF pc[w] = "reserve" THEN mem[w].take ELSE order[mem[w].order].items
InLines(w) == pc[w] \in {"reserve", "release"}
Holding(w) == IF InLines(w) THEN {Locking(w)[i].product : i \in 1..mem[w].n} ELSE {}
Wants(w, p) == InLines(w) /\ mem[w].n < Len(Locking(w)) /\ p = Locking(w)[mem[w].n + 1].product
Free(w, p) == \A v \in Worker \ {w} : p \notin Holding(v)
CartFree(c) == \A w \in Worker : pc[w] = "reserve" => mem[w].cart # c
OrderFree(o) == \A w \in Worker : pc[w] = "release" => mem[w].order # o

\* A worker that will save a whole Order instance leaves the row unlocked in the
\* meantime.  Without the race no other request reaches that order.
Unwritten(o) == "overlap" \in Races \/ \A w \in Worker : pc[w] \in {"pay", "save"} => mem[w].order # o
Reachable(o) == OrderFree(o) /\ Unwritten(o)

----------------------------------------------------------------------------
(* Carts and checkout *)

\* The lines of a cart: one more of a product it has, or a new line.
AddItem(c) ==
    /\ cart[c].status = "active"
    /\ "cart_edit" \in Races \/ \A w \in Worker : pc[w] \in {"priced", "reserve"} => mem[w].cart # c
    /\ \E p \in Product :
        \/ \E i \in DOMAIN cart[c].lines :
            /\ cart[c].lines[i].product = p /\ cart[c].lines[i].quantity < MaxQuantity
            /\ CartFree(c)
            /\ cart' = [cart EXCEPT ![c].lines[i].quantity = @ + 1]
        \/ /\ Quantity(cart[c].lines, p) = 0
           /\ cart' = [cart EXCEPT ![c].lines = Append(@, [product |-> p, quantity |-> 1])]
    /\ UNCHANGED <<stock, supply, order, times_used, opened, pc, mem>>

\* Bound: a checkout begins while there is room for its order.
RoomForOrder ==
    Cardinality(Orders) + Cardinality({w \in Worker : pc[w] \in {"priced", "reserve"}}) < Cardinality(OrderNo)

\* What a request has read and priced: the promo code is linked whether or not it
\* is still good, the discount is given when it is.
Priced(w, c, lines, method, code) ==
    /\ RoomForOrder
    /\ Goes(w, "priced", [cart |-> c, lines |-> lines, method |-> method, promo |-> code,
                          discounted |-> code /\ times_used < MaxUses, uses |-> times_used,
                          take |-> << >>, n |-> 0])
    /\ UNCHANGED <<stock, supply, cart, order, times_used, opened>>

SpentCode == times_used >= MaxUses

Checkout(w) ==
    /\ "checkout" \in Handles[w] /\ pc[w] = "idle"
    /\ \E c \in Cart, method \in Method, code \in BOOLEAN :
        /\ cart[c].status = "active" /\ cart[c].lines # << >>
        /\ code /\ SpentCode => "spent_code" \in Races
        /\ Priced(w, c, cart[c].lines, method, code)

GuestCheckout(w) ==
    /\ "guest" \in Handles[w] /\ pc[w] = "idle"
    /\ \E lines \in Basket, method \in Method \ {"saved_card"}, code \in BOOLEAN :
        /\ code => "guest_code" \in Races
        /\ code /\ SpentCode => "spent_code" \in Races
        /\ Priced(w, NoCart, lines, method, code)

\* The transaction begins: the lines of the cart are locked and read again; a guest's
\* are those of the request.
LockCart(w) ==
    /\ pc[w] = "priced"
    /\ mem[w].cart # NoCart => CartFree(mem[w].cart)
    /\ LET now == IF mem[w].cart = NoCart THEN mem[w].lines ELSE cart[mem[w].cart].lines
       IN  Goes(w, "reserve", [mem[w] EXCEPT !.take = now])
    /\ UNCHANGED <<stock, supply, cart, order, times_used, opened>>

\* Mutant: the product is read without its lock.
reserve_stock_Unlocked(w) ==
    /\ pc[w] = "reserve"
    /\ \E p \in Product :
        /\ Wants(w, p)
        /\ IF stock[p] < Quantity(SubSeq(mem[w].take, 1, mem[w].n + 1), p)
           THEN Ends(w)
           ELSE Goes(w, "reserve", [mem[w] EXCEPT !.n = @ + 1])
    /\ UNCHANGED <<stock, supply, cart, order, times_used, opened>>

\* The next line: its product is locked, and too little stock ends the request.
reserve_stock(w) ==
    /\ pc[w] = "reserve"
    /\ \E p \in Product :
        /\ Wants(w, p) /\ Free(w, p)
        /\ IF stock[p] < Quantity(SubSeq(mem[w].take, 1, mem[w].n + 1), p)
           THEN Ends(w)
           ELSE Goes(w, "reserve", [mem[w] EXCEPT !.n = @ + 1])
    /\ UNCHANGED <<stock, supply, cart, order, times_used, opened>>

Reserved(w) == pc[w] = "reserve" /\ mem[w].n = Len(mem[w].take)

\* The order a checkout creates.  Its items are the lines read when it was priced.
Created(w) ==
    [status |-> "pending", payment_status |-> "pending", payment_method |-> "card", payment_url |-> FALSE,
     items |-> mem[w].lines, promo |-> mem[w].promo, discounted |-> mem[w].discounted]

Commits(w) ==
    /\ \E o \in OrderNo \ Orders :
        /\ \A q \in OrderNo \ Orders : o <= q
        /\ order' = [order EXCEPT ![o] = Created(w)]
        /\ Goes(w, "pay", [order |-> o, row |-> Created(w), method |-> mem[w].method,
                          from |-> IF mem[w].cart = NoCart THEN "guest" ELSE "client"])
    /\ stock' = [p \in Product |-> stock[p] - Quantity(mem[w].take, p)]
    /\ UNCHANGED <<supply, opened>>

\* Mutant: the limit of the promo code is not checked again.
CommitCheckout_NoLimit(w) ==
    /\ Reserved(w) /\ mem[w].cart # NoCart
    /\ times_used' = IF mem[w].discounted THEN times_used + 1 ELSE times_used
    /\ cart' = [cart EXCEPT ![mem[w].cart].status = "converted"]
    /\ Commits(w)

\* A client's order: the promo code is locked, its limit checked again, a use counted.
CommitCheckout(w) ==
    /\ Reserved(w) /\ mem[w].cart # NoCart
    /\ mem[w].discounted => times_used < MaxUses
    /\ times_used' = IF mem[w].discounted THEN times_used + 1 ELSE times_used
    /\ cart' = [cart EXCEPT ![mem[w].cart].status = "converted"]
    /\ Commits(w)

CodeUsedUp(w) ==
    /\ Reserved(w) /\ mem[w].cart # NoCart /\ mem[w].discounted /\ times_used >= MaxUses
    /\ Ends(w)
    /\ UNCHANGED <<stock, supply, cart, order, times_used, opened>>

\* A guest's order: the use is counted on the PromoCode instance read for the price.
CommitGuest(w) ==
    /\ Reserved(w) /\ mem[w].cart = NoCart
    /\ times_used' = IF mem[w].discounted THEN mem[w].uses + 1 ELSE times_used
    /\ Commits(w)
    /\ UNCHANGED cart

----------------------------------------------------------------------------
(* Arranging the payment, on the instance the request holds *)

Unpaid(row) == row.payment_status # "paid" /\ row.status \notin Terminal

\* The staff open a payment for an order that has none to show.
InitiatePayment(w) ==
    /\ "initiate_payment" \in Handles[w] /\ pc[w] = "idle"
    /\ \E o \in Orders, method \in Method \ {"saved_card"} :
        /\ Reachable(o) /\ Unpaid(order[o])
        /\ ~(order[o].payment_url /\ order[o].payment_status = "pending")
        /\ Goes(w, "pay", [order |-> o, row |-> order[o], method |-> method, from |-> "staff"])
    /\ UNCHANGED <<stock, supply, cart, order, times_used, opened>>

\* Cash on delivery: a client's and the staff's request save the whole row, a guest's
\* the two columns, unless a courier was asked for, which is refused at this point.
PayOnDelivery(w) ==
    /\ pc[w] = "pay" /\ mem[w].method = "cash_on_delivery"
    /\ LET o == mem[w].order
           row == IF mem[w].from = "guest" THEN order[o] ELSE mem[w].row
       IN  \/ order' = [order EXCEPT ![o] = [row EXCEPT !.payment_method = "cash_on_delivery",
                                                       !.payment_status = "pending"]]
           \/ mem[w].from = "guest" /\ UNCHANGED order
    /\ Ends(w)
    /\ UNCHANGED <<stock, supply, cart, times_used, opened>>

OpenPayment(w) ==
    /\ pc[w] = "pay" /\ mem[w].method # "cash_on_delivery"
    /\ opened' = opened \cup {mem[w].order}
    /\ Goes(w, "save", mem[w])
    /\ UNCHANGED <<stock, supply, cart, order, times_used>>

\* The credentials cannot be loaded, or the call to the gateway fails, before or after
\* the gateway acted on it.  A client's order is cancelled, unless it was a charge of
\* a saved card that failed.
OpenFails(w) ==
    /\ pc[w] = "pay" /\ mem[w].method # "cash_on_delivery"
    /\ opened' \in {opened, opened \cup {mem[w].order}}
    /\ \/ /\ mem[w].from = "client"
          /\ Goes(w, "cancel", [order |-> mem[w].order, to |-> "cancelled", n |-> 0, todo |-> {}])
          /\ mem[w].method = "saved_card" => UNCHANGED opened
       \/ ~(mem[w].from = "client" /\ mem[w].method = "card") /\ Ends(w)
    /\ UNCHANGED <<stock, supply, cart, order, times_used>>

\* order.save(): every column of the instance.
SavePayment(w) ==
    /\ pc[w] = "save"
    /\ LET saved == mem[w].method = "saved_card"
       IN  order' = [order EXCEPT ![mem[w].order] =
                        [mem[w].row EXCEPT !.payment_status = IF saved THEN "processing" ELSE "pending",
                                           !.payment_method = mem[w].method,
                                           !.payment_url = IF saved THEN @ ELSE TRUE]]
    /\ Ends(w)
    /\ UNCHANGED <<stock, supply, cart, times_used, opened>>

----------------------------------------------------------------------------
(* One-row transactions: notices of the gateways and of the courier, the staff *)

Moves(o, row) ==
    /\ Reachable(o)
    /\ order' = [order EXCEPT ![o] = row]
    /\ UNCHANGED <<stock, supply, cart, times_used, opened, pc, mem>>

\* Mutant: a paid notice confirms a cancelled order.
NoticePaid_Resurrects(o) ==
    /\ o \in opened
    /\ order[o].payment_status # "paid"
    /\ Moves(o, [order[o] EXCEPT !.payment_status = "paid", !.status = "confirmed"])

\* The customer may pay, or try to, from then on; notices come late, repeatedly and in
\* any order.
NoticePaid(o) ==
    /\ o \in opened
    /\ order[o].payment_status \notin {"paid", "refunded"} /\ order[o].status \notin Terminal
    /\ Moves(o, [order[o] EXCEPT !.payment_status = "paid", !.status = "confirmed"])

\* Mutant: a late rejection downgrades a paid order.
NoticeRejected_Late(o) ==
    /\ o \in opened
    /\ order[o].payment_status # "refunded" /\ order[o].status # "refunded"
    /\ Moves(o, [order[o] EXCEPT !.payment_status = "failed"])

NoticeRejected(o) ==
    /\ o \in opened
    /\ order[o].payment_status \notin {"paid", "refunded"} /\ order[o].status # "refunded"
    /\ Moves(o, [order[o] EXCEPT !.payment_status = "failed"])

mark_paid(o) ==
    /\ o \in Live /\ order[o].payment_status \notin {"paid", "refunded"}
    /\ Moves(o, [order[o] EXCEPT !.payment_status = "paid",
                                 !.status = IF @ = "pending" THEN "confirmed" ELSE @])

\* The staff's status button and the status of an edit.
apply_order_status(o) ==
    /\ o \in Live
    /\ \E s \in StaffSets \ {order[o].status} : Moves(o, [order[o] EXCEPT !.status = s])

\* Mutant: the courier's own word is saved.
CourierMoves_Raw(o) ==
    /\ o \in Live
    /\ Moves(o, [order[o] EXCEPT !.status = "in_progress"])

\* The courier only moves an order forward.
CourierMoves(o) ==
    /\ o \in Live
    /\ \E s \in CourierSets :
        /\ order[o].status \notin {s, "delivered"}
        /\ Moves(o, [order[o] EXCEPT !.status = s])

\* The staff add a delivery or take off what is missing, whatever the stock is.
adjust_stock(p) ==
    /\ \A w \in Worker : p \notin Holding(w)
    /\ \E total \in Supply[p] \ {supply[p]} :
        /\ stock' = [stock EXCEPT ![p] = @ + total - supply[p]]
        /\ supply' = [supply EXCEPT ![p] = total]
    /\ UNCHANGED <<cart, order, times_used, opened, pc, mem>>

----------------------------------------------------------------------------
(* Cancelling and refunding *)

Cancelling(o, to, todo) == [order |-> o, to |-> to, n |-> 0, todo |-> todo]

\* The sweeper goes on with the next order of its list.
Continues(w, todo) ==
    IF todo = {} THEN Ends(w) ELSE \E o \in todo : Goes(w, "cancel", Cancelling(o, "cancelled", todo \ {o}))

\* The customer's cancel, checked on the order as read.
ClientCancel(w) ==
    /\ "client_cancel" \in Handles[w] /\ pc[w] = "idle"
    /\ \E o \in Orders :
        /\ order[o].status \in {"pending", "confirmed"}
        /\ Goes(w, "cancel", Cancelling(o, "cancelled", {}))
    /\ UNCHANGED <<stock, supply, cart, order, times_used, opened>>

Abandoned(o) ==
    /\ o \in Orders
    /\ order[o].status = "pending" /\ order[o].payment_status \in {"pending", "failed"}
    /\ order[o].payment_method # "cash_on_delivery"

\* Mutant: a rejected payment is left to the customer for ever.
cancel_unpaid_orders_PendingOnly(w, o) ==
    /\ "sweep" \in Handles[w] /\ pc[w] = "idle"
    /\ Abandoned(o) /\ Unwritten(o) /\ order[o].payment_status = "pending"
    /\ Goes(w, "cancel", Cancelling(o, "cancelled", {}))
    /\ UNCHANGED <<stock, supply, cart, order, times_used, opened>>

\* The sweeper lists o and the other abandoned orders that are past the grace period;
\* one whose checkout is still running is not.
cancel_unpaid_orders(w, o) ==
    /\ "sweep" \in Handles[w] /\ pc[w] = "idle"
    /\ Abandoned(o) /\ Unwritten(o)
    /\ \E rest \in SUBSET {q \in OrderNo \ {o} : Abandoned(q) /\ Unwritten(q)} :
        Goes(w, "cancel", Cancelling(o, "cancelled", rest))
    /\ UNCHANGED <<stock, supply, cart, order, times_used, opened>>

\* Order.cancel locks the row and looks at it again.
CancelLock(w) ==
    /\ pc[w] = "cancel" /\ Reachable(mem[w].order)
    /\ IF order[mem[w].order].status \in Terminal
       THEN Continues(w, mem[w].todo)
       ELSE Goes(w, "release", mem[w])
    /\ UNCHANGED <<stock, supply, cart, order, times_used, opened>>

\* A cancel or a refund by the staff, and a cancel the courier reports, lock first.
StaffEnds(w) ==
    /\ "staff" \in Handles[w] /\ pc[w] = "idle"
    /\ \E o \in Live, to \in Terminal :
        Reachable(o) /\ Goes(w, "release", Cancelling(o, to, {}))
    /\ UNCHANGED <<stock, supply, cart, order, times_used, opened>>

\* The next item goes back: the UPDATE locks its product.
release_stock(w) ==
    /\ pc[w] = "release"
    /\ \E p \in Product : Wants(w, p) /\ Free(w, p)
    /\ Goes(w, "release", [mem[w] EXCEPT !.n = @ + 1])
    /\ UNCHANGED <<stock, supply, cart, order, times_used, opened>>

CommitRelease(w) ==
    /\ pc[w] = "release" /\ mem[w].n = Len(Locking(w))
    /\ LET o == mem[w].order
       IN  /\ stock' = [p \in Product |-> stock[p] + Quantity(order[o].items, p)]
           /\ times_used' = IF order[o].promo /\ times_used > 0 THEN times_used - 1 ELSE times_used
           /\ order' = [order EXCEPT ![o].status = mem[w].to,
                                     ![o].payment_status = IF mem[w].to = "refunded" THEN "refunded" ELSE @]
    /\ Continues(w, mem[w].todo)
    /\ UNCHANGED <<supply, cart, opened>>

----------------------------------------------------------------------------
(* The database and the machines *)

WaitsFor(w, v) == \E p \in Product : Wants(w, p) /\ p \in Holding(v) /\ v # w
CircularWait(w) ==
    \E S \in SUBSET Worker : w \in S /\ \A u \in S : \E v \in S : WaitsFor(u, v)

\* The transaction of a circular wait that PostgreSQL aborts; the sweeper logs it and
\* goes on, a request ends.
DeadlockAborts(w) ==
    /\ CircularWait(w)
    /\ IF pc[w] = "release" THEN Continues(w, mem[w].todo) ELSE Ends(w)
    /\ UNCHANGED <<stock, supply, cart, order, times_used, opened>>

\* A worker dies: its transaction is rolled back.
Crash(w) ==
    /\ w \in Crashing /\ pc[w] # "idle"
    /\ Ends(w)
    /\ UNCHANGED <<stock, supply, cart, order, times_used, opened>>

Init ==
    /\ stock = Stock /\ supply = Stock
    /\ \E lines \in [Cart -> Basket] : cart = [c \in Cart |-> [status |-> "active", lines |-> lines[c]]]
    /\ order = [o \in OrderNo |-> NoOrder]
    /\ times_used = 0
    /\ opened = {}
    /\ pc = [w \in Worker |-> "idle"] /\ mem = [w \in Worker |-> NoMem]

\* What a request or a task does once it has begun.
Continuing(w) ==
    \/ LockCart(w) \/ reserve_stock(w) \/ CommitCheckout(w) \/ CodeUsedUp(w) \/ CommitGuest(w)
    \/ PayOnDelivery(w) \/ OpenPayment(w) \/ OpenFails(w) \/ SavePayment(w)
    \/ CancelLock(w) \/ release_stock(w) \/ CommitRelease(w) \/ DeadlockAborts(w)

Next ==
    \/ \E w \in Worker :
        \/ Checkout(w) \/ GuestCheckout(w) \/ InitiatePayment(w) \/ ClientCancel(w) \/ StaffEnds(w)
        \/ \E o \in OrderNo : cancel_unpaid_orders(w, o)
        \/ Continuing(w) \/ Crash(w)
    \/ \E c \in Cart : AddItem(c)
    \/ \E p \in Product : adjust_stock(p)
    \/ \E o \in OrderNo :
        \/ NoticePaid(o) \/ NoticeRejected(o) \/ mark_paid(o)
        \/ apply_order_status(o) \/ CourierMoves(o)

Spec == Init /\ [][Next]_vars

\* Begun work is carried on; a release gets its locks, which PostgreSQL grants in turn;
\* and the sweeper, which Celery beat starts every six hours, in time lists an order
\* that is abandoned again and again.
FairSpec ==
    /\ Spec
    /\ \A w \in Worker : WF_vars(Continuing(w)) /\ SF_vars(CancelLock(w)) /\ SF_vars(release_stock(w))
    /\ \A o \in OrderNo : SF_vars(\E w \in Worker : cancel_unpaid_orders(w, o))

----------------------------------------------------------------------------
(* Properties *)

Control == {"idle", "priced", "reserve", "pay", "save", "cancel", "release"}

\* What a worker holds: a checkout, the payment of an order, the cancel of one.
CheckoutMem == [cart : Cart \cup {NoCart}, lines : Seq(Line), method : Method, promo : BOOLEAN,
                discounted : BOOLEAN, uses : Nat, take : Seq(Line), n : Nat]
PayMem == [order : OrderNo, row : OrderRow, method : Method, from : {"client", "guest", "staff"}]
CancelMem == [order : OrderNo, to : Terminal, n : Nat, todo : SUBSET OrderNo]

\* The rows have the columns and the choices of the models, a worker holds what its place
\* needs, and one that has a transaction open never holds more locks than it has lines.
TypeOK ==
    /\ stock \in [Product -> Int] /\ supply \in [Product -> Nat]
    /\ cart \in [Cart -> [status : {"active", "converted"}, lines : Seq(Line)]]
    /\ order \in [OrderNo -> {NoOrder} \cup OrderRow]
    /\ times_used \in Nat
    /\ opened \subseteq Orders
    /\ pc \in [Worker -> Control] /\ DOMAIN mem = Worker
    /\ \A w \in Worker :
        /\ pc[w] = "idle" => mem[w] = NoMem
        /\ pc[w] \in {"priced", "reserve"} => mem[w] \in CheckoutMem
        /\ pc[w] \in {"pay", "save"} => mem[w] \in PayMem
        /\ pc[w] \in {"cancel", "release"} => mem[w] \in CancelMem
        /\ InLines(w) => mem[w].n \in 0..Len(Locking(w))

\* What is in stock and what live orders hold is the supply as the staff adjusted it:
\* nothing a cancel, a refund, the sweeper and late notices do restocks twice,
\* forgets a restock or revives an order whose stock is gone (Order.cancel, _refund_order,
\* reserve_stock, release_stock).
StockConserved ==
    \A p \in Product :
        stock[p] + SumOver([o \in Live |-> Quantity(order[o].items, p)], Live) = supply[p]

\* Concurrent checkouts never sell what is not there, also while the staff adjust the
\* stock, which alone can take it below zero (reserve_stock).
NeverOversold ==
    [][\A p \in Product : stock'[p] < stock[p] /\ supply'[p] = supply[p] => stock'[p] >= 0]_vars

\* No more live orders have the discount of a promo code than it may be used
\* (serializers.py: concurrent checkouts "can't push a limited promo past max_uses").
PromoWithinLimit == Cardinality({o \in Live : order[o].discounted}) <= MaxUses

\* A paid order is never unpaid again, but by a refund, whatever order notices and
\* saves come in (the webhooks: "never downgrade an order BOG already confirmed").
PaidKept ==
    [][\A o \in Orders : order[o].payment_status = "paid" =>
        order'[o].payment_status \in {"paid", "refunded"}]_vars

\* An order the customer walked away from, or whose payment was rejected, does not hold
\* its stock for ever, though sweeps crash and lose deadlocks (cancel_unpaid_orders).
AbandonedReleased == \A o \in OrderNo : Abandoned(o) ~> ~Abandoned(o)

============================================================================
