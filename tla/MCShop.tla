------------------------------- MODULE MCShop --------------------------------
(***************************************************************************)
(* Instances of Shop with two products.  A cart may want both in either    *)
(* order, so that checkouts and releases can wait for one another in a     *)
(* circle.                                                                 *)
(***************************************************************************)
EXTENDS Shop

MCLine(p) == [product |-> p, quantity |-> 1]
MCStock == [p \in Product |-> IF p = "lamp" THEN 1 ELSE 2]
MCSupply == [p \in Product |-> IF p = "lamp" THEN {0, 1} ELSE {2}]
MCNoSupply == [p \in Product |-> {}]
MCTwoEach == [p \in Product |-> 2]
MCBasket == {<<MCLine("lamp"), MCLine("desk")>>, <<MCLine("desk")>>}
MCOneLine == {<<MCLine("lamp")>>}

\* Stock and promo code: two checkouts at a time, everything that gives stock back.
MCStockHandles ==
    [w \in Worker |-> IF w = 1 THEN {"checkout", "sweep"}
                      ELSE {"checkout", "guest", "client_cancel", "staff"}]

\* Payments: every way to open one, and the sweeper.
MCPayHandles ==
    [w \in Worker |-> IF w = 1 THEN {"checkout", "guest", "initiate_payment", "staff"} ELSE {"sweep"}]

============================================================================
