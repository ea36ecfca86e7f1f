SPECIFICATION Spec
CONSTANTS
    Worker = {1, 2}
    NoMem = NoMem
    Product = {"lamp", "desk"}
    Cart = {1}
    NoCart = NoCart
    OrderNo = {1, 2}
    Stock <- MCStock
    Basket <- MCBasket
    MaxQuantity = 2
    Supply <- MCSupply
    MaxUses = 1
    Method = {"card", "cash_on_delivery"}
    StaffSets = {}
    CourierSets = {}
    Handles <- MCStockHandles
    Crashing = {1, 2}
    Races = {}
INVARIANTS StockConserved PromoWithinLimit
PROPERTIES NeverOversold
CHECK_DEADLOCK FALSE
