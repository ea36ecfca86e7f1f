SPECIFICATION FairSpec
CONSTANTS
    Worker = {1, 2}
    NoMem = NoMem
    Product = {"lamp"}
    Cart = {1}
    NoCart = NoCart
    OrderNo = {1, 2}
    Stock <- MCTwoEach
    Basket <- MCOneLine
    MaxQuantity = 1
    Supply <- MCNoSupply
    MaxUses = 0
    Method = {"card", "saved_card"}
    StaffSets = {"shipped"}
    CourierSets = {"shipped"}
    Handles <- MCPayHandles
    Crashing = {1}
    Races = {}
INVARIANTS TypeOK
PROPERTIES PaidKept 
CHECK_DEADLOCK FALSE
