SPECIFICATION Spec
CONSTANTS
    NoObj = NoObj
    Worker = {w1, w2}
    Creator = w1
    Sweeper = beat
    Total = 4
    Deposit = 2
    Prices = {2, 4}
    Recorded = {1, 2}
    RefundPolicy = "full"
    AutoConfirm = {}
    Ops = {"callback", "poll", "record_payment", "patch"}
INVARIANTS
    PaidWithinTotal
CHECK_DEADLOCK FALSE
