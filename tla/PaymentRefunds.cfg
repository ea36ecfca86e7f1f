SPECIFICATION FairSpec
CONSTANTS
    NoObj = NoObj
    Worker = {w1, w2}
    Creator = w1
    Sweeper = beat
    Total = 4
    Deposit = 2
    Prices = {2, 4}
    Recorded = {1, 2}
    RefundPolicy = "partial_50"
    AutoConfirm = {"deposit_paid"}
    Ops = {"callback", "poll", "sweep", "client_cancel", "admin_cancel", "admin_cancel_no_refund", "record_payment", "refund_error", "status_error", "crash", "complete", "no_show", "force"}
INVARIANTS
    TypeOK
    RefundOnce
    BooksBacked
PROPERTIES
    UnpaidReleased
CHECK_DEADLOCK FALSE
