\* The README's promise on vouchers, without any fault or restart.
SPECIFICATION Spec
CONSTANTS
    Reservation = {r1, r2}
    Seat = {s1, s2}
    Handler = {h1}
    None = None
    LockTtl = 1
    DelayTtl = 1
    ShowIn = 2
    CancelNotice = 2
    UsageLimit = 1
    Coupons = {TRUE}
    Ops = {"checkout"}
    BrokerStates = {"ready"}
    MaxNotify = 0
    MaxCrashes = 0
    MaxFaults = 0
INVARIANTS
    UsageWithinLimit
CHECK_DEADLOCK FALSE
