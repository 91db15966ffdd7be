\* The README's promise on seats, without any fault or restart.
SPECIFICATION Spec
CONSTANTS
    Reservation = {r1, r2}
    Seat = {s1}
    Handler = {h1, h2}
    None = None
    LockTtl = 1
    DelayTtl = 1
    ShowIn = 2
    CancelNotice = 2
    UsageLimit = 1
    Coupons = {FALSE}
    Ops = {"checkout"}
    BrokerStates = {"ready"}
    MaxNotify = 0
    MaxCrashes = 0
    MaxFaults = 0
INVARIANTS
    NoDoubleBooking
CHECK_DEADLOCK FALSE
