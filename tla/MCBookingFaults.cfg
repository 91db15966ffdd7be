\* A restart and two other faults anywhere.
SPECIFICATION Spec
CONSTANTS
    Reservation = {r1, r2}
    Seat = {s1}
    Handler = {h1}
    None = None
    LockTtl = 1
    DelayTtl = 1
    ShowIn = 1
    CancelNotice = 1
    UsageLimit = 1
    Coupons = {FALSE}
    Ops = {"checkout", "url", "cancel"}
    BrokerStates = {"ready"}
    MaxNotify = 1
    MaxCrashes = 1
    MaxFaults = 2
SYMMETRY Symmetry
INVARIANTS
    SoldOnceOutsideWindows
    NeverExpiredEarly
    TimeoutNotLost
CHECK_DEADLOCK FALSE
