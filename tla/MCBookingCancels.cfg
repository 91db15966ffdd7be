\* Two hold requests for one seat, three payments and cancellations at once, no
\* faults.
SPECIFICATION Spec
CONSTANTS
    Reservation = {r1, r2}
    Seat = {s1}
    Handler = {h1, h2, h3}
    None = None
    LockTtl = 1
    DelayTtl = 1
    ShowIn = 2
    CancelNotice = 2
    UsageLimit = 1
    Coupons = {FALSE}
    Ops = {"checkout", "cancel"}
    BrokerStates = {"ready"}
    MaxNotify = 0
    MaxCrashes = 0
    MaxFaults = 0
SYMMETRY Symmetry
INVARIANTS
    LockAccounted
CHECK_DEADLOCK FALSE
PROPERTIES
    ImplementsSeatSales
