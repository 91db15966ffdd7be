\* Two requests for two seats and one discount use, two payments at once: locks are
\* taken one by one, and may run out one by one.
SPECIFICATION Spec
CONSTANTS
    Reservation = {r1, r2}
    Seat = {s1, s2}
    Handler = {h1, h2}
    None = None
    LockTtl = 2
    DelayTtl = 2
    ShowIn = 1
    CancelNotice = 1
    UsageLimit = 1
    Coupons = {TRUE, FALSE}
    Ops = {"checkout"}
    BrokerStates = {"ready"}
    MaxNotify = 0
    MaxCrashes = 0
    MaxFaults = 0
SYMMETRY Symmetry
INVARIANTS
    HoldNeverOutlivesDeadline
    LockAccounted
    UsageNeverUndercounted
CHECK_DEADLOCK FALSE
PROPERTIES
    ImplementsSeatSales
    LimitClosesDiscount
