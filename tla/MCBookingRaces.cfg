\* Two hold requests for one seat, two payments in progress at once, a notification
\* that is repeated, no faults.
SPECIFICATION Spec
CONSTANTS
    Reservation = {r1, r2}
    Seat = {s1}
    Handler = {h1, h2}
    None = None
    LockTtl = 1
    DelayTtl = 1
    ShowIn = 2
    CancelNotice = 2
    UsageLimit = 1
    Coupons = {FALSE}
    Ops = {"checkout", "url"}
    BrokerStates = {"ready", "absent"}
    MaxNotify = 2
    MaxCrashes = 0
    MaxFaults = 0
SYMMETRY Symmetry
INVARIANTS
    TypeOK
    SoldOnceOutsideWindows
    PaidIsSettled
CHECK_DEADLOCK FALSE
