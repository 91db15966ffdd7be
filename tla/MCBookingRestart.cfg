\* The README's promise on unpaid reservations, with one restart.
SPECIFICATION FairSpec
CONSTANTS
    Reservation = {r1}
    Seat = {s1}
    Handler = {h1}
    None = None
    LockTtl = 1
    DelayTtl = 1
    ShowIn = 1
    CancelNotice = 1
    UsageLimit = 1
    Coupons = {FALSE}
    Ops = {}
    BrokerStates = {"ready"}
    MaxNotify = 0
    MaxCrashes = 1
    MaxFaults = 0
PROPERTIES
    UnpaidExpires
CHECK_DEADLOCK FALSE
