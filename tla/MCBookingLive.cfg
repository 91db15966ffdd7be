\* One reservation of two seats, two client requests in progress, one restart, under the
\* fairness of FairSpec and without symmetry.
SPECIFICATION FairSpec
CONSTANTS
    Reservation = {r1}
    Seat = {s1, s2}
    Handler = {h1, h2}
    None = None
    LockTtl = 1
    DelayTtl = 1
    ShowIn = 1
    CancelNotice = 0
    UsageLimit = 1
    Coupons = {FALSE}
    Ops = {"checkout", "url", "cancel"}
    BrokerStates = {"ready"}
    MaxNotify = 1
    MaxCrashes = 1
    MaxFaults = 0
PROPERTIES
    LocksLapse
    AnsweredExpires
    ConfirmedIsAnnounced
    PaidInTimeIsKept
    EndedStaysEnded
CHECK_DEADLOCK FALSE
