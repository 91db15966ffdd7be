\* Four requests about two codes, with a restart.
SPECIFICATION Spec
CONSTANTS
    Request = {q1, q2, q3, q4}
    First = First
    None = None
    c1 = c1
    c2 = c2
    Code = {c1, c2}
    Settings <- SomeSettings
    Price = 300
    Baskets <- SomeBaskets
    MaxFaults = 1
SYMMETRY Symmetry
INVARIANTS
    DiscountTypeOK
    CodesApart
    UsesKept
    ActiveAsSet
    ReferencesStand
    QuoteHonoured
    AmountsAddUp
    LockHoldersMove
CHECK_DEADLOCK FALSE
PROPERTIES
    RemovedDiscountStays
