\* Three requests of administrators, about one hall and two movies.
SPECIFICATION Spec
CONSTANTS
    Request = {q1, q2, q3}
    Movie = {m1, m2}
    None = None
    StartTimes = {0, 1, 2, 3}
    Durations = {1, 2}
    NewDurations <- NewDurationsHere
    Buffer = 1
    Row = {a, b}
    MaxPerRow = 2
    MaxFaults = 1
SYMMETRY Symmetry
INVARIANTS
    ScheduleTypeOK
    ScreeningsApart
    ScreeningsHaveMovie
    SeatsGeneratedOnce
    TotalNeverOverstated
CHECK_DEADLOCK FALSE
PROPERTIES
    RemovedMovieStays
