------------------------------ MODULE Schedule ------------------------------
(***************************************************************************)
(* The administrators' work on one hall: its seats are generated, and      *)
(* screenings of movies are scheduled in it and removed, while movies are  *)
(* changed and removed.  Halls share nothing but the movies.               *)
(*                                                                         *)
(* A screening's row has the name of the request that created it.  As in   *)
(* Booking, an action is one step of a request between two awaits.         *)
(***************************************************************************)
EXTENDS Integers, FiniteSets

CONSTANTS
    Request,     \* the administrators' requests
    Movie,
    None,        \* no movie
    StartTimes,  \* the times screenings may be asked to start at
    Durations,   \* the durations a movie may be created with
    NewDurations,  \* the durations an update may give, which nothing checks
    Buffer,      \* the time to clean the hall
    Row,         \* names of rows of seats
    MaxPerRow,   \* bound: seats in a row
    MaxFaults    \* bound: exceptions

ASSUME ScheduleAssumption ==
    /\ None \notin Movie
    /\ StartTimes \subseteq Nat
    /\ Durations \subseteq Nat \ {0} /\ Durations # {} /\ NewDurations \subseteq Int
    /\ Buffer \in Nat /\ MaxPerRow \in Nat /\ MaxFaults \in Nat
    /\ IsFiniteSet(Row)

VARIABLES
    duration,                \* durationMinutes of each movie
    movies, screenings,      \* the rows there are
    seats, totalSeats,       \* the hall's seat rows, and its totalSeats
    op, step,                \* each request: what it does, and how far it is
    movie, start, end,       \* the screening it creates, the movie it works on
    length,                  \* the duration it has in memory
    batch,                   \* the seats it generates
    faults,                  \* counter of the bound
    seen, outdated           \* history, read by no guard (see "History")

movieVars == <<duration, movies>>
seatVars  == <<seats, totalSeats>>
planVars  == <<movie, start, end, length, batch>>
histVars  == <<seen, outdated>>
vars == <<movieVars, screenings, seatVars, op, step, planVars, faults, histVars>>

Ops == {"none", "schedule", "generate", "change"}
Steps == {"idle", "check", "insert", "save_seats", "save_total", "save_movie",
          "done", "failed"}
Busy == Steps \ {"idle", "done", "failed"}

AnyDuration == Durations \cup NewDurations
AllSeats == Row \X (1..MaxPerRow)

(* History.  seen[q] are the screenings that were there when q looked for  *)
(* conflicts; outdated are the requests whose movie had its duration saved *)
(* after they read it.                                                     *)

----------------------------------------------------------------------------
Init ==
    /\ duration \in [Movie -> Durations]
    /\ movies = Movie
    /\ screenings = {}
    /\ seats = {}
    /\ totalSeats = 0
    /\ op = [q \in Request |-> "none"]
    /\ step = [q \in Request |-> "idle"]
    /\ movie = [q \in Request |-> None]
    /\ start = [q \in Request |-> 0]
    /\ end = [q \in Request |-> 0]
    /\ length = [q \in Request |-> 0]
    /\ batch = [q \in Request |-> {}]
    /\ faults = 0
    /\ seen = [q \in Request |-> {}]
    /\ outdated = {}

Begin(q, o, s) ==
    /\ step[q] = "idle"
    /\ op' = [op EXCEPT ![q] = o]
    /\ step' = [step EXCEPT ![q] = s]

Goto(q, s) ==
    /\ step' = [step EXCEPT ![q] = s]
    /\ UNCHANGED op

----------------------------------------------------------------------------
(* createShowtime                                                          *)

EndTime(from, minutes) == from + minutes + Buffer

(* The movie is read, and the end of the screening computed from it.       *)
ReadMovie(q, m, from) ==
    /\ m \in movies
    /\ Begin(q, "schedule", "check")
    /\ movie' = [movie EXCEPT ![q] = m]
    /\ length' = [length EXCEPT ![q] = duration[m]]
    /\ start' = [start EXCEPT ![q] = from]
    /\ end' = [end EXCEPT ![q] = EndTime(from, duration[m])]
    /\ UNCHANGED <<movieVars, screenings, seatVars, batch, faults, histVars>>

(* Mutation: only a screening that is running at the start is a conflict.  *)
ConflictsAtStart(p, q) == start[p] <= start[q] /\ end[p] > start[q]

(* startTime < newEndTime AND endTime > newStartTime                       *)
Conflicts(p, q) == start[p] < end[q] /\ end[p] > start[q]

(* The screenings of the hall are searched for a conflict.                 *)
FindConflict(q) ==
    /\ step[q] = "check"
    /\ Goto(q, IF \E p \in screenings : Conflicts(p, q) THEN "failed" ELSE "insert")
    /\ seen' = [seen EXCEPT ![q] = screenings]
    /\ UNCHANGED <<movieVars, screenings, seatVars, planVars, faults, outdated>>

(* Mutation: no foreign key from the screening to its movie.               *)
NotReferenced(q) == TRUE

(* The foreign key of the screening.                                       *)
MovieExists(q) == movie[q] \in movies

InsertScreening(q) ==
    /\ step[q] = "insert"
    /\ MovieExists(q)
    /\ screenings' = screenings \cup {q}
    /\ Goto(q, "done")
    /\ UNCHANGED <<movieVars, seatVars, planVars, faults, histVars>>

InsertRefused(q) ==
    /\ step[q] = "insert"
    /\ ~MovieExists(q)
    /\ Goto(q, "failed")
    /\ UNCHANGED <<movieVars, screenings, seatVars, planVars, faults, histVars>>

(* deleteShowtime                                                          *)
DeleteScreening(p) ==
    /\ p \in screenings
    /\ screenings' = screenings \ {p}
    /\ UNCHANGED <<movieVars, seatVars, op, step, planVars, faults, histVars>>

----------------------------------------------------------------------------
(* updateMovie and deleteMovie                                             *)

(* Mutation: a duration that is not given is taken for 0.                  *)
ChangeMovieUnguarded(q, m, d) ==
    /\ m \in movies
    /\ Begin(q, "change", "save_movie")
    /\ movie' = [movie EXCEPT ![q] = m]
    /\ length' \in {[length EXCEPT ![q] = n] : n \in {0, d}}
    /\ UNCHANGED <<movieVars, screenings, seatVars, start, end, batch, faults, histVars>>

(* Mutation: a movie that is not there is changed all the same.            *)
ChangeAnyMovie(q, m, d) ==
    /\ Begin(q, "change", "save_movie")
    /\ movie' = [movie EXCEPT ![q] = m]
    /\ length' = [length EXCEPT ![q] = d]
    /\ UNCHANGED <<movieVars, screenings, seatVars, start, end, batch, faults, histVars>>

(* The movie is read and changed in memory; d is its new duration, or the  *)
(* one it has when the change is about something else.  The request's body *)
(* is not validated, so that d may be negative.                            *)
ChangeMovie(q, m, d) ==
    /\ m \in movies
    /\ Begin(q, "change", "save_movie")
    /\ movie' = [movie EXCEPT ![q] = m]
    /\ length' = [length EXCEPT ![q] = d]
    /\ UNCHANGED <<movieVars, screenings, seatVars, start, end, batch, faults, histVars>>

(* The row is saved as it is in memory; if it was removed meanwhile, save  *)
(* inserts it again.  No screening's end is computed anew.                 *)
SaveMovie(q) ==
    /\ step[q] = "save_movie"
    /\ movies' = movies \cup {movie[q]}
    /\ duration' = [duration EXCEPT ![movie[q]] = length[q]]
    /\ outdated' = outdated \cup
         {p \in Request : movie[p] = movie[q] /\ length[p] # length[q]}
    /\ Goto(q, "done")
    /\ UNCHANGED <<screenings, seatVars, planVars, faults, seen>>

(* ON DELETE CASCADE.                                                      *)
ScreeningsOf(m) == {p \in screenings : movie[p] = m}

DeleteMovie(m) ==
    /\ m \in movies
    /\ movies' = movies \ {m}
    /\ screenings' = screenings \ ScreeningsOf(m)
    /\ UNCHANGED <<duration, seatVars, op, step, planVars, faults, histVars>>

----------------------------------------------------------------------------
(* generateSeats                                                           *)

(* The hall has no seats.                                                  *)
CountSeats(q, rows, perRow) ==
    /\ seats = {}
    /\ Begin(q, "generate", "save_seats")
    /\ batch' = [batch EXCEPT ![q] = rows \X (1..perRow)]
    /\ UNCHANGED <<movieVars, screenings, seatVars, movie, start, end, length, faults,
                   histVars>>

(* Mutation: no unique index on hall, row and number.                      *)
NeverTaken(q) == FALSE

(* The unique index on hall, row and number.                               *)
Taken(q) == batch[q] \cap seats # {}

(* All seats are saved in one transaction, or none.                        *)
SaveSeats(q) ==
    /\ step[q] = "save_seats"
    /\ ~Taken(q)
    /\ seats' = seats \cup batch[q]
    /\ Goto(q, "save_total")
    /\ UNCHANGED <<movieVars, screenings, totalSeats, planVars, faults, histVars>>

(* Mutation: totalSeats is written although the seats were refused.        *)
TotalAfterRefusal(q) ==
    /\ step[q] = "save_seats"
    /\ Taken(q)
    /\ Goto(q, "save_total")
    /\ UNCHANGED <<movieVars, screenings, seatVars, planVars, faults, histVars>>

SeatsRefused(q) ==
    /\ step[q] = "save_seats"
    /\ Taken(q)
    /\ Goto(q, "failed")
    /\ UNCHANGED <<movieVars, screenings, seatVars, planVars, faults, histVars>>

SaveTotal(q) ==
    /\ step[q] = "save_total"
    /\ totalSeats' = Cardinality(batch[q])
    /\ Goto(q, "done")
    /\ UNCHANGED <<movieVars, screenings, seats, planVars, faults, histVars>>

----------------------------------------------------------------------------
(* A query throws, or the application stops.                               *)
RequestFault(q) ==
    /\ step[q] \in Busy
    /\ faults < MaxFaults
    /\ faults' = faults + 1
    /\ Goto(q, "failed")
    /\ UNCHANGED <<movieVars, screenings, seatVars, planVars, histVars>>

Administrator(q) ==
    \/ \E m \in Movie, from \in StartTimes : ReadMovie(q, m, from)
    \/ \E m \in Movie : \E d \in NewDurations \cup {duration[m]} : ChangeMovie(q, m, d)
    \/ \E rows \in SUBSET Row, perRow \in 1..MaxPerRow : CountSeats(q, rows, perRow)

RequestStep(q) ==
    \/ FindConflict(q) \/ InsertScreening(q) \/ InsertRefused(q)
    \/ SaveMovie(q)
    \/ SaveSeats(q) \/ SeatsRefused(q) \/ SaveTotal(q)

Next ==
    \/ \E q \in Request :
        Administrator(q) \/ RequestStep(q) \/ DeleteScreening(q) \/ RequestFault(q)
    \/ \E m \in Movie : DeleteMovie(m)

Spec == Init /\ [][Next]_vars

----------------------------------------------------------------------------
(* Every variable stays within the values the code gives it.               *)
ScheduleTypeOK ==
    /\ duration \in [Movie -> AnyDuration]
    /\ movies \subseteq Movie
    /\ screenings \subseteq Request
    /\ seats \subseteq AllSeats
    /\ totalSeats \in Nat
    /\ op \in [Request -> Ops]
    /\ step \in [Request -> Steps]
    /\ movie \in [Request -> Movie \cup {None}]
    /\ start \in [Request -> Nat]
    /\ end \in [Request -> Int]
    /\ length \in [Request -> Int]
    /\ batch \in [Request -> SUBSET AllSeats]
    /\ faults \in 0..MaxFaults
    /\ seen \in [Request -> SUBSET Request]
    /\ outdated \subseteq Request

(* The screening p comes first, and one of the two was there when the other *)
(* was scheduled.                                                          *)
InSequence(p, q) ==
    /\ p # q
    /\ start[p] <= start[q]
    /\ p \in seen[q] \/ q \in seen[p]

(* The screening ends after it starts, as it does unless its movie had     *)
(* been given a negative duration.                                         *)
TakesTime(q) == start[q] < end[q]

(* Of two screenings in the hall the later one starts when the film of the *)
(* earlier one is over and the hall is cleaned, unless they were scheduled *)
(* at the same time, neither search seeing the other screening, the movie  *)
(* was made longer or shorter after it was scheduled, or the later one     *)
(* ends before it starts and fits in anywhere.                             *)
ScreeningsApart ==
    \A p, q \in screenings :
        InSequence(p, q) /\ p \notin outdated /\ TakesTime(q)
            => start[q] >= start[p] + duration[movie[p]] + Buffer

(* No screening is without its movie, whatever removals and schedulings    *)
(* overlap.                                                                *)
ScreeningsHaveMovie == \A p \in screenings : movie[p] \in movies

MovieGone(m) ==
    m \notin movies /\ \A q \in Request : ~(step[q] = "save_movie" /\ movie[q] = m)

(* A movie that was removed stays removed, unless a change was in progress *)
(* that had read it before: only such a change inserts it again.           *)
RemovedMovieStays == [][\A m \in Movie : MovieGone(m) => MovieGone(m)']_vars

SeatsSaved(q) == op[q] = "generate" /\ step[q] \in {"save_total", "done"}

(* No seat of the hall is generated twice, and no generation that was      *)
(* answered has lost one, however many of them found the hall empty.       *)
SeatsGeneratedOnce ==
    /\ \A q \in Request : SeatsSaved(q) => batch[q] \subseteq seats
    /\ \A p, q \in Request : p # q /\ SeatsSaved(p) /\ SeatsSaved(q)
                                => batch[p] \cap batch[q] = {}

(* The hall never claims more seats than it has, through failures at any   *)
(* step and overlapping generations.                                       *)
TotalNeverOverstated == totalSeats <= Cardinality(seats)

----------------------------------------------------------------------------
(* Inductive invariants.                                                   *)

(* What a request does goes with how far it is.                            *)
StepsMatch ==
    \A q \in Request :
        /\ step[q] = "idle" <=> op[q] = "none"
        /\ step[q] \in {"check", "insert"} => op[q] = "schedule"
        /\ step[q] \in {"save_seats", "save_total"} => op[q] = "generate"
        /\ step[q] = "save_movie" => op[q] = "change"
        /\ q \in screenings => op[q] = "schedule" /\ step[q] = "done"

(* A request has a movie and a duration in memory, and a screening lasts   *)
(* as long as its movie did when it was read.                              *)
PlansCurrent ==
    \A q \in Request :
        /\ op[q] \in {"schedule", "change"} => movie[q] \in Movie /\ length[q] \in AnyDuration
        /\ op[q] = "schedule" => end[q] = EndTime(start[q], length[q])
        /\ op[q] = "schedule" /\ q \notin outdated => duration[movie[q]] = length[q]

(* A search that found no conflict is right about the screenings it saw:   *)
(* their times do not change any more.                                     *)
SearchStands ==
    \A q \in Request :
        /\ \A p \in seen[q] : op[p] = "schedule" /\ step[p] = "done"
        /\ op[q] = "schedule" /\ step[q] \in {"insert", "done"}
              => \A p \in seen[q] : ~Conflicts(p, q)
=============================================================================
