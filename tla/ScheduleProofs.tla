--------------------------- MODULE ScheduleProofs ---------------------------
(***************************************************************************)
(* The safety of one hall's schedule and seats, for any requests, movies,  *)
(* times and rows.  One lemma per inductive invariant, with one step per   *)
(* action.                                                                 *)
(***************************************************************************)
EXTENDS Schedule, FiniteSetTheorems, TLAPS

(* The seats a hall may have are finitely many.                            *)
LEMMA SeatsFinite ==
    \A S \in SUBSET AllSeats : IsFiniteSet(S) /\ Cardinality(S) \in Nat
<1>1. IsFiniteSet(1..MaxPerRow)
  BY FS_Interval, ScheduleAssumption
<1>2. IsFiniteSet(AllSeats)
  BY <1>1, FS_Product, ScheduleAssumption DEF AllSeats
<1> QED
  BY <1>2, FS_Subset, FS_CardinalityType

(* A change gives a movie a new duration, or the one it has.               *)
LEMMA ChangedDuration ==
    ASSUME ScheduleTypeOK
    PROVE  \A m \in Movie : NewDurations \cup {duration[m]} \subseteq AnyDuration
  BY DEF ScheduleTypeOK, AnyDuration

(* Minutes, of a creation or an update, are integers.                      *)
LEMMA DurationsInt == AnyDuration \subseteq Int
<1>1. Durations \subseteq Nat \ {0} /\ NewDurations \subseteq Int
  BY ScheduleAssumption
<1>2. Nat \ {0} \subseteq Int
  OBVIOUS
<1> QED
  BY <1>1, <1>2 DEF AnyDuration

(* A step keeps every variable to its type.                                *)
LEMMA ScheduleTypeStep ==
    ScheduleTypeOK /\ StepsMatch /\ PlansCurrent /\ [Next]_vars
        => ScheduleTypeOK'
<1> SUFFICES ASSUME ScheduleTypeOK, StepsMatch, PlansCurrent,
                    [Next]_vars
             PROVE  ScheduleTypeOK'
  OBVIOUS
<1> USE ScheduleAssumption DEF Ops, Steps, Busy, AllSeats, AnyDuration,
        movieVars, seatVars, planVars, histVars
<1>1. ASSUME NEW q \in Request, NEW m \in Movie, NEW from \in StartTimes,
             ReadMovie(q, m, from)
      PROVE  ScheduleTypeOK'
  <2>1. duration[m] \in Int /\ from \in Nat /\ EndTime(from, duration[m]) \in Int
    <3>1. duration[m] \in AnyDuration
      BY DEF ScheduleTypeOK
    <3>2. duration[m] \in Int /\ from \in Nat /\ Buffer \in Nat
      <4>1. duration[m] \in Int
        BY <3>1, DurationsInt
      <4>2. from \in Nat /\ Buffer \in Nat
        BY ScheduleAssumption
      <4> QED
        BY <4>1, <4>2
    <3> QED
      BY <3>2 DEF EndTime
  <2>2. /\ length' \in [Request -> Int]
        /\ start' \in [Request -> Nat] /\ end' \in [Request -> Int]
    BY <1>1, <2>1 DEF ReadMovie, ScheduleTypeOK
  <2>3. movie' \in [Request -> Movie \cup {None}]
    BY <1>1 DEF ReadMovie, ScheduleTypeOK
  <2>4. op' \in [Request -> Ops] /\ step' \in [Request -> Steps]
    BY <1>1 DEF ReadMovie, Begin, ScheduleTypeOK
  <2> QED
    BY <1>1, <2>2, <2>3, <2>4 DEF ReadMovie, ScheduleTypeOK
<1>2. ASSUME NEW q \in Request, NEW m \in Movie, NEW d \in AnyDuration,
             ChangeMovie(q, m, d)
      PROVE  ScheduleTypeOK'
  BY <1>2 DEF ChangeMovie, Begin, ScheduleTypeOK
<1>3. ASSUME NEW q \in Request, NEW rows \in SUBSET Row, NEW perRow \in 1..MaxPerRow,
             CountSeats(q, rows, perRow)
      PROVE  ScheduleTypeOK'
  <2>1. rows \X (1..perRow) \subseteq AllSeats
    OBVIOUS
  <2> QED
    BY <1>3, <2>1 DEF CountSeats, Begin, ScheduleTypeOK
<1>4. ASSUME NEW q \in Request, FindConflict(q) PROVE ScheduleTypeOK'
  BY <1>4 DEF FindConflict, Goto, ScheduleTypeOK
<1>5. ASSUME NEW q \in Request, InsertScreening(q) PROVE ScheduleTypeOK'
  BY <1>5 DEF InsertScreening, MovieExists, Goto, ScheduleTypeOK
<1>6. ASSUME NEW q \in Request, InsertRefused(q) PROVE ScheduleTypeOK'
  BY <1>6 DEF InsertRefused, Goto, ScheduleTypeOK
<1>7. ASSUME NEW q \in Request, SaveMovie(q) PROVE ScheduleTypeOK'
  <2>1. movie[q] \in Movie /\ length[q] \in AnyDuration
    BY <1>7 DEF SaveMovie, StepsMatch, PlansCurrent
  <2> QED
    BY <1>7, <2>1 DEF SaveMovie, Goto, ScheduleTypeOK
<1>8. ASSUME NEW q \in Request, SaveSeats(q) PROVE ScheduleTypeOK'
  BY <1>8 DEF SaveSeats, Taken, Goto, ScheduleTypeOK
<1>9. ASSUME NEW q \in Request, SeatsRefused(q) PROVE ScheduleTypeOK'
  BY <1>9 DEF SeatsRefused, Goto, ScheduleTypeOK
<1>10. ASSUME NEW q \in Request, SaveTotal(q) PROVE ScheduleTypeOK'
  <2>1. Cardinality(batch[q]) \in Nat
    BY SeatsFinite DEF ScheduleTypeOK
  <2> QED
    BY <1>10, <2>1 DEF SaveTotal, Goto, ScheduleTypeOK
<1>11. ASSUME NEW q \in Request, DeleteScreening(q) PROVE ScheduleTypeOK'
  BY <1>11 DEF DeleteScreening, ScheduleTypeOK
<1>12. ASSUME NEW q \in Request, RequestFault(q) PROVE ScheduleTypeOK'
  BY <1>12 DEF RequestFault, Goto, ScheduleTypeOK
<1>13. ASSUME NEW m \in Movie, DeleteMovie(m) PROVE ScheduleTypeOK'
  BY <1>13 DEF DeleteMovie, ScreeningsOf, ScheduleTypeOK
<1>14. CASE UNCHANGED vars
  BY <1>14 DEF vars, ScheduleTypeOK
<1> QED
  BY <1>1, <1>2, <1>3, <1>4, <1>5, <1>6, <1>7, <1>8, <1>9, <1>10, <1>11, <1>12,
      <1>13, <1>14, ChangedDuration
  DEF Next, Administrator, RequestStep

(* A step keeps operations and progress together.                          *)
LEMMA StepsMatchStep ==
    ScheduleTypeOK /\ StepsMatch /\ [Next]_vars
        => StepsMatch'
<1> SUFFICES ASSUME ScheduleTypeOK, StepsMatch,
                    [Next]_vars
             PROVE  StepsMatch'
  OBVIOUS
<1> USE ScheduleAssumption DEF Ops, Steps, Busy, AllSeats, AnyDuration,
        movieVars, seatVars, planVars, histVars
<1>1. ASSUME NEW q \in Request, NEW m \in Movie, NEW from \in StartTimes,
             ReadMovie(q, m, from)
      PROVE  StepsMatch'
  BY <1>1 DEF ReadMovie, Begin, EndTime, StepsMatch, ScheduleTypeOK
<1>2. ASSUME NEW q \in Request, NEW m \in Movie, NEW d \in AnyDuration,
             ChangeMovie(q, m, d)
      PROVE  StepsMatch'
  BY <1>2 DEF ChangeMovie, Begin, StepsMatch, ScheduleTypeOK
<1>3. ASSUME NEW q \in Request, NEW rows \in SUBSET Row, NEW perRow \in 1..MaxPerRow,
             CountSeats(q, rows, perRow)
      PROVE  StepsMatch'
  BY <1>3 DEF CountSeats, Begin, StepsMatch, ScheduleTypeOK
<1>4. ASSUME NEW q \in Request, FindConflict(q) PROVE StepsMatch'
  BY <1>4 DEF FindConflict, Goto, StepsMatch
<1>5. ASSUME NEW q \in Request, InsertScreening(q) PROVE StepsMatch'
  BY <1>5 DEF InsertScreening, MovieExists, Goto, StepsMatch, ScheduleTypeOK
<1>6. ASSUME NEW q \in Request, InsertRefused(q) PROVE StepsMatch'
  BY <1>6 DEF InsertRefused, Goto, StepsMatch
<1>7. ASSUME NEW q \in Request, SaveMovie(q) PROVE StepsMatch'
  BY <1>7 DEF SaveMovie, Goto, StepsMatch
<1>8. ASSUME NEW q \in Request, SaveSeats(q) PROVE StepsMatch'
  BY <1>8 DEF SaveSeats, Taken, Goto, StepsMatch
<1>9. ASSUME NEW q \in Request, SeatsRefused(q) PROVE StepsMatch'
  BY <1>9 DEF SeatsRefused, Goto, StepsMatch
<1>10. ASSUME NEW q \in Request, SaveTotal(q) PROVE StepsMatch'
  BY <1>10 DEF SaveTotal, Goto, StepsMatch
<1>11. ASSUME NEW q \in Request, DeleteScreening(q) PROVE StepsMatch'
  BY <1>11 DEF DeleteScreening, StepsMatch
<1>12. ASSUME NEW q \in Request, RequestFault(q) PROVE StepsMatch'
  BY <1>12 DEF RequestFault, Goto, StepsMatch
<1>13. ASSUME NEW m \in Movie, DeleteMovie(m) PROVE StepsMatch'
  BY <1>13 DEF DeleteMovie, ScreeningsOf, StepsMatch
<1>14. CASE UNCHANGED vars
  BY <1>14 DEF vars, StepsMatch
<1> QED
  BY <1>1, <1>2, <1>3, <1>4, <1>5, <1>6, <1>7, <1>8, <1>9, <1>10, <1>11, <1>12,
      <1>13, <1>14, ChangedDuration
  DEF Next, Administrator, RequestStep

(* A step keeps the plans of the requests up to date, or marks them.       *)
LEMMA PlansStep ==
    ScheduleTypeOK /\ StepsMatch /\ PlansCurrent /\ [Next]_vars
        => PlansCurrent'
<1> SUFFICES ASSUME ScheduleTypeOK, StepsMatch, PlansCurrent,
                    [Next]_vars
             PROVE  PlansCurrent'
  OBVIOUS
<1> USE ScheduleAssumption DEF Ops, Steps, Busy, AllSeats, AnyDuration,
        movieVars, seatVars, planVars, histVars
<1>1. ASSUME NEW q \in Request, NEW m \in Movie, NEW from \in StartTimes,
             ReadMovie(q, m, from)
      PROVE  PlansCurrent'
  BY <1>1 DEF ReadMovie, Begin, EndTime, PlansCurrent, ScheduleTypeOK
<1>2. ASSUME NEW q \in Request, NEW m \in Movie, NEW d \in AnyDuration,
             ChangeMovie(q, m, d)
      PROVE  PlansCurrent'
  BY <1>2 DEF ChangeMovie, Begin, PlansCurrent, ScheduleTypeOK
<1>3. ASSUME NEW q \in Request, NEW rows \in SUBSET Row, NEW perRow \in 1..MaxPerRow,
             CountSeats(q, rows, perRow)
      PROVE  PlansCurrent'
  BY <1>3 DEF CountSeats, Begin, PlansCurrent
<1>4. ASSUME NEW q \in Request, FindConflict(q) PROVE PlansCurrent'
  BY <1>4 DEF FindConflict, Goto, PlansCurrent
<1>5. ASSUME NEW q \in Request, InsertScreening(q) PROVE PlansCurrent'
  BY <1>5 DEF InsertScreening, MovieExists, Goto, PlansCurrent
<1>6. ASSUME NEW q \in Request, InsertRefused(q) PROVE PlansCurrent'
  BY <1>6 DEF InsertRefused, Goto, PlansCurrent
<1>7. ASSUME NEW q \in Request, SaveMovie(q) PROVE PlansCurrent'
  BY <1>7 DEF SaveMovie, Goto, PlansCurrent
<1>8. ASSUME NEW q \in Request, SaveSeats(q) PROVE PlansCurrent'
  BY <1>8 DEF SaveSeats, Taken, Goto, PlansCurrent
<1>9. ASSUME NEW q \in Request, SeatsRefused(q) PROVE PlansCurrent'
  BY <1>9 DEF SeatsRefused, Goto, PlansCurrent
<1>10. ASSUME NEW q \in Request, SaveTotal(q) PROVE PlansCurrent'
  BY <1>10 DEF SaveTotal, Goto, PlansCurrent
<1>11. ASSUME NEW q \in Request, DeleteScreening(q) PROVE PlansCurrent'
  BY <1>11 DEF DeleteScreening, PlansCurrent
<1>12. ASSUME NEW q \in Request, RequestFault(q) PROVE PlansCurrent'
  BY <1>12 DEF RequestFault, Goto, PlansCurrent
<1>13. ASSUME NEW m \in Movie, DeleteMovie(m) PROVE PlansCurrent'
  BY <1>13 DEF DeleteMovie, ScreeningsOf, PlansCurrent
<1>14. CASE UNCHANGED vars
  BY <1>14 DEF vars, PlansCurrent
<1> QED
  BY <1>1, <1>2, <1>3, <1>4, <1>5, <1>6, <1>7, <1>8, <1>9, <1>10, <1>11, <1>12,
      <1>13, <1>14, ChangedDuration
  DEF Next, Administrator, RequestStep

(* A step moves no screening that a search has seen.                       *)
LEMMA SearchStep ==
    ScheduleTypeOK /\ StepsMatch /\ SearchStands /\ [Next]_vars
        => SearchStands'
<1> SUFFICES ASSUME ScheduleTypeOK, StepsMatch, SearchStands,
                    [Next]_vars
             PROVE  SearchStands'
  OBVIOUS
<1> USE ScheduleAssumption DEF Ops, Steps, Busy, AllSeats, AnyDuration,
        movieVars, seatVars, planVars, histVars
<1>1. ASSUME NEW q \in Request, NEW m \in Movie, NEW from \in StartTimes,
             ReadMovie(q, m, from)
      PROVE  SearchStands'
  BY <1>1 DEF ReadMovie, Begin, EndTime, SearchStands, Conflicts
<1>2. ASSUME NEW q \in Request, NEW m \in Movie, NEW d \in AnyDuration,
             ChangeMovie(q, m, d)
      PROVE  SearchStands'
  BY <1>2 DEF ChangeMovie, Begin, SearchStands, Conflicts
<1>3. ASSUME NEW q \in Request, NEW rows \in SUBSET Row, NEW perRow \in 1..MaxPerRow,
             CountSeats(q, rows, perRow)
      PROVE  SearchStands'
  BY <1>3 DEF CountSeats, Begin, SearchStands, Conflicts
<1>4. ASSUME NEW q \in Request, FindConflict(q) PROVE SearchStands'
  BY <1>4 DEF FindConflict, Goto, SearchStands, StepsMatch, Conflicts,
      ScheduleTypeOK
<1>5. ASSUME NEW q \in Request, InsertScreening(q) PROVE SearchStands'
  BY <1>5 DEF InsertScreening, MovieExists, Goto, SearchStands, Conflicts
<1>6. ASSUME NEW q \in Request, InsertRefused(q) PROVE SearchStands'
  BY <1>6 DEF InsertRefused, Goto, SearchStands, Conflicts
<1>7. ASSUME NEW q \in Request, SaveMovie(q) PROVE SearchStands'
  BY <1>7 DEF SaveMovie, Goto, SearchStands, StepsMatch, Conflicts
<1>8. ASSUME NEW q \in Request, SaveSeats(q) PROVE SearchStands'
  BY <1>8 DEF SaveSeats, Taken, Goto, SearchStands, Conflicts
<1>9. ASSUME NEW q \in Request, SeatsRefused(q) PROVE SearchStands'
  BY <1>9 DEF SeatsRefused, Goto, SearchStands, Conflicts
<1>10. ASSUME NEW q \in Request, SaveTotal(q) PROVE SearchStands'
  BY <1>10 DEF SaveTotal, Goto, SearchStands, StepsMatch, Conflicts
<1>11. ASSUME NEW q \in Request, DeleteScreening(q) PROVE SearchStands'
  BY <1>11 DEF DeleteScreening, SearchStands, Conflicts
<1>12. ASSUME NEW q \in Request, RequestFault(q) PROVE SearchStands'
  BY <1>12 DEF RequestFault, Goto, SearchStands, Conflicts
<1>13. ASSUME NEW m \in Movie, DeleteMovie(m) PROVE SearchStands'
  BY <1>13 DEF DeleteMovie, ScreeningsOf, SearchStands, Conflicts
<1>14. CASE UNCHANGED vars
  BY <1>14 DEF vars, SearchStands, Conflicts
<1> QED
  BY <1>1, <1>2, <1>3, <1>4, <1>5, <1>6, <1>7, <1>8, <1>9, <1>10, <1>11, <1>12,
      <1>13, <1>14, ChangedDuration
  DEF Next, Administrator, RequestStep

(* A step removes a movie with its screenings.                             *)
LEMMA MoviesStep ==
    ScheduleTypeOK /\ StepsMatch /\ ScreeningsHaveMovie /\ [Next]_vars
        => ScreeningsHaveMovie'
<1> SUFFICES ASSUME ScheduleTypeOK, StepsMatch, ScreeningsHaveMovie,
                    [Next]_vars
             PROVE  ScreeningsHaveMovie'
  OBVIOUS
<1> USE ScheduleAssumption DEF Ops, Steps, Busy, AllSeats, AnyDuration,
        movieVars, seatVars, planVars, histVars
<1>1. ASSUME NEW q \in Request, NEW m \in Movie, NEW from \in StartTimes,
             ReadMovie(q, m, from)
      PROVE  ScreeningsHaveMovie'
  BY <1>1 DEF ReadMovie, Begin, EndTime, ScreeningsHaveMovie
<1>2. ASSUME NEW q \in Request, NEW m \in Movie, NEW d \in AnyDuration,
             ChangeMovie(q, m, d)
      PROVE  ScreeningsHaveMovie'
  BY <1>2 DEF ChangeMovie, Begin, ScreeningsHaveMovie
<1>3. ASSUME NEW q \in Request, NEW rows \in SUBSET Row, NEW perRow \in 1..MaxPerRow,
             CountSeats(q, rows, perRow)
      PROVE  ScreeningsHaveMovie'
  BY <1>3 DEF CountSeats, Begin, ScreeningsHaveMovie
<1>4. ASSUME NEW q \in Request, FindConflict(q) PROVE ScreeningsHaveMovie'
  BY <1>4 DEF FindConflict, Goto, ScreeningsHaveMovie
<1>5. ASSUME NEW q \in Request, InsertScreening(q) PROVE ScreeningsHaveMovie'
  BY <1>5 DEF InsertScreening, MovieExists, Goto, ScreeningsHaveMovie
<1>6. ASSUME NEW q \in Request, InsertRefused(q) PROVE ScreeningsHaveMovie'
  BY <1>6 DEF InsertRefused, Goto, ScreeningsHaveMovie
<1>7. ASSUME NEW q \in Request, SaveMovie(q) PROVE ScreeningsHaveMovie'
  BY <1>7 DEF SaveMovie, Goto, ScreeningsHaveMovie
<1>8. ASSUME NEW q \in Request, SaveSeats(q) PROVE ScreeningsHaveMovie'
  BY <1>8 DEF SaveSeats, Taken, Goto, ScreeningsHaveMovie
<1>9. ASSUME NEW q \in Request, SeatsRefused(q) PROVE ScreeningsHaveMovie'
  BY <1>9 DEF SeatsRefused, Goto, ScreeningsHaveMovie
<1>10. ASSUME NEW q \in Request, SaveTotal(q) PROVE ScreeningsHaveMovie'
  BY <1>10 DEF SaveTotal, Goto, ScreeningsHaveMovie
<1>11. ASSUME NEW q \in Request, DeleteScreening(q) PROVE ScreeningsHaveMovie'
  BY <1>11 DEF DeleteScreening, ScreeningsHaveMovie
<1>12. ASSUME NEW q \in Request, RequestFault(q) PROVE ScreeningsHaveMovie'
  BY <1>12 DEF RequestFault, Goto, ScreeningsHaveMovie
<1>13. ASSUME NEW m \in Movie, DeleteMovie(m) PROVE ScreeningsHaveMovie'
  BY <1>13 DEF DeleteMovie, ScreeningsOf, ScreeningsHaveMovie
<1>14. CASE UNCHANGED vars
  BY <1>14 DEF vars, ScreeningsHaveMovie
<1> QED
  BY <1>1, <1>2, <1>3, <1>4, <1>5, <1>6, <1>7, <1>8, <1>9, <1>10, <1>11, <1>12,
      <1>13, <1>14, ChangedDuration
  DEF Next, Administrator, RequestStep

(* A step saves no seat twice.                                             *)
LEMMA SeatsStep ==
    ScheduleTypeOK /\ StepsMatch /\ SeatsGeneratedOnce /\ [Next]_vars
        => SeatsGeneratedOnce'
<1> SUFFICES ASSUME ScheduleTypeOK, StepsMatch, SeatsGeneratedOnce,
                    [Next]_vars
             PROVE  SeatsGeneratedOnce'
  OBVIOUS
<1> USE ScheduleAssumption DEF Ops, Steps, Busy, AllSeats, AnyDuration,
        movieVars, seatVars, planVars, histVars
<1>1. ASSUME NEW q \in Request, NEW m \in Movie, NEW from \in StartTimes,
             ReadMovie(q, m, from)
      PROVE  SeatsGeneratedOnce'
  BY <1>1 DEF ReadMovie, Begin, EndTime, SeatsGeneratedOnce, SeatsSaved
<1>2. ASSUME NEW q \in Request, NEW m \in Movie, NEW d \in AnyDuration,
             ChangeMovie(q, m, d)
      PROVE  SeatsGeneratedOnce'
  BY <1>2 DEF ChangeMovie, Begin, SeatsGeneratedOnce, SeatsSaved
<1>3. ASSUME NEW q \in Request, NEW rows \in SUBSET Row, NEW perRow \in 1..MaxPerRow,
             CountSeats(q, rows, perRow)
      PROVE  SeatsGeneratedOnce'
  BY <1>3 DEF CountSeats, Begin, SeatsGeneratedOnce, SeatsSaved
<1>4. ASSUME NEW q \in Request, FindConflict(q) PROVE SeatsGeneratedOnce'
  BY <1>4 DEF FindConflict, Goto, SeatsGeneratedOnce, SeatsSaved
<1>5. ASSUME NEW q \in Request, InsertScreening(q) PROVE SeatsGeneratedOnce'
  BY <1>5 DEF InsertScreening, MovieExists, Goto, SeatsGeneratedOnce,
      SeatsSaved, StepsMatch
<1>6. ASSUME NEW q \in Request, InsertRefused(q) PROVE SeatsGeneratedOnce'
  BY <1>6 DEF InsertRefused, Goto, SeatsGeneratedOnce, SeatsSaved
<1>7. ASSUME NEW q \in Request, SaveMovie(q) PROVE SeatsGeneratedOnce'
  BY <1>7 DEF SaveMovie, Goto, SeatsGeneratedOnce, SeatsSaved, StepsMatch
<1>8. ASSUME NEW q \in Request, SaveSeats(q) PROVE SeatsGeneratedOnce'
  BY <1>8 DEF SaveSeats, Taken, Goto, SeatsGeneratedOnce, SeatsSaved
<1>9. ASSUME NEW q \in Request, SeatsRefused(q) PROVE SeatsGeneratedOnce'
  BY <1>9 DEF SeatsRefused, Goto, SeatsGeneratedOnce, SeatsSaved
<1>10. ASSUME NEW q \in Request, SaveTotal(q) PROVE SeatsGeneratedOnce'
  BY <1>10 DEF SaveTotal, Goto, SeatsGeneratedOnce, SeatsSaved
<1>11. ASSUME NEW q \in Request, DeleteScreening(q) PROVE SeatsGeneratedOnce'
  BY <1>11 DEF DeleteScreening, SeatsGeneratedOnce, SeatsSaved
<1>12. ASSUME NEW q \in Request, RequestFault(q) PROVE SeatsGeneratedOnce'
  BY <1>12 DEF RequestFault, Goto, SeatsGeneratedOnce, SeatsSaved
<1>13. ASSUME NEW m \in Movie, DeleteMovie(m) PROVE SeatsGeneratedOnce'
  BY <1>13 DEF DeleteMovie, ScreeningsOf, SeatsGeneratedOnce, SeatsSaved
<1>14. CASE UNCHANGED vars
  BY <1>14 DEF vars, SeatsGeneratedOnce, SeatsSaved
<1> QED
  BY <1>1, <1>2, <1>3, <1>4, <1>5, <1>6, <1>7, <1>8, <1>9, <1>10, <1>11, <1>12,
      <1>13, <1>14, ChangedDuration
  DEF Next, Administrator, RequestStep

(* A step claims no more seats than are saved.                             *)
LEMMA TotalStep ==
    ScheduleTypeOK /\ StepsMatch /\ SeatsGeneratedOnce /\ TotalNeverOverstated
    /\ [Next]_vars
        => TotalNeverOverstated'
<1> SUFFICES ASSUME ScheduleTypeOK, StepsMatch, SeatsGeneratedOnce,
                    TotalNeverOverstated, [Next]_vars
             PROVE  TotalNeverOverstated'
  OBVIOUS
<1> USE ScheduleAssumption DEF Ops, Steps, Busy, AllSeats, AnyDuration,
        movieVars, seatVars, planVars, histVars
<1>1. ASSUME NEW q \in Request, NEW m \in Movie, NEW from \in StartTimes,
             ReadMovie(q, m, from)
      PROVE  TotalNeverOverstated'
  BY <1>1 DEF ReadMovie, Begin, EndTime, TotalNeverOverstated
<1>2. ASSUME NEW q \in Request, NEW m \in Movie, NEW d \in AnyDuration,
             ChangeMovie(q, m, d)
      PROVE  TotalNeverOverstated'
  BY <1>2 DEF ChangeMovie, Begin, TotalNeverOverstated
<1>3. ASSUME NEW q \in Request, NEW rows \in SUBSET Row, NEW perRow \in 1..MaxPerRow,
             CountSeats(q, rows, perRow)
      PROVE  TotalNeverOverstated'
  BY <1>3 DEF CountSeats, Begin, TotalNeverOverstated
<1>4. ASSUME NEW q \in Request, FindConflict(q) PROVE TotalNeverOverstated'
  BY <1>4 DEF FindConflict, Goto, TotalNeverOverstated
<1>5. ASSUME NEW q \in Request, InsertScreening(q) PROVE TotalNeverOverstated'
  BY <1>5 DEF InsertScreening, MovieExists, Goto, TotalNeverOverstated
<1>6. ASSUME NEW q \in Request, InsertRefused(q) PROVE TotalNeverOverstated'
  BY <1>6 DEF InsertRefused, Goto, TotalNeverOverstated
<1>7. ASSUME NEW q \in Request, SaveMovie(q) PROVE TotalNeverOverstated'
  BY <1>7 DEF SaveMovie, Goto, TotalNeverOverstated
<1>8. ASSUME NEW q \in Request, SaveSeats(q) PROVE TotalNeverOverstated'
  <2>1. totalSeats' = totalSeats /\ seats' = seats \cup batch[q]
    BY <1>8 DEF SaveSeats
  <2>2. seats' \in SUBSET AllSeats
    BY <2>1 DEF ScheduleTypeOK
  <2>3. /\ Cardinality(seats) <= Cardinality(seats')
        /\ Cardinality(seats) \in Nat /\ Cardinality(seats') \in Nat
    BY <2>1, <2>2, SeatsFinite, FS_Subset DEF ScheduleTypeOK
  <2> QED
    BY <2>1, <2>3 DEF TotalNeverOverstated, ScheduleTypeOK
<1>9. ASSUME NEW q \in Request, SeatsRefused(q) PROVE TotalNeverOverstated'
  BY <1>9 DEF SeatsRefused, Goto, TotalNeverOverstated
<1>10. ASSUME NEW q \in Request, SaveTotal(q) PROVE TotalNeverOverstated'
  <2>1. batch[q] \subseteq seats
    BY <1>10 DEF SaveTotal, SeatsGeneratedOnce, SeatsSaved, StepsMatch
  <2>2. Cardinality(batch[q]) <= Cardinality(seats)
    BY <2>1, SeatsFinite, FS_Subset DEF ScheduleTypeOK
  <2> QED
    BY <1>10, <2>2 DEF SaveTotal, TotalNeverOverstated
<1>11. ASSUME NEW q \in Request, DeleteScreening(q) PROVE TotalNeverOverstated'
  BY <1>11 DEF DeleteScreening, TotalNeverOverstated
<1>12. ASSUME NEW q \in Request, RequestFault(q) PROVE TotalNeverOverstated'
  BY <1>12 DEF RequestFault, Goto, TotalNeverOverstated
<1>13. ASSUME NEW m \in Movie, DeleteMovie(m) PROVE TotalNeverOverstated'
  BY <1>13 DEF DeleteMovie, ScreeningsOf, TotalNeverOverstated
<1>14. CASE UNCHANGED vars
  BY <1>14 DEF vars, TotalNeverOverstated
<1> QED
  BY <1>1, <1>2, <1>3, <1>4, <1>5, <1>6, <1>7, <1>8, <1>9, <1>10, <1>11, <1>12,
      <1>13, <1>14, ChangedDuration
  DEF Next, Administrator, RequestStep

----------------------------------------------------------------------------
(* The inductive invariant: the properties and what their steps need.      *)
ScheduleInv ==
    /\ ScheduleTypeOK /\ StepsMatch
    /\ PlansCurrent /\ SearchStands /\ ScreeningsHaveMovie
    /\ SeatsGeneratedOnce /\ TotalNeverOverstated

(* It holds of a hall without seats and screenings.                        *)
LEMMA ScheduleInit == Init => ScheduleInv
<1> SUFFICES ASSUME Init PROVE ScheduleInv
  OBVIOUS
<1> USE ScheduleAssumption DEF Init
<1>1. ScheduleTypeOK
  <2>1. duration \in [Movie -> AnyDuration]
    BY DEF AnyDuration
  <2>2. length \in [Request -> Int] /\ end \in [Request -> Int]
    OBVIOUS
  <2> QED
    BY <2>1, <2>2 DEF ScheduleTypeOK, Ops, Steps
<1>2. StepsMatch /\ PlansCurrent /\ SearchStands
  BY DEF StepsMatch, PlansCurrent, SearchStands
<1>3. ScreeningsHaveMovie /\ SeatsGeneratedOnce
  BY DEF ScreeningsHaveMovie, SeatsGeneratedOnce, SeatsSaved
<1>4. TotalNeverOverstated
  BY SeatsFinite DEF TotalNeverOverstated
<1> QED
  BY <1>1, <1>2, <1>3, <1>4 DEF ScheduleInv

(* Every reachable state satisfies the inductive invariant.                *)
LEMMA ScheduleInvariant == Spec => []ScheduleInv
<1>1. ScheduleInv /\ [Next]_vars => ScheduleInv'
  BY ScheduleTypeStep, StepsMatchStep, PlansStep, SearchStep, MoviesStep, SeatsStep,
     TotalStep
  DEF ScheduleInv
<1> QED
  BY ScheduleInit, <1>1, PTL DEF Spec

(* Screenings that the search kept apart stay apart, as long as the movie  *)
(* of the earlier one lasts as long as it did.                             *)
LEMMA FoundApart ==
    ScheduleTypeOK /\ StepsMatch /\ PlansCurrent /\ SearchStands => ScreeningsApart
<1> SUFFICES ASSUME ScheduleTypeOK, StepsMatch, PlansCurrent, SearchStands,
                    NEW p \in screenings, NEW q \in screenings,
                    InSequence(p, q), p \notin outdated, TakesTime(q)
             PROVE  start[q] >= start[p] + duration[movie[p]] + Buffer
  BY DEF ScreeningsApart
<1>1. /\ p \in Request /\ q \in Request
      /\ start[p] \in Nat /\ start[q] \in Nat
      /\ end[p] \in Int /\ end[q] \in Int
  BY DEF ScheduleTypeOK
<1>2. \A r \in {p, q} : op[r] = "schedule" /\ step[r] = "done"
  BY <1>1 DEF StepsMatch
<1>3. ~Conflicts(p, q)
  BY <1>1, <1>2 DEF SearchStands, InSequence, Conflicts
<1>4. end[p] = start[p] + duration[movie[p]] + Buffer
  BY <1>1, <1>2 DEF PlansCurrent, EndTime
<1>5. start[p] < end[q]
  BY <1>1 DEF InSequence, TakesTime
<1> QED
  BY <1>1, <1>3, <1>4, <1>5 DEF Conflicts

----------------------------------------------------------------------------
(* Every variable stays within the values the code gives it.               *)
THEOREM ScheduleTypeCorrect == Spec => []ScheduleTypeOK
<1>1. ScheduleInv => ScheduleTypeOK
  BY DEF ScheduleInv
<1> QED
  BY ScheduleInvariant, <1>1, PTL

(* Screenings of one hall do not overlap, unless they were scheduled at    *)
(* the same time, the movie's duration was changed afterwards or a         *)
(* negative duration makes the later one end before it starts              *)
(* (ShowtimesService.createShowtime).                                      *)
THEOREM ScreeningsStayApart == Spec => []ScreeningsApart
<1>1. ScheduleInv => ScreeningsApart
  BY FoundApart DEF ScheduleInv
<1> QED
  BY ScheduleInvariant, <1>1, PTL

(* No screening is without its movie, however a removal and a scheduling   *)
(* overlap (Showtime.movie's foreign key and its cascade).                 *)
THEOREM ScreeningsKeepMovie == Spec => []ScreeningsHaveMovie
<1>1. ScheduleInv => ScreeningsHaveMovie
  BY DEF ScheduleInv
<1> QED
  BY ScheduleInvariant, <1>1, PTL

(* No seat is generated twice by requests that found the hall empty        *)
(* (CinemasService.generateSeats and the unique index of seats).           *)
THEOREM SeatsAreGeneratedOnce == Spec => []SeatsGeneratedOnce
<1>1. ScheduleInv => SeatsGeneratedOnce
  BY DEF ScheduleInv
<1> QED
  BY ScheduleInvariant, <1>1, PTL

(* A hall claims no seats it does not have, though the total is written    *)
(* after the transaction (CinemasService.generateSeats).                   *)
THEOREM TotalIsNeverOverstated == Spec => []TotalNeverOverstated
<1>1. ScheduleInv => TotalNeverOverstated
  BY DEF ScheduleInv
<1> QED
  BY ScheduleInvariant, <1>1, PTL

(* A movie that is gone, and that no change in progress has read, stays so: *)
(* one step per action.                                                    *)
LEMMA MovieGoneStep ==
    ASSUME ScheduleTypeOK, [Next]_vars, NEW k \in Movie, MovieGone(k)
    PROVE  MovieGone(k)'
<1> USE DEF movieVars, seatVars, planVars, histVars, MovieGone
<1>1. ASSUME NEW q \in Request, NEW m \in Movie, NEW from \in StartTimes,
             ReadMovie(q, m, from)
      PROVE  MovieGone(k)'
  BY <1>1 DEF ReadMovie, Begin, ScheduleTypeOK
<1>2. ASSUME NEW q \in Request, NEW m \in Movie, NEW d \in AnyDuration, ChangeMovie(q, m, d)
      PROVE  MovieGone(k)'
  BY <1>2 DEF ChangeMovie, Begin, ScheduleTypeOK
<1>3. ASSUME NEW q \in Request, NEW rows \in SUBSET Row, NEW perRow \in 1..MaxPerRow,
             CountSeats(q, rows, perRow)
      PROVE  MovieGone(k)'
  BY <1>3 DEF CountSeats, Begin, ScheduleTypeOK
<1>4. ASSUME NEW q \in Request, SaveMovie(q) PROVE MovieGone(k)'
  BY <1>4 DEF SaveMovie, Goto, ScheduleTypeOK
<1>5. ASSUME NEW q \in Request,
             \/ FindConflict(q) \/ InsertScreening(q) \/ InsertRefused(q)
             \/ SaveSeats(q) \/ SeatsRefused(q) \/ SaveTotal(q) \/ RequestFault(q)
      PROVE  MovieGone(k)'
  <2>1. /\ UNCHANGED <<movies, movie>>
        /\ \E s \in Steps \ {"save_movie"} : Goto(q, s)
    BY <1>5 DEF FindConflict, InsertScreening, InsertRefused, SaveSeats, SeatsRefused,
                SaveTotal, RequestFault, Steps
  <2> QED
    BY <2>1 DEF Goto, ScheduleTypeOK
<1>6. ASSUME NEW q \in Request, DeleteScreening(q) PROVE MovieGone(k)'
  BY <1>6 DEF DeleteScreening
<1>7. ASSUME NEW m \in Movie, DeleteMovie(m) PROVE MovieGone(k)'
  BY <1>7 DEF DeleteMovie
<1>8. CASE UNCHANGED vars
  BY <1>8 DEF vars
<1> QED
  BY <1>1, <1>2, <1>3, <1>4, <1>5, <1>6, <1>7, <1>8, ChangedDuration
  DEF Next, Administrator, RequestStep

(* A removed movie comes back only with a change that had read it before.  *)
THEOREM RemovedMoviesStay == Spec => RemovedMovieStays
<1>1. ScheduleTypeOK /\ [Next]_vars => [\A m \in Movie : MovieGone(m) => MovieGone(m)']_vars
  BY MovieGoneStep
<1> QED
  BY <1>1, ScheduleTypeCorrect, PTL DEF Spec, RemovedMovieStays
=============================================================================
