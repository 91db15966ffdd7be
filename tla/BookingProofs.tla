---------------------------- MODULE BookingProofs ----------------------------
(***************************************************************************)
(* The safety of the booking flow, for any number of reservations, seats   *)
(* and requests, any times to live and any number of faults and restarts.  *)
(*                                                                         *)
(* Each invariant has a lemma that a step preserves it, with one proof     *)
(* step per action that disturbs what the invariant reads.  In most of     *)
(* these lemmas Still says that a step leaves it all unchanged, Listed     *)
(* names the actions that do not, and the last steps show that a step is   *)
(* one or the other.                                                       *)
(***************************************************************************)
EXTENDS BookingProperties, FiniteSetTheorems, TLAPS

(* A release keeps the types of the variables it writes.                   *)
LEMMA ReleaseTypes ==
    ASSUME TypeOK, NEW r \in Reservation, NEW S \in SUBSET Seat, ReleaseLocks(r, S)
    PROVE  /\ owner' \in [Seat -> Reservation \cup {None}]
           /\ ttl' \in [Seat -> 0..LockTtl]
           /\ heldFor' \in [Reservation -> 0..LockTtl]
           /\ released' \subseteq Reservation
           /\ missed' \in [Reservation -> SUBSET Seat]
           /\ windows' \subseteq Hazards
<1>1. ReleaseWindows(r, S) \subseteq Hazards
  BY DEF ReleaseWindows, Hazards
<1>2. ttl' \in [Seat -> 0..LockTtl]
  BY TtlAssumption DEF ReleaseLocks, TypeOK
<1> QED
  BY <1>1, <1>2 DEF ReleaseLocks, TypeOK

(* What a sale adds to missed are seats.                                   *)
LEMMA MissedSaleType ==
    ASSUME TypeOK, NEW r \in Reservation
    PROVE  [q \in Reservation |-> missed[q] \cup MissedSale(r, q)]
               \in [Reservation -> SUBSET Seat]
  BY DEF MissedSale, TypeOK

(* The hazards a sale brings about are among the four.                     *)
LEMMA SaleWindowsType == ASSUME NEW r PROVE SaleWindows(r) \subseteq Hazards
  BY DEF SaleWindows, Hazards

(* A deadline that comes closer stays within its bound.                    *)
LEMMA LessType == ASSUME NEW m \in Nat, NEW n \in 0..m PROVE Less(n) \in 0..m
  BY DEF Less

(* A step keeps every variable to its type.                                *)
LEMMA TypeOKStep == TypeOK /\ [Next]_vars => TypeOK'
<1> SUFFICES ASSUME TypeOK, [Next]_vars PROVE TypeOK'
  OBVIOUS
<1> USE TtlAssumption, NoneAssumption, BoundAssumption
    DEF Statuses, PaymentStatuses, MsgSteps, TaskSteps, HoldSteps, Hazards,
        lockVars, holdVars, rowVars, payVars, dbVars, brokerVars, taskVars,
        envVars, histVars
<1>1. ASSUME NEW r \in Reservation, NEW S \in SUBSET Seat, NEW c \in Coupons, HoldCheck(r, S, c)
      PROVE  TypeOK'
  BY <1>1 DEF HoldCheck, Sold, TypeOK
<1>2. ASSUME NEW r \in Reservation, HoldPrice(r)
      PROVE  TypeOK'
  BY <1>2 DEF HoldPrice, HoldGoto, TypeOK
<1>3. ASSUME NEW r \in Reservation, NEW s \in Seat, AcquireSeat(r, s)
      PROVE  TypeOK'
  BY <1>3 DEF AcquireSeat, Free, Lock, Sold, TypeOK
<1>4. ASSUME NEW r \in Reservation, NEW s \in Seat, ConflictSeat(r, s)
      PROVE  TypeOK'
  BY <1>4 DEF ConflictSeat, HoldGoto, TypeOK
<1>5. ASSUME NEW r \in Reservation, NEW s \in Seat, AcquireRetried(r, s)
      PROVE  TypeOK'
  BY <1>5 DEF AcquireRetried, Free, Lock, HoldGoto, Fault, TypeOK
<1>6. ASSUME NEW r \in Reservation, Rollback(r)
      PROVE  TypeOK'
  <2>1. r \in Reservation /\ got[r] \in SUBSET Seat
    BY <1>6 DEF Rollback, SeatsOf, TypeOK
  <2>2. ReleaseLocks(r, got[r])
    BY <1>6 DEF Rollback
  <2> HIDE DEF Hazards
  <2> QED
    BY <1>6, <2>1, <2>2, ReleaseTypes
    DEF Rollback, HoldGoto, TypeOK
<1>7. ASSUME NEW r \in Reservation, StartSave(r)
      PROVE  TypeOK'
  BY <1>7 DEF StartSave, HoldGoto, PaymentWindow, TypeOK
<1>8. ASSUME NEW r \in Reservation, SaveHold(r)
      PROVE  TypeOK'
  BY <1>8 DEF SaveHold, HoldGoto, TypeOK
<1>9. ASSUME NEW r \in Reservation, SendDelay(r)
      PROVE  TypeOK'
  BY <1>9 DEF SendDelay, HoldGoto, TypeOK
<1>10. ASSUME NEW r \in Reservation, SendThrows(r)
      PROVE  TypeOK'
  BY <1>10 DEF SendThrows, HoldGoto, TypeOK
<1>11. ASSUME NEW r \in Reservation, Undo(r)
      PROVE  TypeOK'
  <2>1. r \in Reservation /\ want[r] \in SUBSET Seat
    BY <1>11 DEF Undo, SeatsOf, TypeOK
  <2>2. ReleaseLocks(r, want[r])
    BY <1>11 DEF Undo
  <2> HIDE DEF Hazards
  <2> QED
    BY <1>11, <2>1, <2>2, ReleaseTypes
    DEF Undo, HoldGoto, TypeOK
<1>12. ASSUME NEW r \in Reservation, HoldFault(r)
      PROVE  TypeOK'
  BY <1>12 DEF HoldFault, HoldGoto, Fault, TypeOK
<1>13. ASSUME NEW h \in Handler, NEW r \in Reservation, CheckoutStart(h, r)
      PROVE  TypeOK'
  BY <1>13 DEF CheckoutStart, Start, Payable, TypeOK
<1>14. ASSUME NEW h \in Handler, CheckoutCommit(h)
      PROVE  TypeOK'
  <2>1. target[h] \in Reservation
    BY <1>14 DEF CheckoutCommit, TypeOK
  <2>2. SaleWindows(target[h]) \subseteq Hazards
    BY SaleWindowsType
  <2>3. usedCount' \in Nat
    BY <1>14 DEF CheckoutCommit, Confirm, CountUse, TypeOK
  <2>4. missed' \in [Reservation -> SUBSET Seat]
    BY <1>14, <2>1, MissedSaleType DEF CheckoutCommit, Confirm
  <2> HIDE DEF Hazards
  <2> QED
    BY <1>14, <2>1, <2>2, <2>3, <2>4 DEF CheckoutCommit, Confirm, Goto, TypeOK
<1>15. ASSUME NEW h \in Handler, InsertDuplicate(h)
      PROVE  TypeOK'
  BY <1>15 DEF InsertDuplicate, Goto, TypeOK
<1>16. ASSUME NEW h \in Handler, NEW r \in Reservation, NEW b \in BOOLEAN, IpnStart(h, r, b)
      PROVE  TypeOK'
  BY <1>16 DEF IpnStart, Start, TypeOK
<1>17. ASSUME NEW h \in Handler, IpnSettle(h)
      PROVE  TypeOK'
  <2>1. target[h] \in Reservation
    BY <1>17 DEF IpnSettle, TypeOK
  <2>2. SaleWindows(target[h]) \subseteq Hazards
    BY SaleWindowsType
  <2>3. usedCount' \in Nat
    BY <1>17 DEF IpnSettle, Confirm, CountUse, TypeOK
  <2>4. missed' \in [Reservation -> SUBSET Seat]
    BY <1>17, <2>1, MissedSaleType DEF IpnSettle, Confirm
  <2> HIDE DEF Hazards
  <2> QED
    BY <1>17, <2>1, <2>2, <2>3, <2>4 DEF IpnSettle, Confirm, Goto, TypeOK
<1>18. ASSUME NEW h \in Handler, IpnDecline(h)
      PROVE  TypeOK'
  BY <1>18 DEF IpnDecline, Goto, TypeOK
<1>19. ASSUME NEW h \in Handler, NEW r \in Reservation, UrlStart(h, r)
      PROVE  TypeOK'
  BY <1>19 DEF UrlStart, Start, Payable, TypeOK
<1>20. ASSUME NEW h \in Handler, UrlFind(h)
      PROVE  TypeOK'
  BY <1>20 DEF UrlFind, Goto, TypeOK
<1>21. ASSUME NEW h \in Handler, UrlSave(h)
      PROVE  TypeOK'
  BY <1>21 DEF UrlSave, Goto, TypeOK
<1>22. ASSUME NEW h \in Handler, ReleasePaid(h)
      PROVE  TypeOK'
  <2>1. target[h] \in Reservation /\ SeatsOf(target[h]) \in SUBSET Seat
    BY <1>22 DEF ReleasePaid, SeatsOf, TypeOK
  <2>2. ReleaseLocks(target[h], SeatsOf(target[h]))
    BY <1>22 DEF ReleasePaid
  <2> HIDE DEF Hazards
  <2> QED
    BY <1>22, <2>1, <2>2, ReleaseTypes
    DEF ReleasePaid, Goto, TypeOK
<1>23. ASSUME NEW h \in Handler, PublishTickets(h)
      PROVE  TypeOK'
  BY <1>23 DEF PublishTickets, Goto, TypeOK
<1>24. ASSUME NEW h \in Handler, NEW r \in Reservation, CancelStart(h, r)
      PROVE  TypeOK'
  BY <1>24 DEF CancelStart, Start, TypeOK
<1>25. ASSUME NEW h \in Handler, CancelSave(h)
      PROVE  TypeOK'
  BY <1>25 DEF CancelSave, Goto, TypeOK
<1>26. ASSUME NEW h \in Handler, ReleaseCancelled(h)
      PROVE  TypeOK'
  <2>1. target[h] \in Reservation /\ SeatsOf(target[h]) \in SUBSET Seat
    BY <1>26 DEF ReleaseCancelled, SeatsOf, TypeOK
  <2>2. ReleaseLocks(target[h], SeatsOf(target[h]))
    BY <1>26 DEF ReleaseCancelled
  <2> HIDE DEF Hazards
  <2> QED
    BY <1>26, <2>1, <2>2, ReleaseTypes
    DEF ReleaseCancelled, Goto, TypeOK
<1>27. ASSUME NEW r \in Reservation, DeadLetter(r)
      PROVE  TypeOK'
  BY <1>27 DEF DeadLetter, MsgGoto, TypeOK
<1>28. ASSUME NEW r \in Reservation, ExpireRead(r)
      PROVE  TypeOK'
  BY <1>28 DEF ExpireRead, MsgGoto, TypeOK
<1>29. ASSUME NEW r \in Reservation, ExpireSave(r)
      PROVE  TypeOK'
  BY <1>29 DEF ExpireSave, MsgGoto, TypeOK
<1>30. ASSUME NEW r \in Reservation, ExpireRelease(r)
      PROVE  TypeOK'
  <2>1. r \in Reservation /\ SeatsOf(r) \in SUBSET Seat
    BY <1>30 DEF ExpireRelease, SeatsOf, TypeOK
  <2>2. ReleaseLocks(r, SeatsOf(r))
    BY <1>30 DEF ExpireRelease
  <2> HIDE DEF Hazards
  <2> QED
    BY <1>30, <2>1, <2>2, ReleaseTypes
    DEF ExpireRelease, MsgGoto, TypeOK
<1>31. ASSUME NEW h \in Handler, TaskFault(h)
      PROVE  TypeOK'
  BY <1>31 DEF TaskFault, Goto, Fault, TypeOK
<1>32. ASSUME NEW r \in Reservation, ExpireFault(r)
      PROVE  TypeOK'
  BY <1>32 DEF ExpireFault, MsgGoto, Fault, TypeOK
<1>33. ASSUME BrokerCloses
      PROVE  TypeOK'
  BY <1>33 DEF BrokerCloses, Unsent, Fault, TypeOK
<1>34. ASSUME Crash
      PROVE  TypeOK'
  BY <1>34 DEF Crash, AfterRestart, Unsent, TypeOK
<1>35. ASSUME Tick
      PROVE  TypeOK'
  <2>1. \A m \in Nat : \A n \in 0..m : Less(n) \in 0..m
    BY LessType
  <2>2. owner' \in [Seat -> Reservation \cup {None}] /\ ttl' \in [Seat -> 0..LockTtl]
    BY <1>35, <2>1 DEF Tick, TypeOK
  <2>3. window' \in [Reservation -> 0..LockTtl] /\ heldFor' \in [Reservation -> 0..LockTtl]
    BY <1>35, <2>1 DEF Tick, TypeOK
  <2>4. delayLeft' \in [Reservation -> 0..DelayTtl] /\ untilShow' \in 0..ShowIn
    BY <1>35, <2>1 DEF Tick, TypeOK
  <2> QED
    BY <1>35, <2>2, <2>3, <2>4 DEF Tick, TypeOK
<1>36. ASSUME NEW r \in Reservation, Enqueue(r)
      PROVE  TypeOK'
  BY <1>36 DEF Enqueue, MessageTtl, TypeOK
<1>37. CASE UNCHANGED vars
  BY <1>37 DEF vars, TypeOK
<1> QED
  BY <1>1, <1>2, <1>3, <1>4, <1>5, <1>6, <1>7, <1>8, <1>9, <1>10, <1>11, <1>12,
     <1>13, <1>14, <1>15, <1>16, <1>17, <1>18, <1>19, <1>20, <1>21, <1>22, <1>23,
     <1>24, <1>25, <1>26, <1>27, <1>28, <1>29, <1>30, <1>31, <1>32, <1>33, <1>34,
     <1>35, <1>36, <1>37
     DEF Next, Request, HoldStep, BrokerStep, ConsumerStep, TaskStep, Failure

(* A step keeps the requests, the rows and the messages in step with each  *)
(* other.                                                                  *)
LEMMA StepsAgreeStep == TypeOK /\ StepsAgree /\ [Next]_vars => StepsAgree'
<1> SUFFICES ASSUME TypeOK, StepsAgree, [Next]_vars PROVE StepsAgree'
  OBVIOUS
<1> USE TtlAssumption, NoneAssumption, BoundAssumption
    DEF Statuses, PaymentStatuses, MsgSteps, TaskSteps, HoldSteps, lockVars,
        holdVars, rowVars, payVars, dbVars, brokerVars, taskVars, envVars, histVars
<1>1. ASSUME NEW r \in Reservation, NEW S \in SUBSET Seat, NEW c \in Coupons, HoldCheck(r, S, c)
      PROVE  StepsAgree'
  BY <1>1 DEF HoldCheck, Sold, TypeOK, StepsAgree
<1>2. ASSUME NEW r \in Reservation, HoldPrice(r)
      PROVE  StepsAgree'
  BY <1>2 DEF HoldPrice, HoldGoto, TypeOK, StepsAgree
<1>3. ASSUME NEW r \in Reservation, NEW s \in Seat, AcquireSeat(r, s)
      PROVE  StepsAgree'
  BY <1>3 DEF AcquireSeat, Free, Lock, Sold, TypeOK, StepsAgree
<1>4. ASSUME NEW r \in Reservation, NEW s \in Seat, ConflictSeat(r, s)
      PROVE  StepsAgree'
  BY <1>4 DEF ConflictSeat, HoldGoto, TypeOK, StepsAgree
<1>5. ASSUME NEW r \in Reservation, NEW s \in Seat, AcquireRetried(r, s)
      PROVE  StepsAgree'
  BY <1>5 DEF AcquireRetried, Free, Lock, HoldGoto, Fault, TypeOK, StepsAgree
<1>6. ASSUME NEW r \in Reservation, Rollback(r)
      PROVE  StepsAgree'
  BY <1>6
     DEF Rollback, HoldGoto, ReleaseLocks, ReleaseWindows, Foreign, TypeOK,
         StepsAgree
<1>7. ASSUME NEW r \in Reservation, StartSave(r)
      PROVE  StepsAgree'
  BY <1>7 DEF StartSave, HoldGoto, PaymentWindow, TypeOK, StepsAgree
<1>8. ASSUME NEW r \in Reservation, SaveHold(r)
      PROVE  StepsAgree'
  BY <1>8 DEF SaveHold, HoldGoto, TypeOK, StepsAgree
<1>9. ASSUME NEW r \in Reservation, SendDelay(r)
      PROVE  StepsAgree'
  BY <1>9 DEF SendDelay, HoldGoto, TypeOK, StepsAgree
<1>10. ASSUME NEW r \in Reservation, SendThrows(r)
      PROVE  StepsAgree'
  BY <1>10 DEF SendThrows, HoldGoto, TypeOK, StepsAgree
<1>11. ASSUME NEW r \in Reservation, Undo(r)
      PROVE  StepsAgree'
  BY <1>11
     DEF Undo, HoldGoto, ReleaseLocks, ReleaseWindows, Foreign, TypeOK, StepsAgree
<1>12. ASSUME NEW r \in Reservation, HoldFault(r)
      PROVE  StepsAgree'
  BY <1>12 DEF HoldFault, HoldGoto, Fault, TypeOK, StepsAgree
<1>13. ASSUME NEW h \in Handler, NEW r \in Reservation, CheckoutStart(h, r)
      PROVE  StepsAgree'
  BY <1>13 DEF CheckoutStart, Start, Payable, TypeOK, StepsAgree
<1>14. ASSUME NEW h \in Handler, CheckoutCommit(h)
      PROVE  StepsAgree'
  BY <1>14
     DEF CheckoutCommit, Confirm, CountUse, SaleWindows, MissedSale, Goto, TypeOK,
         StepsAgree
<1>15. ASSUME NEW h \in Handler, InsertDuplicate(h)
      PROVE  StepsAgree'
  BY <1>15 DEF InsertDuplicate, Goto, TypeOK, StepsAgree
<1>16. ASSUME NEW h \in Handler, NEW r \in Reservation, NEW b \in BOOLEAN, IpnStart(h, r, b)
      PROVE  StepsAgree'
  BY <1>16 DEF IpnStart, Start, TypeOK, StepsAgree
<1>17. ASSUME NEW h \in Handler, IpnSettle(h)
      PROVE  StepsAgree'
  BY <1>17
     DEF IpnSettle, Confirm, CountUse, SaleWindows, MissedSale, Goto, TypeOK,
         StepsAgree
<1>18. ASSUME NEW h \in Handler, IpnDecline(h)
      PROVE  StepsAgree'
  BY <1>18 DEF IpnDecline, Goto, TypeOK, StepsAgree
<1>19. ASSUME NEW h \in Handler, NEW r \in Reservation, UrlStart(h, r)
      PROVE  StepsAgree'
  BY <1>19 DEF UrlStart, Start, Payable, TypeOK, StepsAgree
<1>20. ASSUME NEW h \in Handler, UrlFind(h)
      PROVE  StepsAgree'
  BY <1>20 DEF UrlFind, Goto, TypeOK, StepsAgree
<1>21. ASSUME NEW h \in Handler, UrlSave(h)
      PROVE  StepsAgree'
  BY <1>21 DEF UrlSave, Goto, TypeOK, StepsAgree
<1>22. ASSUME NEW h \in Handler, ReleasePaid(h)
      PROVE  StepsAgree'
  BY <1>22
     DEF ReleasePaid, Goto, ReleaseLocks, ReleaseWindows, Foreign, SeatsOf, TypeOK,
         StepsAgree
<1>23. ASSUME NEW h \in Handler, PublishTickets(h)
      PROVE  StepsAgree'
  BY <1>23 DEF PublishTickets, Goto, TypeOK, StepsAgree
<1>24. ASSUME NEW h \in Handler, NEW r \in Reservation, CancelStart(h, r)
      PROVE  StepsAgree'
  BY <1>24 DEF CancelStart, Start, TypeOK, StepsAgree
<1>25. ASSUME NEW h \in Handler, CancelSave(h)
      PROVE  StepsAgree'
  BY <1>25 DEF CancelSave, Goto, TypeOK, StepsAgree
<1>26. ASSUME NEW h \in Handler, ReleaseCancelled(h)
      PROVE  StepsAgree'
  BY <1>26
     DEF ReleaseCancelled, Goto, ReleaseLocks, ReleaseWindows, Foreign, SeatsOf,
         TypeOK, StepsAgree
<1>27. ASSUME NEW r \in Reservation, DeadLetter(r)
      PROVE  StepsAgree'
  BY <1>27 DEF DeadLetter, MsgGoto, TypeOK, StepsAgree
<1>28. ASSUME NEW r \in Reservation, ExpireRead(r)
      PROVE  StepsAgree'
  BY <1>28 DEF ExpireRead, MsgGoto, TypeOK, StepsAgree
<1>29. ASSUME NEW r \in Reservation, ExpireSave(r)
      PROVE  StepsAgree'
  BY <1>29 DEF ExpireSave, MsgGoto, TypeOK, StepsAgree
<1>30. ASSUME NEW r \in Reservation, ExpireRelease(r)
      PROVE  StepsAgree'
  BY <1>30
     DEF ExpireRelease, MsgGoto, ReleaseLocks, ReleaseWindows, Foreign, SeatsOf,
         TypeOK, StepsAgree
<1>31. ASSUME NEW h \in Handler, TaskFault(h)
      PROVE  StepsAgree'
  BY <1>31 DEF TaskFault, Goto, Fault, TypeOK, StepsAgree
<1>32. ASSUME NEW r \in Reservation, ExpireFault(r)
      PROVE  StepsAgree'
  BY <1>32 DEF ExpireFault, MsgGoto, Fault, TypeOK, StepsAgree
<1>33. ASSUME BrokerCloses
      PROVE  StepsAgree'
  BY <1>33 DEF BrokerCloses, Unsent, Fault, TypeOK, StepsAgree
<1>34. ASSUME Crash
      PROVE  StepsAgree'
  BY <1>34 DEF Crash, AfterRestart, Unsent, TypeOK, StepsAgree
<1>35. ASSUME Tick
      PROVE  StepsAgree'
  BY <1>35 DEF Tick, Less, TypeOK, StepsAgree
<1>36. ASSUME NEW r \in Reservation, Enqueue(r)
      PROVE  StepsAgree'
  BY <1>36 DEF Enqueue, MessageTtl, TypeOK, StepsAgree
<1>37. CASE UNCHANGED vars
  BY <1>37 DEF vars, TypeOK, StepsAgree
<1> QED
  BY <1>1, <1>2, <1>3, <1>4, <1>5, <1>6, <1>7, <1>8, <1>9, <1>10, <1>11, <1>12,
     <1>13, <1>14, <1>15, <1>16, <1>17, <1>18, <1>19, <1>20, <1>21, <1>22, <1>23,
     <1>24, <1>25, <1>26, <1>27, <1>28, <1>29, <1>30, <1>31, <1>32, <1>33, <1>34,
     <1>35, <1>36, <1>37
     DEF Next, Request, HoldStep, BrokerStep, ConsumerStep, TaskStep, Failure

(* Outside the hazards, a release of a request's own seats leaves every    *)
(* live lock in place: the DEL of a key that belongs to another is one of  *)
(* the hazards.                                                            *)
LEMMA ReleaseKeepsLocks ==
    ASSUME TypeOK, LocksAreOwned,
           NEW r \in Reservation, NEW S \in SUBSET got[r], ReleaseLocks(r, S),
           UNCHANGED got
    PROVE  LocksAreOwned'
<1> SUFFICES ASSUME windows' = {}, NEW q \in Reservation, NEW s \in Seat,
                    Alive(q)', s \in got[q]
             PROVE  owner'[s] = q /\ ttl'[s] >= heldFor'[q]
  BY DEF LocksAreOwned
<1>1. windows = {} /\ ReleaseWindows(r, S) = {} /\ Alive(q) /\ q # r
  BY DEF ReleaseLocks, Alive
<1>2. owner[s] = q /\ ttl[s] >= heldFor[q]
  BY <1>1 DEF LocksAreOwned
<1>3. s \notin S
  <2> SUFFICES ASSUME s \in S PROVE FALSE
    OBVIOUS
  <2>1. s \in Foreign(r, S)
    BY <1>1, <1>2, NoneAssumption DEF Foreign
  <2>2. Alive(r)
    <3>1. r \in released => "re_release" \in ReleaseWindows(r, S)
      BY <2>1 DEF ReleaseWindows
    <3>2. heldFor[r] = 0 => "overrun" \in ReleaseWindows(r, S)
      BY <2>1 DEF ReleaseWindows
    <3> QED
      BY <1>1, <3>1, <3>2, TtlAssumption DEF Alive, TypeOK
  <2>3. owner[s] = r
    BY <1>1, <2>2 DEF LocksAreOwned, TypeOK
  <2> QED
    BY <1>1, <1>2, <2>3
<1> QED
  BY <1>2, <1>3 DEF ReleaseLocks

(* A step leaves live locks with their owners.                             *)
LEMMA LocksAreOwnedStep ==
    /\ TypeOK /\ StepsAgree /\ LocksAreOwned /\ [Next]_vars
    => LocksAreOwned'
<1> SUFFICES ASSUME TypeOK, StepsAgree, LocksAreOwned, [Next]_vars
             PROVE  LocksAreOwned'
  OBVIOUS
<1> USE TtlAssumption, NoneAssumption
    DEF lockVars, holdVars, rowVars, payVars, dbVars, brokerVars, taskVars,
        envVars, histVars
<1>1. ASSUME NEW r \in Reservation, NEW s \in Seat, AcquireSeat(r, s)
      PROVE  LocksAreOwned'
  BY <1>1
     DEF AcquireSeat, Free, Lock, Sold, TypeOK, StepsAgree, LocksAreOwned, Alive
<1>2. ASSUME NEW r \in Reservation, NEW s \in Seat, AcquireRetried(r, s)
      PROVE  LocksAreOwned'
  BY <1>2
     DEF AcquireRetried, Free, Lock, HoldGoto, Fault, TypeOK, StepsAgree,
         LocksAreOwned, Alive
<1>3. ASSUME NEW r \in Reservation, Rollback(r)
      PROVE  LocksAreOwned'
  <2>1. r \in Reservation /\ got[r] \in SUBSET got[r]
    BY <1>3 DEF Rollback, SeatsOf, TypeOK, StepsAgree
  <2> QED
    BY <1>3, <2>1, ReleaseKeepsLocks DEF Rollback, HoldGoto
<1>4. ASSUME NEW r \in Reservation, Undo(r)
      PROVE  LocksAreOwned'
  <2>1. r \in Reservation /\ want[r] \in SUBSET got[r]
    BY <1>4 DEF Undo, SeatsOf, TypeOK, StepsAgree
  <2> QED
    BY <1>4, <2>1, ReleaseKeepsLocks DEF Undo, HoldGoto
<1>5. ASSUME NEW h \in Handler, CheckoutCommit(h)
      PROVE  LocksAreOwned'
  BY <1>5
     DEF CheckoutCommit, Confirm, CountUse, SaleWindows, MissedSale, Goto, TypeOK,
         StepsAgree, LocksAreOwned, Alive
<1>6. ASSUME NEW h \in Handler, IpnSettle(h)
      PROVE  LocksAreOwned'
  BY <1>6
     DEF IpnSettle, Confirm, CountUse, SaleWindows, MissedSale, Goto, TypeOK,
         StepsAgree, LocksAreOwned, Alive
<1>7. ASSUME NEW h \in Handler, ReleasePaid(h)
      PROVE  LocksAreOwned'
  <2>1. target[h] \in Reservation /\ SeatsOf(target[h]) \in SUBSET got[target[h]]
    BY <1>7 DEF ReleasePaid, SeatsOf, TypeOK, StepsAgree
  <2> QED
    BY <1>7, <2>1, ReleaseKeepsLocks DEF ReleasePaid
<1>8. ASSUME NEW h \in Handler, ReleaseCancelled(h)
      PROVE  LocksAreOwned'
  <2>1. target[h] \in Reservation /\ SeatsOf(target[h]) \in SUBSET got[target[h]]
    BY <1>8 DEF ReleaseCancelled, SeatsOf, TypeOK, StepsAgree
  <2> QED
    BY <1>8, <2>1, ReleaseKeepsLocks DEF ReleaseCancelled
<1>9. ASSUME NEW r \in Reservation, ExpireRelease(r)
      PROVE  LocksAreOwned'
  <2>1. r \in Reservation /\ SeatsOf(r) \in SUBSET got[r]
    BY <1>9 DEF ExpireRelease, SeatsOf, TypeOK, StepsAgree
  <2> QED
    BY <1>9, <2>1, ReleaseKeepsLocks DEF ExpireRelease
<1>10. ASSUME Tick
      PROVE  LocksAreOwned'
  BY <1>10 DEF Tick, Less, TypeOK, StepsAgree, LocksAreOwned, Alive
<1>11. CASE UNCHANGED <<owner, ttl, got, heldFor, released, windows>>
  BY <1>11 DEF LocksAreOwned, Alive
<1> DEFINE Still == UNCHANGED <<owner, ttl, got, heldFor, released, windows>>
           Listed == \/ \E r \in Reservation, s \in Seat : AcquireSeat(r, s)
                     \/ \E r \in Reservation, s \in Seat : AcquireRetried(r, s)
                     \/ \E r \in Reservation : Rollback(r)
                     \/ \E r \in Reservation : Undo(r)
                     \/ \E h \in Handler : CheckoutCommit(h)
                     \/ \E h \in Handler : IpnSettle(h)
                     \/ \E h \in Handler : ReleasePaid(h)
                     \/ \E h \in Handler : ReleaseCancelled(h)
                     \/ \E r \in Reservation : ExpireRelease(r)
                     \/ Tick
<1>12. ASSUME Request
      PROVE  Still \/ Listed
  BY <1>12
     DEF Request, HoldCheck, CheckoutStart, Start, UrlStart, CancelStart, IpnStart
<1>13. ASSUME NEW r \in Reservation, HoldStep(r)
      PROVE  Still \/ Listed
  BY <1>13
     DEF HoldStep, HoldPrice, HoldGoto, ConflictSeat, StartSave, SaveHold,
         SendDelay, SendThrows
<1>14. ASSUME NEW r \in Reservation, BrokerStep(r) \/ ConsumerStep(r)
      PROVE  Still \/ Listed
  BY <1>14 DEF ConsumerStep, BrokerStep, Enqueue, DeadLetter, MsgGoto, ExpireRead, ExpireSave
<1>15. ASSUME NEW h \in Handler, TaskStep(h)
      PROVE  Still \/ Listed
  BY <1>15
     DEF TaskStep, InsertDuplicate, Goto, IpnDecline, UrlFind, UrlSave,
         PublishTickets, CancelSave
<1>16. ASSUME Failure
      PROVE  Still \/ Listed
  BY <1>16
     DEF Failure, HoldFault, HoldGoto, Fault, ExpireFault, MsgGoto, TaskFault,
         Goto, BrokerCloses, Crash
<1>17. Still \/ Listed
  BY <1>12, <1>13, <1>14, <1>15, <1>16 DEF Next, vars
<1> QED
  BY <1>1, <1>2, <1>3, <1>4, <1>5, <1>6, <1>7, <1>8, <1>9, <1>10, <1>11, <1>17

(* A sale is recorded as missed by the requests that are past their check. *)
LEMMA ConfirmIsMissed ==
    ASSUME TypeOK, SalesAreMissed, NEW r \in Reservation, Confirm(r)
    PROVE  SalesAreMissed'
<1> SUFFICES ASSUME NEW p \in Reservation, NEW q \in Reservation,
                    hold[q] \in {"checked", "locking"}, status'[p] = "CONFIRMED"
             PROVE  want[p] \cap (want[q] \ got[q]) \subseteq missed'[q]
  BY DEF SalesAreMissed, Confirm, holdVars
<1>1. missed'[q] = missed[q] \cup MissedSale(r, q)
  BY DEF Confirm
<1>2. CASE p = r
  BY <1>1, <1>2 DEF MissedSale
<1>3. CASE p # r
  <2>1. status[p] = "CONFIRMED"
    BY <1>3 DEF Confirm, TypeOK
  <2> QED
    BY <1>1, <2>1 DEF SalesAreMissed
<1> QED
  BY <1>2, <1>3

(* A step keeps missed complete: whatever was sold before a request's      *)
(* check was refused by the check itself.                                  *)
LEMMA SalesAreMissedStep ==
    /\ TypeOK /\ StepsAgree /\ SalesAreMissed /\ [Next]_vars
    => SalesAreMissed'
<1> SUFFICES ASSUME TypeOK, StepsAgree, SalesAreMissed, [Next]_vars
             PROVE  SalesAreMissed'
  OBVIOUS
<1> USE TtlAssumption
    DEF HoldSteps, Statuses, MsgSteps, lockVars, holdVars, rowVars, payVars,
        dbVars, brokerVars, taskVars, envVars, histVars
<1>1. ASSUME NEW r \in Reservation, NEW S \in SUBSET Seat, NEW c \in Coupons, HoldCheck(r, S, c)
      PROVE  SalesAreMissed'
  BY <1>1 DEF HoldCheck, Sold, TypeOK, StepsAgree, SalesAreMissed
<1>2. ASSUME NEW r \in Reservation, HoldPrice(r)
      PROVE  SalesAreMissed'
  BY <1>2 DEF HoldPrice, HoldGoto, TypeOK, StepsAgree, SalesAreMissed
<1>3. ASSUME NEW r \in Reservation, NEW s \in Seat, AcquireSeat(r, s)
      PROVE  SalesAreMissed'
  BY <1>3 DEF AcquireSeat, Free, Lock, Sold, TypeOK, StepsAgree, SalesAreMissed
<1>4. ASSUME NEW r \in Reservation, NEW s \in Seat, ConflictSeat(r, s)
      PROVE  SalesAreMissed'
  BY <1>4 DEF ConflictSeat, HoldGoto, TypeOK, StepsAgree, SalesAreMissed
<1>5. ASSUME NEW r \in Reservation, NEW s \in Seat, AcquireRetried(r, s)
      PROVE  SalesAreMissed'
  BY <1>5
     DEF AcquireRetried, Free, Lock, HoldGoto, Fault, TypeOK, StepsAgree,
         SalesAreMissed
<1>6. ASSUME NEW r \in Reservation, Rollback(r)
      PROVE  SalesAreMissed'
  BY <1>6
     DEF Rollback, HoldGoto, ReleaseLocks, ReleaseWindows, Foreign, TypeOK,
         StepsAgree, SalesAreMissed
<1>7. ASSUME NEW r \in Reservation, StartSave(r)
      PROVE  SalesAreMissed'
  BY <1>7 DEF StartSave, HoldGoto, PaymentWindow, TypeOK, StepsAgree, SalesAreMissed
<1>8. ASSUME NEW r \in Reservation, SaveHold(r)
      PROVE  SalesAreMissed'
  BY <1>8 DEF SaveHold, HoldGoto, TypeOK, StepsAgree, SalesAreMissed
<1>9. ASSUME NEW r \in Reservation, SendDelay(r)
      PROVE  SalesAreMissed'
  BY <1>9 DEF SendDelay, HoldGoto, TypeOK, StepsAgree, SalesAreMissed
<1>10. ASSUME NEW r \in Reservation, SendThrows(r)
      PROVE  SalesAreMissed'
  BY <1>10 DEF SendThrows, HoldGoto, TypeOK, StepsAgree, SalesAreMissed
<1>11. ASSUME NEW r \in Reservation, Undo(r)
      PROVE  SalesAreMissed'
  BY <1>11
     DEF Undo, HoldGoto, ReleaseLocks, ReleaseWindows, Foreign, TypeOK, StepsAgree,
         SalesAreMissed
<1>12. ASSUME NEW r \in Reservation, HoldFault(r)
      PROVE  SalesAreMissed'
  BY <1>12 DEF HoldFault, HoldGoto, Fault, TypeOK, StepsAgree, SalesAreMissed
<1>13. ASSUME NEW h \in Handler, CheckoutCommit(h)
      PROVE  SalesAreMissed'
  <2>1. target[h] \in Reservation /\ hold[target[h]] = "done"
    BY <1>13 DEF CheckoutCommit, TypeOK, StepsAgree
  <2> QED
    BY <1>13, <2>1, ConfirmIsMissed DEF CheckoutCommit
<1>14. ASSUME NEW h \in Handler, IpnSettle(h)
      PROVE  SalesAreMissed'
  <2>1. target[h] \in Reservation /\ hold[target[h]] = "done"
    BY <1>14 DEF IpnSettle, TypeOK, StepsAgree
  <2> QED
    BY <1>14, <2>1, ConfirmIsMissed DEF IpnSettle
<1>15. ASSUME NEW h \in Handler, CancelSave(h)
      PROVE  SalesAreMissed'
  BY <1>15 DEF CancelSave, Goto, TypeOK, StepsAgree, SalesAreMissed
<1>16. ASSUME NEW r \in Reservation, ExpireSave(r)
      PROVE  SalesAreMissed'
  BY <1>16 DEF ExpireSave, MsgGoto, TypeOK, StepsAgree, SalesAreMissed
<1>17. ASSUME Crash
      PROVE  SalesAreMissed'
  BY <1>17 DEF Crash, AfterRestart, Unsent, TypeOK, StepsAgree, SalesAreMissed
<1>18. CASE UNCHANGED <<hold, status, want, got, missed>>
  BY <1>18 DEF SalesAreMissed
<1> DEFINE Still == UNCHANGED <<hold, status, want, got, missed>>
           Listed == \/ \E r \in Reservation, S \in SUBSET Seat, c \in Coupons : HoldCheck(r, S, c)
                     \/ \E r \in Reservation : HoldPrice(r)
                     \/ \E r \in Reservation, s \in Seat : AcquireSeat(r, s)
                     \/ \E r \in Reservation, s \in Seat : ConflictSeat(r, s)
                     \/ \E r \in Reservation, s \in Seat : AcquireRetried(r, s)
                     \/ \E r \in Reservation : Rollback(r)
                     \/ \E r \in Reservation : StartSave(r)
                     \/ \E r \in Reservation : SaveHold(r)
                     \/ \E r \in Reservation : SendDelay(r)
                     \/ \E r \in Reservation : SendThrows(r)
                     \/ \E r \in Reservation : Undo(r)
                     \/ \E r \in Reservation : HoldFault(r)
                     \/ \E h \in Handler : CheckoutCommit(h)
                     \/ \E h \in Handler : IpnSettle(h)
                     \/ \E h \in Handler : CancelSave(h)
                     \/ \E r \in Reservation : ExpireSave(r)
                     \/ Crash
<1>19. ASSUME Request
      PROVE  Still \/ Listed
  BY <1>19 DEF Request, CheckoutStart, Start, UrlStart, CancelStart, IpnStart
<1>20. ASSUME NEW r \in Reservation, HoldStep(r)
      PROVE  Still \/ Listed
  BY <1>20 DEF HoldStep
<1>21. ASSUME NEW r \in Reservation, BrokerStep(r) \/ ConsumerStep(r)
      PROVE  Still \/ Listed
  BY <1>21
     DEF ConsumerStep, BrokerStep, Enqueue, DeadLetter, MsgGoto, ExpireRead,
         ExpireRelease, ReleaseLocks
<1>22. ASSUME NEW h \in Handler, TaskStep(h)
      PROVE  Still \/ Listed
  BY <1>22
     DEF TaskStep, InsertDuplicate, Goto, IpnDecline, UrlFind, UrlSave,
         ReleasePaid, ReleaseLocks, PublishTickets, ReleaseCancelled
<1>23. ASSUME Failure
      PROVE  Still \/ Listed
  BY <1>23 DEF Failure, ExpireFault, MsgGoto, Fault, TaskFault, Goto, BrokerCloses
<1>24. ASSUME Tick PROVE Still
  BY <1>24 DEF Tick
<1>25. Still \/ Listed
  BY <1>19, <1>20, <1>21, <1>22, <1>23, <1>24 DEF Next, vars
<1> QED
  BY <1>1, <1>2, <1>3, <1>4, <1>5, <1>6, <1>7, <1>8, <1>9, <1>10, <1>11, <1>12,
     <1>13, <1>14, <1>15, <1>16, <1>17, <1>18, <1>25

(* Outside the hazards, a reservation that is confirmed for the first time *)
(* has live locks on all its seats.                                        *)
LEMMA FreshSaleIsAlive ==
    ASSUME TypeOK, StepsAgree,
           NEW r \in Reservation, hold[r] = "done", status[r] # "CONFIRMED",
           SaleWindows(r) = {}
    PROVE  Alive(r) /\ got[r] = want[r]
<1>1. heldFor[r] # 0
  <2> SUFFICES ASSUME heldFor[r] = 0 PROVE "overrun" \in SaleWindows(r)
    OBVIOUS
  <2> QED
    BY DEF SaleWindows
<1>2. status[r] \notin {"CANCELLED", "EXPIRED"}
  <2> SUFFICES ASSUME status[r] \in {"CANCELLED", "EXPIRED"}
               PROVE  "late_settlement" \in SaleWindows(r)
    OBVIOUS
  <2> QED
    BY DEF SaleWindows
<1>3. status[r] = "PENDING"
  BY <1>2 DEF TypeOK, Statuses, StepsAgree
<1>4. r \notin released /\ got[r] = want[r]
  BY <1>3 DEF StepsAgree
<1> QED
  BY <1>1, <1>4, TtlAssumption DEF Alive, TypeOK

(* The transaction of checkout and of the notification sells no seat twice *)
(* and leaves no live lock on a sold seat.                                 *)
LEMMA ConfirmKeepsSold ==
    ASSUME TypeOK, StepsAgree, LocksAreOwned, NoLiveLockOnSold, SoldOnceOutsideWindows,
           NEW r \in Reservation, hold[r] = "done", Confirm(r)
    PROVE  NoLiveLockOnSold' /\ SoldOnceOutsideWindows'
<1> SUFFICES ASSUME windows' = {}
             PROVE  NoLiveLockOnSold' /\ SoldOnceOutsideWindows'
  BY DEF NoLiveLockOnSold, SoldOnceOutsideWindows
<1>1. windows = {} /\ SaleWindows(r) = {} /\ UNCHANGED <<owner, ttl, want, got, heldFor, released>>
  BY DEF Confirm, lockVars, holdVars
<1>2. /\ status'[r] = "CONFIRMED"
      /\ \A q \in Reservation \ {r} : status'[q] = status[q]
  BY DEF Confirm, TypeOK
<1>3. CASE status[r] = "CONFIRMED"
  BY <1>1, <1>2, <1>3
  DEF NoLiveLockOnSold, SoldOnceOutsideWindows, NoDoubleBooking, Alive
<1>4. CASE status[r] # "CONFIRMED"
  <2>1. Alive(r) /\ got[r] = want[r]
    BY <1>1, <1>4, FreshSaleIsAlive
  <2>2. \A q \in Reservation \ {r} : Alive(q) => want[r] \cap got[q] = {}
    BY <1>1, <2>1 DEF LocksAreOwned, TypeOK
  <2>3. \A q \in Reservation \ {r} : status[q] = "CONFIRMED" => want[r] \cap want[q] = {}
    BY <1>1, <2>1 DEF NoLiveLockOnSold
  <2> QED
    BY <1>1, <1>2, <2>2, <2>3, SMT
    DEF NoLiveLockOnSold, SoldOnceOutsideWindows, NoDoubleBooking, Alive
<1> QED
  BY <1>3, <1>4

(* A step sells no seat twice.                                             *)
LEMMA SoldStep ==
    /\ TypeOK /\ StepsAgree /\ LocksAreOwned /\ SalesAreMissed
    /\ NoLiveLockOnSold /\ SoldOnceOutsideWindows /\ [Next]_vars
    => NoLiveLockOnSold' /\ SoldOnceOutsideWindows'
<1> SUFFICES ASSUME TypeOK, StepsAgree, LocksAreOwned, SalesAreMissed,
                    NoLiveLockOnSold, SoldOnceOutsideWindows, [Next]_vars
             PROVE  NoLiveLockOnSold' /\ SoldOnceOutsideWindows'
  OBVIOUS
<1> USE TtlAssumption
    DEF HoldSteps, lockVars, holdVars, rowVars, payVars, dbVars, brokerVars,
        taskVars, envVars, histVars
<1>1. ASSUME NEW r \in Reservation, NEW S \in SUBSET Seat, NEW c \in Coupons, HoldCheck(r, S, c)
      PROVE  NoLiveLockOnSold' /\ SoldOnceOutsideWindows'
  BY <1>1
     DEF HoldCheck, Sold, TypeOK, StepsAgree, NoLiveLockOnSold,
         SoldOnceOutsideWindows, NoDoubleBooking, Alive
<1>2. ASSUME NEW r \in Reservation, NEW s \in Seat, AcquireSeat(r, s)
      PROVE  NoLiveLockOnSold' /\ SoldOnceOutsideWindows'
  <2> SUFFICES ASSUME windows' = {} PROVE NoLiveLockOnSold' /\ SoldOnceOutsideWindows'
    BY DEF NoLiveLockOnSold, SoldOnceOutsideWindows
  <2>1. windows = {} /\ ~(Sold(s) /\ s \in missed[r])
    BY <1>2 DEF AcquireSeat
  <2>2. hold[r] = "locking" /\ s \in want[r] \ got[r] /\ r \notin released
    BY <1>2 DEF AcquireSeat, StepsAgree
  <2>3. \A q \in Reservation : status[q] = "CONFIRMED" => s \notin want[q]
    BY <2>1, <2>2 DEF SalesAreMissed, Sold
  <2>4. /\ got' = [got EXCEPT ![r] = @ \cup {s}]
        /\ UNCHANGED <<status, want, released>>
        /\ \A q \in Reservation \ {r} : heldFor'[q] = heldFor[q]
    BY <1>2 DEF AcquireSeat, TypeOK
  <2>5. got[r] # {} => heldFor'[r] = heldFor[r]
    BY <1>2 DEF AcquireSeat, TypeOK
  <2>6. SoldOnceOutsideWindows'
    BY <2>1, <2>4 DEF SoldOnceOutsideWindows, NoDoubleBooking
  <2>7. \A q \in Reservation : Alive(q)' /\ got[q] # {} => Alive(q)
    BY <2>4, <2>5 DEF Alive, TypeOK
  <2>8. NoLiveLockOnSold'
    <3> SUFFICES ASSUME NEW p \in Reservation, NEW q \in Reservation,
                        p # q, status[p] = "CONFIRMED", Alive(q)'
                 PROVE  want[p] \cap got'[q] = {}
      BY <2>4 DEF NoLiveLockOnSold
    <3>1. want[p] \cap got[q] = {}
      BY <2>1, <2>7 DEF NoLiveLockOnSold
    <3> QED
      BY <2>3, <2>4, <3>1 DEF TypeOK
  <2> QED
    BY <2>6, <2>8
<1>3. ASSUME NEW r \in Reservation, Rollback(r)
      PROVE  NoLiveLockOnSold' /\ SoldOnceOutsideWindows'
  BY <1>3
     DEF Rollback, HoldGoto, ReleaseLocks, ReleaseWindows, Foreign, TypeOK,
         StepsAgree, NoLiveLockOnSold, SoldOnceOutsideWindows, NoDoubleBooking,
         Alive
<1>4. ASSUME NEW r \in Reservation, SaveHold(r)
      PROVE  NoLiveLockOnSold' /\ SoldOnceOutsideWindows'
  BY <1>4
     DEF SaveHold, HoldGoto, TypeOK, StepsAgree, NoLiveLockOnSold,
         SoldOnceOutsideWindows, NoDoubleBooking, Alive
<1>5. ASSUME NEW r \in Reservation, Undo(r)
      PROVE  NoLiveLockOnSold' /\ SoldOnceOutsideWindows'
  BY <1>5
     DEF Undo, HoldGoto, ReleaseLocks, ReleaseWindows, Foreign, TypeOK, StepsAgree,
         NoLiveLockOnSold, SoldOnceOutsideWindows, NoDoubleBooking, Alive
<1>6. ASSUME NEW h \in Handler, CheckoutCommit(h)
      PROVE  NoLiveLockOnSold' /\ SoldOnceOutsideWindows'
  <2>1. target[h] \in Reservation /\ hold[target[h]] = "done"
    BY <1>6 DEF CheckoutCommit, TypeOK, StepsAgree
  <2> QED
    BY <1>6, <2>1, ConfirmKeepsSold DEF CheckoutCommit
<1>7. ASSUME NEW h \in Handler, IpnSettle(h)
      PROVE  NoLiveLockOnSold' /\ SoldOnceOutsideWindows'
  <2>1. target[h] \in Reservation /\ hold[target[h]] = "done"
    BY <1>7 DEF IpnSettle, TypeOK, StepsAgree
  <2> QED
    BY <1>7, <2>1, ConfirmKeepsSold DEF IpnSettle
<1>8. ASSUME NEW h \in Handler, ReleasePaid(h)
      PROVE  NoLiveLockOnSold' /\ SoldOnceOutsideWindows'
  BY <1>8
     DEF ReleasePaid, Goto, ReleaseLocks, ReleaseWindows, Foreign, SeatsOf, TypeOK,
         StepsAgree, NoLiveLockOnSold, SoldOnceOutsideWindows, NoDoubleBooking,
         Alive
<1>9. ASSUME NEW h \in Handler, CancelSave(h)
      PROVE  NoLiveLockOnSold' /\ SoldOnceOutsideWindows'
  BY <1>9
     DEF CancelSave, Goto, TypeOK, StepsAgree, NoLiveLockOnSold,
         SoldOnceOutsideWindows, NoDoubleBooking, Alive
<1>10. ASSUME NEW h \in Handler, ReleaseCancelled(h)
      PROVE  NoLiveLockOnSold' /\ SoldOnceOutsideWindows'
  BY <1>10
     DEF ReleaseCancelled, Goto, ReleaseLocks, ReleaseWindows, Foreign, SeatsOf,
         TypeOK, StepsAgree, NoLiveLockOnSold, SoldOnceOutsideWindows,
         NoDoubleBooking, Alive
<1>11. ASSUME NEW r \in Reservation, ExpireSave(r)
      PROVE  NoLiveLockOnSold' /\ SoldOnceOutsideWindows'
  BY <1>11
     DEF ExpireSave, MsgGoto, TypeOK, StepsAgree, NoLiveLockOnSold,
         SoldOnceOutsideWindows, NoDoubleBooking, Alive
<1>12. ASSUME NEW r \in Reservation, ExpireRelease(r)
      PROVE  NoLiveLockOnSold' /\ SoldOnceOutsideWindows'
  BY <1>12
     DEF ExpireRelease, MsgGoto, ReleaseLocks, ReleaseWindows, Foreign, SeatsOf,
         TypeOK, StepsAgree, NoLiveLockOnSold, SoldOnceOutsideWindows,
         NoDoubleBooking, Alive
<1>13. ASSUME Tick
      PROVE  NoLiveLockOnSold' /\ SoldOnceOutsideWindows'
  <2>1. \A q \in Reservation : Alive(q)' => Alive(q)
    BY <1>13 DEF Tick, Less, Alive, TypeOK
  <2>2. UNCHANGED <<status, want, got, windows>>
    BY <1>13 DEF Tick
  <2> QED
    BY <2>1, <2>2 DEF NoLiveLockOnSold, SoldOnceOutsideWindows, NoDoubleBooking
<1>14. CASE UNCHANGED <<status, want, got, heldFor, released, windows>>
  BY <1>14 DEF NoLiveLockOnSold, SoldOnceOutsideWindows, NoDoubleBooking, Alive
<1> DEFINE Still == UNCHANGED <<status, want, got, heldFor, released, windows>>
           Listed == \/ \E r \in Reservation, S \in SUBSET Seat, c \in Coupons : HoldCheck(r, S, c)
                     \/ \E r \in Reservation, s \in Seat : AcquireSeat(r, s)
                     \/ \E r \in Reservation : Rollback(r)
                     \/ \E r \in Reservation : SaveHold(r)
                     \/ \E r \in Reservation : Undo(r)
                     \/ \E h \in Handler : CheckoutCommit(h)
                     \/ \E h \in Handler : IpnSettle(h)
                     \/ \E h \in Handler : ReleasePaid(h)
                     \/ \E h \in Handler : CancelSave(h)
                     \/ \E h \in Handler : ReleaseCancelled(h)
                     \/ \E r \in Reservation : ExpireSave(r)
                     \/ \E r \in Reservation : ExpireRelease(r)
                     \/ Tick
<1>15. ASSUME Request
      PROVE  Still \/ Listed
  BY <1>15 DEF Request, CheckoutStart, Start, UrlStart, CancelStart, IpnStart
<1>16. ASSUME NEW r \in Reservation, HoldStep(r)
      PROVE  Still \/ Listed
  BY <1>16
     DEF HoldStep, HoldPrice, HoldGoto, ConflictSeat, StartSave, SendDelay,
         SendThrows
<1>17. ASSUME NEW r \in Reservation, BrokerStep(r) \/ ConsumerStep(r)
      PROVE  Still \/ Listed
  BY <1>17 DEF ConsumerStep, BrokerStep, Enqueue, DeadLetter, MsgGoto, ExpireRead
<1>18. ASSUME NEW h \in Handler, TaskStep(h)
      PROVE  Still \/ Listed
  BY <1>18
     DEF TaskStep, InsertDuplicate, Goto, IpnDecline, UrlFind, UrlSave,
         PublishTickets
<1>19. ASSUME Failure
      PROVE  Still \/ Listed
  BY <1>19
     DEF Failure, HoldFault, HoldGoto, Fault, ExpireFault, MsgGoto, AcquireRetried,
         Lock, TaskFault, Goto, BrokerCloses, Crash
<1>20. Still \/ Listed
  BY <1>15, <1>16, <1>17, <1>18, <1>19 DEF Next, vars
<1> QED
  BY <1>1, <1>2, <1>3, <1>4, <1>5, <1>6, <1>7, <1>8, <1>9, <1>10, <1>11, <1>12,
     <1>13, <1>14, <1>20

(* A step keeps the expiry message behind the payment window.              *)
LEMMA ExpiryStep ==
    /\ TypeOK /\ StepsAgree /\ ExpiryAfterWindow /\ [Next]_vars
    => ExpiryAfterWindow'
<1> SUFFICES ASSUME TypeOK, StepsAgree, ExpiryAfterWindow, [Next]_vars
             PROVE  ExpiryAfterWindow'
  OBVIOUS
<1> USE TtlAssumption
    DEF HoldSteps, Statuses, MsgSteps, lockVars, holdVars, rowVars, payVars,
        dbVars, brokerVars, taskVars, envVars, histVars
<1>1. ASSUME NEW r \in Reservation, StartSave(r)
      PROVE  ExpiryAfterWindow'
  BY <1>1
     DEF StartSave, HoldGoto, PaymentWindow, TypeOK, StepsAgree, ExpiryAfterWindow
<1>2. ASSUME NEW r \in Reservation, SaveHold(r)
      PROVE  ExpiryAfterWindow'
  BY <1>2 DEF SaveHold, HoldGoto, TypeOK, StepsAgree, ExpiryAfterWindow
<1>3. ASSUME NEW r \in Reservation, SendDelay(r)
      PROVE  ExpiryAfterWindow'
  BY <1>3 DEF SendDelay, HoldGoto, TypeOK, StepsAgree, ExpiryAfterWindow
<1>4. ASSUME NEW h \in Handler, CheckoutCommit(h)
      PROVE  ExpiryAfterWindow'
  BY <1>4
     DEF CheckoutCommit, Confirm, CountUse, SaleWindows, MissedSale, Goto, TypeOK,
         StepsAgree, ExpiryAfterWindow
<1>5. ASSUME NEW h \in Handler, IpnSettle(h)
      PROVE  ExpiryAfterWindow'
  BY <1>5
     DEF IpnSettle, Confirm, CountUse, SaleWindows, MissedSale, Goto, TypeOK,
         StepsAgree, ExpiryAfterWindow
<1>6. ASSUME NEW h \in Handler, CancelSave(h)
      PROVE  ExpiryAfterWindow'
  BY <1>6 DEF CancelSave, Goto, TypeOK, StepsAgree, ExpiryAfterWindow
<1>7. ASSUME NEW r \in Reservation, DeadLetter(r)
      PROVE  ExpiryAfterWindow'
  BY <1>7 DEF DeadLetter, MsgGoto, TypeOK, StepsAgree, ExpiryAfterWindow
<1>8. ASSUME NEW r \in Reservation, ExpireRead(r)
      PROVE  ExpiryAfterWindow'
  BY <1>8 DEF ExpireRead, MsgGoto, TypeOK, StepsAgree, ExpiryAfterWindow
<1>9. ASSUME NEW r \in Reservation, ExpireSave(r)
      PROVE  ExpiryAfterWindow'
  BY <1>9 DEF ExpireSave, MsgGoto, TypeOK, StepsAgree, ExpiryAfterWindow
<1>10. ASSUME NEW r \in Reservation, ExpireRelease(r)
      PROVE  ExpiryAfterWindow'
  BY <1>10
     DEF ExpireRelease, MsgGoto, ReleaseLocks, ReleaseWindows, Foreign, SeatsOf,
         TypeOK, StepsAgree, ExpiryAfterWindow
<1>11. ASSUME NEW r \in Reservation, ExpireFault(r)
      PROVE  ExpiryAfterWindow'
  BY <1>11 DEF ExpireFault, MsgGoto, Fault, TypeOK, StepsAgree, ExpiryAfterWindow
<1>12. ASSUME Crash
      PROVE  ExpiryAfterWindow'
  BY <1>12 DEF Crash, AfterRestart, Unsent, TypeOK, StepsAgree, ExpiryAfterWindow
<1>13. ASSUME Tick
      PROVE  ExpiryAfterWindow'
  BY <1>13 DEF Tick, Less, TypeOK, StepsAgree, ExpiryAfterWindow
<1>14. ASSUME NEW r \in Reservation, Enqueue(r)
      PROVE  ExpiryAfterWindow'
  BY <1>14 DEF Enqueue, MessageTtl, TypeOK, StepsAgree, ExpiryAfterWindow
<1>15. ASSUME BrokerCloses
      PROVE  ExpiryAfterWindow'
  BY <1>15 DEF BrokerCloses, Unsent, Fault, TypeOK, StepsAgree, ExpiryAfterWindow
<1>16. CASE UNCHANGED <<msg, delayLeft, window, status>>
  BY <1>16 DEF ExpiryAfterWindow
<1> DEFINE Still == UNCHANGED <<msg, delayLeft, window, status>>
           Listed == \/ \E r \in Reservation : StartSave(r)
                     \/ \E r \in Reservation : SaveHold(r)
                     \/ \E r \in Reservation : SendDelay(r)
                     \/ \E h \in Handler : CheckoutCommit(h)
                     \/ \E h \in Handler : IpnSettle(h)
                     \/ \E h \in Handler : CancelSave(h)
                     \/ \E r \in Reservation : Enqueue(r)
                     \/ \E r \in Reservation : DeadLetter(r)
                     \/ \E r \in Reservation : ExpireRead(r)
                     \/ \E r \in Reservation : ExpireSave(r)
                     \/ \E r \in Reservation : ExpireRelease(r)
                     \/ \E r \in Reservation : ExpireFault(r)
                     \/ BrokerCloses
                     \/ Crash
                     \/ Tick
<1>17. ASSUME Request
      PROVE  Still \/ Listed
  BY <1>17
     DEF Request, HoldCheck, CheckoutStart, Start, UrlStart, CancelStart, IpnStart
<1>18. ASSUME NEW r \in Reservation, HoldStep(r)
      PROVE  Still \/ Listed
  BY <1>18
     DEF HoldStep, HoldPrice, HoldGoto, AcquireSeat, Lock, ConflictSeat, Rollback,
         ReleaseLocks, SendThrows, Undo
<1>19. ASSUME NEW r \in Reservation, BrokerStep(r) \/ ConsumerStep(r)
      PROVE  Still \/ Listed
  BY <1>19 DEF BrokerStep, ConsumerStep
<1>20. ASSUME NEW h \in Handler, TaskStep(h)
      PROVE  Still \/ Listed
  BY <1>20
     DEF TaskStep, InsertDuplicate, Goto, IpnDecline, UrlFind, UrlSave,
         ReleasePaid, ReleaseLocks, PublishTickets, ReleaseCancelled
<1>21. ASSUME Failure
      PROVE  Still \/ Listed
  BY <1>21
     DEF Failure, HoldFault, HoldGoto, Fault, AcquireRetried, Lock, TaskFault,
         Goto
<1>22. Still \/ Listed
  BY <1>17, <1>18, <1>19, <1>20, <1>21 DEF Next, vars
<1> QED
  BY <1>1, <1>2, <1>3, <1>4, <1>5, <1>6, <1>7, <1>8, <1>9, <1>10, <1>11, <1>12,
     <1>13, <1>14, <1>15, <1>16, <1>22

(* A step keeps the life of a lock within the payment window.              *)
LEMMA OutlivesStep ==
    /\ TypeOK /\ HoldNeverOutlivesDeadline /\ [Next]_vars
    => HoldNeverOutlivesDeadline'
<1> SUFFICES ASSUME TypeOK, HoldNeverOutlivesDeadline, [Next]_vars
             PROVE  HoldNeverOutlivesDeadline'
  OBVIOUS
<1> USE TtlAssumption, NoneAssumption
    DEF HoldSteps, Statuses, MsgSteps, lockVars, holdVars, rowVars, payVars,
        dbVars, brokerVars, taskVars, envVars, histVars
<1>1. ASSUME NEW r \in Reservation, NEW S \in SUBSET Seat, NEW c \in Coupons, HoldCheck(r, S, c)
      PROVE  HoldNeverOutlivesDeadline'
  BY <1>1 DEF HoldCheck, Sold, TypeOK, HoldNeverOutlivesDeadline
<1>2. ASSUME NEW r \in Reservation, HoldPrice(r)
      PROVE  HoldNeverOutlivesDeadline'
  BY <1>2 DEF HoldPrice, HoldGoto, TypeOK, HoldNeverOutlivesDeadline
<1>3. ASSUME NEW r \in Reservation, NEW s \in Seat, AcquireSeat(r, s)
      PROVE  HoldNeverOutlivesDeadline'
  BY <1>3 DEF AcquireSeat, Free, Lock, Sold, TypeOK, HoldNeverOutlivesDeadline
<1>4. ASSUME NEW r \in Reservation, NEW s \in Seat, ConflictSeat(r, s)
      PROVE  HoldNeverOutlivesDeadline'
  BY <1>4 DEF ConflictSeat, HoldGoto, TypeOK, HoldNeverOutlivesDeadline
<1>5. ASSUME NEW r \in Reservation, NEW s \in Seat, AcquireRetried(r, s)
      PROVE  HoldNeverOutlivesDeadline'
  BY <1>5
     DEF AcquireRetried, Free, Lock, HoldGoto, Fault, TypeOK,
         HoldNeverOutlivesDeadline
<1>6. ASSUME NEW r \in Reservation, Rollback(r)
      PROVE  HoldNeverOutlivesDeadline'
  BY <1>6
     DEF Rollback, HoldGoto, ReleaseLocks, ReleaseWindows, Foreign, TypeOK,
         HoldNeverOutlivesDeadline
<1>7. ASSUME NEW r \in Reservation, StartSave(r)
      PROVE  HoldNeverOutlivesDeadline'
  BY <1>7 DEF StartSave, HoldGoto, PaymentWindow, TypeOK, HoldNeverOutlivesDeadline
<1>8. ASSUME NEW r \in Reservation, SaveHold(r)
      PROVE  HoldNeverOutlivesDeadline'
  BY <1>8 DEF SaveHold, HoldGoto, TypeOK, HoldNeverOutlivesDeadline
<1>9. ASSUME NEW r \in Reservation, SendDelay(r)
      PROVE  HoldNeverOutlivesDeadline'
  BY <1>9 DEF SendDelay, HoldGoto, TypeOK, HoldNeverOutlivesDeadline
<1>10. ASSUME NEW r \in Reservation, SendThrows(r)
      PROVE  HoldNeverOutlivesDeadline'
  BY <1>10 DEF SendThrows, HoldGoto, TypeOK, HoldNeverOutlivesDeadline
<1>11. ASSUME NEW r \in Reservation, Undo(r)
      PROVE  HoldNeverOutlivesDeadline'
  BY <1>11
     DEF Undo, HoldGoto, ReleaseLocks, ReleaseWindows, Foreign, TypeOK,
         HoldNeverOutlivesDeadline
<1>12. ASSUME NEW r \in Reservation, HoldFault(r)
      PROVE  HoldNeverOutlivesDeadline'
  BY <1>12 DEF HoldFault, HoldGoto, Fault, TypeOK, HoldNeverOutlivesDeadline
<1>13. ASSUME NEW h \in Handler, ReleasePaid(h)
      PROVE  HoldNeverOutlivesDeadline'
  BY <1>13
     DEF ReleasePaid, Goto, ReleaseLocks, ReleaseWindows, Foreign, SeatsOf, TypeOK,
         HoldNeverOutlivesDeadline
<1>14. ASSUME NEW h \in Handler, ReleaseCancelled(h)
      PROVE  HoldNeverOutlivesDeadline'
  BY <1>14
     DEF ReleaseCancelled, Goto, ReleaseLocks, ReleaseWindows, Foreign, SeatsOf,
         TypeOK, HoldNeverOutlivesDeadline
<1>15. ASSUME NEW r \in Reservation, ExpireRelease(r)
      PROVE  HoldNeverOutlivesDeadline'
  BY <1>15
     DEF ExpireRelease, MsgGoto, ReleaseLocks, ReleaseWindows, Foreign, SeatsOf,
         TypeOK, HoldNeverOutlivesDeadline
<1>16. ASSUME Crash
      PROVE  HoldNeverOutlivesDeadline'
  BY <1>16 DEF Crash, AfterRestart, Unsent, TypeOK, HoldNeverOutlivesDeadline
<1>17. ASSUME Tick
      PROVE  HoldNeverOutlivesDeadline'
  <2> SUFFICES ASSUME NEW r \in Reservation, NEW s \in Seat, owner'[s] = r,
                      hold[r] \in {"saving", "saved", "done"}
               PROVE  ttl'[s] <= window'[r]
    BY <1>17 DEF Tick, HoldNeverOutlivesDeadline
  <2>1. owner[s] = r
    BY <1>17 DEF Tick, TypeOK
  <2>2. ttl[s] <= window[r] /\ ttl[s] \in Nat /\ window[r] \in Nat
    BY <2>1 DEF HoldNeverOutlivesDeadline, TypeOK
  <2>3. ttl'[s] = Less(ttl[s]) /\ window'[r] = Less(window[r])
    BY <1>17 DEF Tick
  <2> QED
    BY <2>2, <2>3 DEF Less
<1>18. CASE UNCHANGED <<owner, ttl, hold, window>>
  BY <1>18 DEF HoldNeverOutlivesDeadline
<1> DEFINE Still == UNCHANGED <<owner, ttl, hold, window>>
           Listed == \/ \E r \in Reservation, S \in SUBSET Seat, c \in Coupons : HoldCheck(r, S, c)
                     \/ \E r \in Reservation : HoldPrice(r)
                     \/ \E r \in Reservation, s \in Seat : AcquireSeat(r, s)
                     \/ \E r \in Reservation, s \in Seat : ConflictSeat(r, s)
                     \/ \E r \in Reservation, s \in Seat : AcquireRetried(r, s)
                     \/ \E r \in Reservation : Rollback(r)
                     \/ \E r \in Reservation : StartSave(r)
                     \/ \E r \in Reservation : SaveHold(r)
                     \/ \E r \in Reservation : SendDelay(r)
                     \/ \E r \in Reservation : SendThrows(r)
                     \/ \E r \in Reservation : Undo(r)
                     \/ \E r \in Reservation : HoldFault(r)
                     \/ \E h \in Handler : ReleasePaid(h)
                     \/ \E h \in Handler : ReleaseCancelled(h)
                     \/ \E r \in Reservation : ExpireRelease(r)
                     \/ Crash
                     \/ Tick
<1>19. ASSUME Request
      PROVE  Still \/ Listed
  BY <1>19 DEF Request, CheckoutStart, Start, UrlStart, CancelStart, IpnStart
<1>20. ASSUME NEW r \in Reservation, HoldStep(r)
      PROVE  Still \/ Listed
  BY <1>20 DEF HoldStep
<1>21. ASSUME NEW r \in Reservation, BrokerStep(r) \/ ConsumerStep(r)
      PROVE  Still \/ Listed
  BY <1>21 DEF ConsumerStep, BrokerStep, Enqueue, DeadLetter, MsgGoto, ExpireRead, ExpireSave
<1>22. ASSUME NEW h \in Handler, TaskStep(h)
      PROVE  Still \/ Listed
  BY <1>22
     DEF TaskStep, CheckoutCommit, Confirm, CountUse, Goto, InsertDuplicate,
         IpnSettle, IpnDecline, UrlFind, UrlSave, PublishTickets, CancelSave
<1>23. ASSUME Failure
      PROVE  Still \/ Listed
  BY <1>23 DEF Failure, ExpireFault, MsgGoto, Fault, TaskFault, Goto, BrokerCloses
<1>24. Still \/ Listed
  BY <1>19, <1>20, <1>21, <1>22, <1>23 DEF Next, vars
<1> QED
  BY <1>1, <1>2, <1>3, <1>4, <1>5, <1>6, <1>7, <1>8, <1>9, <1>10, <1>11, <1>12,
     <1>13, <1>14, <1>15, <1>16, <1>17, <1>18, <1>24

(* A step leaves no successful payment on an unpaid reservation.           *)
LEMMA PaidStep ==
    /\ TypeOK /\ StepsAgree /\ PaidIsSettled /\ [Next]_vars
    => PaidIsSettled'
<1> SUFFICES ASSUME TypeOK, StepsAgree, PaidIsSettled, [Next]_vars
             PROVE  PaidIsSettled'
  OBVIOUS
<1> USE TtlAssumption
    DEF HoldSteps, Statuses, MsgSteps, lockVars, holdVars, rowVars, payVars,
        dbVars, brokerVars, taskVars, envVars, histVars
<1>1. ASSUME NEW r \in Reservation, SaveHold(r)
      PROVE  PaidIsSettled'
  BY <1>1 DEF SaveHold, HoldGoto, TypeOK, StepsAgree, PaidIsSettled
<1>2. ASSUME NEW h \in Handler, CheckoutCommit(h)
      PROVE  PaidIsSettled'
  BY <1>2
     DEF CheckoutCommit, Confirm, CountUse, SaleWindows, MissedSale, Goto, TypeOK,
         StepsAgree, PaidIsSettled
<1>3. ASSUME NEW h \in Handler, IpnSettle(h)
      PROVE  PaidIsSettled'
  BY <1>3
     DEF IpnSettle, Confirm, CountUse, SaleWindows, MissedSale, Goto, TypeOK,
         StepsAgree, PaidIsSettled
<1>4. ASSUME NEW h \in Handler, IpnDecline(h)
      PROVE  PaidIsSettled'
  BY <1>4 DEF IpnDecline, Goto, TypeOK, StepsAgree, PaidIsSettled
<1>5. ASSUME NEW h \in Handler, UrlSave(h)
      PROVE  PaidIsSettled'
  BY <1>5 DEF UrlSave, Goto, TypeOK, StepsAgree, PaidIsSettled
<1>6. ASSUME NEW h \in Handler, CancelSave(h)
      PROVE  PaidIsSettled'
  BY <1>6 DEF CancelSave, Goto, TypeOK, StepsAgree, PaidIsSettled
<1>7. ASSUME NEW r \in Reservation, ExpireSave(r)
      PROVE  PaidIsSettled'
  BY <1>7 DEF ExpireSave, MsgGoto, TypeOK, StepsAgree, PaidIsSettled
<1>8. CASE UNCHANGED <<payment, status>>
  BY <1>8 DEF PaidIsSettled
<1> DEFINE Still == UNCHANGED <<payment, status>>
           Listed == \/ \E r \in Reservation : SaveHold(r)
                     \/ \E h \in Handler : CheckoutCommit(h)
                     \/ \E h \in Handler : IpnSettle(h)
                     \/ \E h \in Handler : IpnDecline(h)
                     \/ \E h \in Handler : UrlSave(h)
                     \/ \E h \in Handler : CancelSave(h)
                     \/ \E r \in Reservation : ExpireSave(r)
<1>9. ASSUME Request
      PROVE  Still \/ Listed
  BY <1>9
     DEF Request, HoldCheck, CheckoutStart, Start, UrlStart, CancelStart, IpnStart
<1>10. ASSUME NEW r \in Reservation, HoldStep(r)
      PROVE  Still \/ Listed
  BY <1>10
     DEF HoldStep, HoldPrice, HoldGoto, AcquireSeat, Lock, ConflictSeat, Rollback,
         ReleaseLocks, StartSave, SendDelay, SendThrows, Undo
<1>11. ASSUME NEW r \in Reservation, BrokerStep(r) \/ ConsumerStep(r)
      PROVE  Still \/ Listed
  BY <1>11
     DEF ConsumerStep, BrokerStep, Enqueue, DeadLetter, MsgGoto, ExpireRead,
         ExpireRelease, ReleaseLocks
<1>12. ASSUME NEW h \in Handler, TaskStep(h)
      PROVE  Still \/ Listed
  BY <1>12
     DEF TaskStep, InsertDuplicate, Goto, UrlFind, ReleasePaid, ReleaseLocks,
         PublishTickets, ReleaseCancelled
<1>13. ASSUME Failure
      PROVE  Still \/ Listed
  BY <1>13
     DEF Failure, HoldFault, HoldGoto, Fault, ExpireFault, MsgGoto, AcquireRetried,
         Lock, TaskFault, Goto, BrokerCloses, Crash
<1>14. ASSUME Tick PROVE Still
  BY <1>14 DEF Tick
<1>15. Still \/ Listed
  BY <1>9, <1>10, <1>11, <1>12, <1>13, <1>14 DEF Next, vars
<1> QED
  BY <1>1, <1>2, <1>3, <1>4, <1>5, <1>6, <1>7, <1>8, <1>15

(* A step loses a channel only to "closed".                                *)
LEMMA ChannelStep == ChannelFromStart /\ [Next]_vars => ChannelFromStart'
<1> SUFFICES ASSUME ChannelFromStart, [Next]_vars PROVE ChannelFromStart'
  OBVIOUS
<1> USE BoundAssumption
    DEF HoldSteps, Statuses, MsgSteps, lockVars, holdVars, rowVars, payVars,
        dbVars, brokerVars, taskVars, envVars, histVars
<1>1. ASSUME BrokerCloses
      PROVE  ChannelFromStart'
  BY <1>1 DEF BrokerCloses, Fault, ChannelFromStart
<1>2. ASSUME Crash
      PROVE  ChannelFromStart'
  BY <1>2 DEF Crash, AfterRestart, Unsent, ChannelFromStart
<1>3. CASE UNCHANGED <<channel>>
  BY <1>3 DEF ChannelFromStart
<1> DEFINE Still == UNCHANGED <<channel>>
           Listed == \/ BrokerCloses
                     \/ Crash
<1>4. ASSUME Request
      PROVE  Still \/ Listed
  BY <1>4
     DEF Request, HoldCheck, CheckoutStart, Start, UrlStart, CancelStart, IpnStart
<1>5. ASSUME NEW r \in Reservation, HoldStep(r)
      PROVE  Still \/ Listed
  BY <1>5
     DEF HoldStep, HoldPrice, HoldGoto, AcquireSeat, Lock, ConflictSeat, Rollback,
         ReleaseLocks, StartSave, SaveHold, SendDelay, SendThrows, Undo
<1>6. ASSUME NEW r \in Reservation, BrokerStep(r) \/ ConsumerStep(r)
      PROVE  Still \/ Listed
  BY <1>6
     DEF ConsumerStep, BrokerStep, Enqueue, DeadLetter, MsgGoto, ExpireRead,
         ExpireSave, ExpireRelease, ReleaseLocks
<1>7. ASSUME NEW h \in Handler, TaskStep(h)
      PROVE  Still \/ Listed
  BY <1>7
     DEF TaskStep, CheckoutCommit, Confirm, CountUse, Goto, InsertDuplicate,
         IpnSettle, IpnDecline, UrlFind, UrlSave, ReleasePaid, ReleaseLocks,
         PublishTickets, CancelSave, ReleaseCancelled
<1>8. ASSUME Failure
      PROVE  Still \/ Listed
  BY <1>8
     DEF Failure, HoldFault, HoldGoto, Fault, ExpireFault, MsgGoto, AcquireRetried,
         Lock, TaskFault, Goto
<1>9. ASSUME Tick PROVE Still
  BY <1>9 DEF Tick
<1>10. Still \/ Listed
  BY <1>4, <1>5, <1>6, <1>7, <1>8, <1>9 DEF Next, vars
<1> QED
  BY <1>1, <1>2, <1>3, <1>10

(* A step loses no expiry message of an unpaid reservation, except in       *)
(* transit and by a fault.                                                 *)
LEMMA TimeoutStep ==
    /\ TypeOK /\ StepsAgree /\ ChannelFromStart /\ TimeoutNotLost
    /\ [Next]_vars
    => TimeoutNotLost'
<1> SUFFICES ASSUME TypeOK, StepsAgree, ChannelFromStart, TimeoutNotLost,
                    [Next]_vars
             PROVE  TimeoutNotLost'
  OBVIOUS
<1> USE TtlAssumption, BoundAssumption
    DEF HoldSteps, Statuses, MsgSteps, lockVars, holdVars, rowVars, payVars,
        dbVars, brokerVars, taskVars, envVars, histVars
<1>1. ASSUME NEW r \in Reservation, NEW S \in SUBSET Seat, NEW c \in Coupons, HoldCheck(r, S, c)
      PROVE  TimeoutNotLost'
  BY <1>1 DEF HoldCheck, Sold, TypeOK, StepsAgree, ChannelFromStart, TimeoutNotLost
<1>2. ASSUME NEW r \in Reservation, HoldPrice(r)
      PROVE  TimeoutNotLost'
  BY <1>2
     DEF HoldPrice, HoldGoto, TypeOK, StepsAgree, ChannelFromStart, TimeoutNotLost
<1>3. ASSUME NEW r \in Reservation, NEW s \in Seat, AcquireSeat(r, s)
      PROVE  TimeoutNotLost'
  BY <1>3
     DEF AcquireSeat, Free, Lock, Sold, TypeOK, StepsAgree, ChannelFromStart,
         TimeoutNotLost
<1>4. ASSUME NEW r \in Reservation, NEW s \in Seat, ConflictSeat(r, s)
      PROVE  TimeoutNotLost'
  BY <1>4
     DEF ConflictSeat, HoldGoto, TypeOK, StepsAgree, ChannelFromStart,
         TimeoutNotLost
<1>5. ASSUME NEW r \in Reservation, NEW s \in Seat, AcquireRetried(r, s)
      PROVE  TimeoutNotLost'
  BY <1>5
     DEF AcquireRetried, Free, Lock, HoldGoto, Fault, TypeOK, StepsAgree,
         ChannelFromStart, TimeoutNotLost
<1>6. ASSUME NEW r \in Reservation, Rollback(r)
      PROVE  TimeoutNotLost'
  BY <1>6
     DEF Rollback, HoldGoto, ReleaseLocks, ReleaseWindows, Foreign, TypeOK,
         StepsAgree, ChannelFromStart, TimeoutNotLost
<1>7. ASSUME NEW r \in Reservation, StartSave(r)
      PROVE  TimeoutNotLost'
  BY <1>7
     DEF StartSave, HoldGoto, PaymentWindow, TypeOK, StepsAgree, ChannelFromStart,
         TimeoutNotLost
<1>8. ASSUME NEW r \in Reservation, SaveHold(r)
      PROVE  TimeoutNotLost'
  BY <1>8
     DEF SaveHold, HoldGoto, TypeOK, StepsAgree, ChannelFromStart, TimeoutNotLost
<1>9. ASSUME NEW r \in Reservation, SendDelay(r)
      PROVE  TimeoutNotLost'
  BY <1>9
     DEF SendDelay, HoldGoto, TypeOK, StepsAgree, ChannelFromStart,
         TimeoutNotLost
<1>10. ASSUME NEW r \in Reservation, SendThrows(r)
      PROVE  TimeoutNotLost'
  BY <1>10
     DEF SendThrows, HoldGoto, TypeOK, StepsAgree, ChannelFromStart, TimeoutNotLost
<1>11. ASSUME NEW r \in Reservation, Undo(r)
      PROVE  TimeoutNotLost'
  BY <1>11
     DEF Undo, HoldGoto, ReleaseLocks, ReleaseWindows, Foreign, TypeOK, StepsAgree,
         ChannelFromStart, TimeoutNotLost
<1>12. ASSUME NEW r \in Reservation, HoldFault(r)
      PROVE  TimeoutNotLost'
  BY <1>12
     DEF HoldFault, HoldGoto, Fault, TypeOK, StepsAgree, ChannelFromStart,
         TimeoutNotLost
<1>13. ASSUME NEW h \in Handler, CheckoutCommit(h)
      PROVE  TimeoutNotLost'
  BY <1>13
     DEF CheckoutCommit, Confirm, CountUse, SaleWindows, MissedSale, Goto, TypeOK,
         StepsAgree, ChannelFromStart, TimeoutNotLost
<1>14. ASSUME NEW h \in Handler, IpnSettle(h)
      PROVE  TimeoutNotLost'
  BY <1>14
     DEF IpnSettle, Confirm, CountUse, SaleWindows, MissedSale, Goto, TypeOK,
         StepsAgree, ChannelFromStart, TimeoutNotLost
<1>15. ASSUME NEW h \in Handler, CancelSave(h)
      PROVE  TimeoutNotLost'
  BY <1>15
     DEF CancelSave, Goto, TypeOK, StepsAgree, ChannelFromStart, TimeoutNotLost
<1>16. ASSUME NEW r \in Reservation, DeadLetter(r)
      PROVE  TimeoutNotLost'
  BY <1>16
     DEF DeadLetter, MsgGoto, TypeOK, StepsAgree, ChannelFromStart, TimeoutNotLost
<1>17. ASSUME NEW r \in Reservation, ExpireRead(r)
      PROVE  TimeoutNotLost'
  BY <1>17
     DEF ExpireRead, MsgGoto, TypeOK, StepsAgree, ChannelFromStart, TimeoutNotLost
<1>18. ASSUME NEW r \in Reservation, ExpireSave(r)
      PROVE  TimeoutNotLost'
  BY <1>18
     DEF ExpireSave, MsgGoto, TypeOK, StepsAgree, ChannelFromStart, TimeoutNotLost
<1>19. ASSUME NEW r \in Reservation, ExpireRelease(r)
      PROVE  TimeoutNotLost'
  BY <1>19
     DEF ExpireRelease, MsgGoto, ReleaseLocks, ReleaseWindows, Foreign, SeatsOf,
         TypeOK, StepsAgree, ChannelFromStart, TimeoutNotLost
<1>20. ASSUME NEW r \in Reservation, ExpireFault(r)
      PROVE  TimeoutNotLost'
  BY <1>20
     DEF ExpireFault, MsgGoto, Fault, TypeOK, StepsAgree, ChannelFromStart,
         TimeoutNotLost
<1>21. ASSUME Crash
      PROVE  TimeoutNotLost'
  BY <1>21
     DEF Crash, AfterRestart, Unsent, TypeOK, StepsAgree, ChannelFromStart, TimeoutNotLost
<1>22. ASSUME NEW r \in Reservation, Enqueue(r)
      PROVE  TimeoutNotLost'
  BY <1>22 DEF Enqueue, TypeOK, StepsAgree, ChannelFromStart, TimeoutNotLost
<1>23. ASSUME NEW h \in Handler, TaskFault(h)
      PROVE  TimeoutNotLost'
  BY <1>23 DEF TaskFault, Goto, Fault, TypeOK, TimeoutNotLost
<1>24. ASSUME BrokerCloses
      PROVE  TimeoutNotLost'
  BY <1>24 DEF BrokerCloses, Unsent, Fault, TypeOK, TimeoutNotLost
<1>25. CASE UNCHANGED <<hold, status, msg, crashes, faults>>
  BY <1>25 DEF TimeoutNotLost
<1> DEFINE Still == UNCHANGED <<hold, status, msg, crashes, faults>>
           Listed == \/ \E r \in Reservation, S \in SUBSET Seat, c \in Coupons : HoldCheck(r, S, c)
                     \/ \E r \in Reservation : HoldPrice(r)
                     \/ \E r \in Reservation, s \in Seat : AcquireSeat(r, s)
                     \/ \E r \in Reservation, s \in Seat : ConflictSeat(r, s)
                     \/ \E r \in Reservation, s \in Seat : AcquireRetried(r, s)
                     \/ \E r \in Reservation : Rollback(r)
                     \/ \E r \in Reservation : StartSave(r)
                     \/ \E r \in Reservation : SaveHold(r)
                     \/ \E r \in Reservation : SendDelay(r)
                     \/ \E r \in Reservation : SendThrows(r)
                     \/ \E r \in Reservation : Undo(r)
                     \/ \E r \in Reservation : HoldFault(r)
                     \/ \E h \in Handler : CheckoutCommit(h)
                     \/ \E h \in Handler : IpnSettle(h)
                     \/ \E h \in Handler : CancelSave(h)
                     \/ \E r \in Reservation : Enqueue(r)
                     \/ \E r \in Reservation : DeadLetter(r)
                     \/ \E r \in Reservation : ExpireRead(r)
                     \/ \E r \in Reservation : ExpireSave(r)
                     \/ \E r \in Reservation : ExpireRelease(r)
                     \/ \E r \in Reservation : ExpireFault(r)
                     \/ \E h \in Handler : TaskFault(h)
                     \/ BrokerCloses
                     \/ Crash
<1>26. ASSUME Request
      PROVE  Still \/ Listed
  BY <1>26 DEF Request, CheckoutStart, Start, UrlStart, CancelStart, IpnStart
<1>27. ASSUME NEW r \in Reservation, HoldStep(r)
      PROVE  Still \/ Listed
  BY <1>27 DEF HoldStep
<1>28. ASSUME NEW r \in Reservation, BrokerStep(r) \/ ConsumerStep(r)
      PROVE  Still \/ Listed
  BY <1>28 DEF BrokerStep, ConsumerStep
<1>29. ASSUME NEW h \in Handler, TaskStep(h)
      PROVE  Still \/ Listed
  BY <1>29
     DEF TaskStep, InsertDuplicate, Goto, IpnDecline, UrlFind, UrlSave,
         ReleasePaid, ReleaseLocks, PublishTickets, ReleaseCancelled
<1>30. ASSUME Failure
      PROVE  Still \/ Listed
  BY <1>30 DEF Failure
<1>31. ASSUME Tick PROVE Still
  BY <1>31 DEF Tick
<1>32. Still \/ Listed
  BY <1>26, <1>27, <1>28, <1>29, <1>30, <1>31 DEF Next, vars
<1> QED
  BY <1>1, <1>2, <1>3, <1>4, <1>5, <1>6, <1>7, <1>8, <1>9, <1>10, <1>11, <1>12,
     <1>13, <1>14, <1>15, <1>16, <1>17, <1>18, <1>19, <1>20, <1>21, <1>22, <1>23, <1>24, <1>25,
     <1>32

(* A confirmation adds to the discount's users at most the reservation it  *)
(* counts.                                                                 *)
LEMMA ConfirmCounts ==
    ASSUME IsFiniteSet(Reservation), TypeOK, UsageNeverUndercounted,
           NEW r \in Reservation, Confirm(r)
    PROVE  UsageNeverUndercounted'
<1> DEFINE U == {q \in Reservation : coupon[q] /\ status[q] = "CONFIRMED"}
<1>1. coupon' = coupon /\ \A q \in Reservation \ {r} : status'[q] = status[q]
  BY DEF Confirm, holdVars, TypeOK
<1>2. IsFiniteSet(U) /\ Cardinality(U) \in Nat /\ usedCount \in Nat
  BY FS_Subset, FS_CardinalityType DEF TypeOK
<1>3. CASE coupon[r]
  <2>1. U' \subseteq U \cup {r}
    BY <1>1
  <2> HIDE DEF U
  <2>2. IsFiniteSet(U \cup {r}) /\ Cardinality(U \cup {r}) <= Cardinality(U) + 1
    <3>1. /\ IsFiniteSet(U \cup {r})
          /\ Cardinality(U \cup {r}) = IF r \in U THEN Cardinality(U) ELSE Cardinality(U) + 1
      BY ONLY <1>2, FS_AddElement
    <3> QED
      BY ONLY <1>2, <3>1
  <2>3. Cardinality(U') \in Nat /\ Cardinality(U') <= Cardinality(U \cup {r})
    BY <2>1, <2>2, FS_Subset, FS_CardinalityType
  <2>4. usedCount' = usedCount + 1
    BY <1>3 DEF Confirm, CountUse
  <2>5. Cardinality(U \cup {r}) \in Nat
    BY <2>2, FS_CardinalityType
  <2>6. usedCount >= Cardinality(U)
    BY DEF UsageNeverUndercounted, U
  <2>7. usedCount' >= Cardinality(U')
    BY <1>2, <2>2, <2>3, <2>4, <2>5, <2>6
  <2> QED
    BY <2>7 DEF UsageNeverUndercounted, U
<1>4. CASE ~coupon[r]
  <2>1. U' = U
    BY <1>1, <1>4
  <2>2. usedCount' = usedCount
    BY <1>4 DEF Confirm, CountUse
  <2> QED
    BY <2>1, <2>2 DEF UsageNeverUndercounted
<1> QED
  BY <1>3, <1>4

(* A step that confirms nothing adds no user to the discount.              *)
LEMMA FewerUsers ==
    ASSUME IsFiniteSet(Reservation), TypeOK, UsageNeverUndercounted,
           UNCHANGED usedCount,
           \A q \in Reservation : coupon'[q] /\ status'[q] = "CONFIRMED"
                                    => coupon[q] /\ status[q] = "CONFIRMED"
    PROVE  UsageNeverUndercounted'
<1> DEFINE U == {q \in Reservation : coupon[q] /\ status[q] = "CONFIRMED"}
<1>1. U' \subseteq U
  OBVIOUS
<1>2. IsFiniteSet(U)
  BY FS_Subset
<1>3. Cardinality(U') <= Cardinality(U) /\ Cardinality(U') \in Nat /\ Cardinality(U) \in Nat
  BY <1>1, <1>2, FS_Subset, FS_CardinalityType
<1>4. usedCount >= Cardinality(U) /\ usedCount \in Nat
  BY DEF UsageNeverUndercounted, TypeOK
<1> HIDE DEF U
<1>5. usedCount' >= Cardinality(U')
  BY <1>3, <1>4
<1> QED
  BY <1>5 DEF UsageNeverUndercounted, U

(* A step counts every user of the discount it adds.                       *)
LEMMA UsageStep ==
    /\ IsFiniteSet(Reservation) /\ TypeOK /\ StepsAgree
    /\ UsageNeverUndercounted /\ [Next]_vars
    => UsageNeverUndercounted'
<1> SUFFICES ASSUME IsFiniteSet(Reservation), TypeOK, StepsAgree,
                    UsageNeverUndercounted, [Next]_vars
             PROVE  UsageNeverUndercounted'
  OBVIOUS
<1> USE DEF HoldSteps, lockVars, holdVars, rowVars, payVars, dbVars, brokerVars,
        taskVars, envVars, histVars
<1>1. ASSUME NEW r \in Reservation, NEW S \in SUBSET Seat, NEW c \in Coupons, HoldCheck(r, S, c)
      PROVE  UsageNeverUndercounted'
  BY <1>1, FewerUsers DEF HoldCheck, TypeOK, StepsAgree
<1>2. ASSUME NEW r \in Reservation, SaveHold(r)
      PROVE  UsageNeverUndercounted'
  BY <1>2, FewerUsers DEF SaveHold, HoldGoto, TypeOK, StepsAgree
<1>3. ASSUME NEW h \in Handler, CheckoutCommit(h)
      PROVE  UsageNeverUndercounted'
  BY <1>3, ConfirmCounts DEF CheckoutCommit, TypeOK
<1>4. ASSUME NEW h \in Handler, IpnSettle(h)
      PROVE  UsageNeverUndercounted'
  BY <1>4, ConfirmCounts DEF IpnSettle, TypeOK
<1>5. ASSUME NEW h \in Handler, CancelSave(h)
      PROVE  UsageNeverUndercounted'
  BY <1>5, FewerUsers DEF CancelSave, TypeOK, StepsAgree
<1>6. ASSUME NEW r \in Reservation, ExpireSave(r)
      PROVE  UsageNeverUndercounted'
  BY <1>6, FewerUsers DEF ExpireSave, TypeOK, StepsAgree
<1>7. CASE UNCHANGED <<usedCount, coupon, status>>
  BY <1>7 DEF UsageNeverUndercounted
<1> DEFINE Still == UNCHANGED <<usedCount, coupon, status>>
           Listed == \/ \E r \in Reservation, S \in SUBSET Seat, c \in Coupons : HoldCheck(r, S, c)
                     \/ \E r \in Reservation : SaveHold(r)
                     \/ \E h \in Handler : CheckoutCommit(h)
                     \/ \E h \in Handler : IpnSettle(h)
                     \/ \E h \in Handler : CancelSave(h)
                     \/ \E r \in Reservation : ExpireSave(r)
<1>8. ASSUME Request
      PROVE  Still \/ Listed
  BY <1>8 DEF Request, CheckoutStart, Start, UrlStart, CancelStart, IpnStart
<1>9. ASSUME NEW r \in Reservation, HoldStep(r)
      PROVE  Still \/ Listed
  BY <1>9
     DEF HoldStep, HoldPrice, HoldGoto, AcquireSeat, Lock, ConflictSeat, Rollback,
         ReleaseLocks, StartSave, SendDelay, SendThrows, Undo
<1>10. ASSUME NEW r \in Reservation, BrokerStep(r) \/ ConsumerStep(r)
      PROVE  Still \/ Listed
  BY <1>10
     DEF ConsumerStep, BrokerStep, Enqueue, DeadLetter, MsgGoto, ExpireRead,
         ExpireRelease, ReleaseLocks
<1>11. ASSUME NEW h \in Handler, TaskStep(h)
      PROVE  Still \/ Listed
  BY <1>11
     DEF TaskStep, InsertDuplicate, Goto, IpnDecline, UrlFind, UrlSave,
         ReleasePaid, ReleaseLocks, PublishTickets, ReleaseCancelled
<1>12. ASSUME Failure
      PROVE  Still \/ Listed
  BY <1>12
     DEF Failure, HoldFault, HoldGoto, Fault, ExpireFault, MsgGoto, AcquireRetried,
         Lock, TaskFault, Goto, BrokerCloses, Crash
<1>13. ASSUME Tick PROVE Still
  BY <1>13 DEF Tick
<1>14. Still \/ Listed
  BY <1>8, <1>9, <1>10, <1>11, <1>12, <1>13 DEF Next, vars
<1> QED
  BY <1>1, <1>2, <1>3, <1>4, <1>5, <1>6, <1>7, <1>14

(* A step closes a channel only as a fault.                                *)
LEMMA ClosedStep ==
    TypeOK /\ ChannelClosedByFault /\ [Next]_vars => ChannelClosedByFault'
<1> SUFFICES ASSUME TypeOK, ChannelClosedByFault, [Next]_vars PROVE ChannelClosedByFault'
  OBVIOUS
<1> USE BoundAssumption
    DEF lockVars, holdVars, rowVars, payVars, dbVars, brokerVars, taskVars, envVars,
        histVars
<1>1. CASE Request
  BY <1>1
     DEF Request, HoldCheck, CheckoutStart, Start, UrlStart, CancelStart, IpnStart,
         TypeOK, ChannelClosedByFault
<1>2. CASE \E r \in Reservation : HoldStep(r) \/ BrokerStep(r) \/ ConsumerStep(r)
  BY <1>2
     DEF HoldStep, HoldPrice, HoldGoto, AcquireSeat, ConflictSeat, Rollback,
         StartSave, SaveHold, SendDelay, SendThrows, Undo, BrokerStep, Enqueue,
         DeadLetter, ConsumerStep, ExpireRead, ExpireSave, ExpireRelease, MsgGoto, TypeOK,
         ChannelClosedByFault
<1>3. CASE \E h \in Handler : TaskStep(h)
  BY <1>3
     DEF TaskStep, CheckoutCommit, Confirm, InsertDuplicate, IpnSettle,
         IpnDecline, UrlFind, UrlSave, ReleasePaid, PublishTickets,
         CancelSave, ReleaseCancelled, Goto, TypeOK, ChannelClosedByFault
<1>4. CASE Failure
  BY <1>4
     DEF Failure, HoldFault, HoldGoto, ExpireFault, MsgGoto, AcquireRetried,
         TaskFault, BrokerCloses, Fault, Crash, TypeOK, ChannelClosedByFault
<1>5. CASE Tick \/ UNCHANGED vars
  BY <1>5 DEF Tick, vars, TypeOK, ChannelClosedByFault
<1> QED
  BY <1>1, <1>2, <1>3, <1>4, <1>5 DEF Next

(* A step forgets no lock.  A key is set by its owner's own request, which  *)
(* then still has it in got; every step that ends a request's claim either *)
(* deletes all of its keys or is followed by a step that will.             *)
LEMMA AccountedStep ==
    TypeOK /\ StepsAgree /\ ChannelClosedByFault /\ LockAccounted /\ [Next]_vars
        => LockAccounted'
<1> SUFFICES ASSUME TypeOK, StepsAgree, ChannelClosedByFault, LockAccounted,
                    [Next]_vars, crashes' = 0, faults' = 0,
                    NEW q \in Reservation, NEW s \in Seat, owner'[s] = q
             PROVE  /\ s \in got'[q]
                    /\ \/ hold'[q] \in {"locking", "locked", "saving", "saved", "rollback"}
                       \/ hold'[q] = "done" /\ (status'[q] = "PENDING" \/ Releasing(q)')
  BY DEF LockAccounted
<1> DEFINE Busy == hold[q] \in {"locking", "locked", "saving", "saved", "rollback"}
           Kept == hold[q] = "done" /\ (status[q] = "PENDING" \/ Releasing(q))
           Goal == s \in got'[q] /\ (Busy' \/ Kept')
<1> USE NoneAssumption, BoundAssumption
    DEF HoldSteps, Statuses, MsgSteps, lockVars, holdVars, rowVars, payVars,
        dbVars, brokerVars, taskVars, envVars, histVars
<1>1. crashes = 0 /\ faults = 0
  <2>1. faults <= faults' /\ crashes <= crashes'
    <3>1. CASE Request
      BY <3>1 DEF Request, HoldCheck, CheckoutStart, Start, UrlStart, CancelStart, IpnStart, TypeOK
    <3>2. CASE \E r \in Reservation : HoldStep(r) \/ BrokerStep(r) \/ ConsumerStep(r)
      BY <3>2
         DEF HoldStep, HoldPrice, HoldGoto, AcquireSeat, ConflictSeat, Rollback,
             StartSave, SaveHold, SendDelay, SendThrows, Undo, BrokerStep, Enqueue,
             DeadLetter, ConsumerStep, ExpireRead, ExpireSave, ExpireRelease, MsgGoto, TypeOK
    <3>3. CASE \E h \in Handler : TaskStep(h)
      BY <3>3
         DEF TaskStep, CheckoutCommit, Confirm, InsertDuplicate, IpnSettle,
             IpnDecline, UrlFind, UrlSave, ReleasePaid, PublishTickets,
             CancelSave, ReleaseCancelled, Goto, TypeOK
    <3>4. CASE Failure
      BY <3>4
         DEF Failure, HoldFault, HoldGoto, ExpireFault, AcquireRetried, TaskFault,
             BrokerCloses, Fault, Crash, TypeOK
    <3>5. CASE Tick \/ UNCHANGED vars
      BY <3>5 DEF Tick, vars, TypeOK
    <3> QED
      BY <3>1, <3>2, <3>3, <3>4, <3>5 DEF Next
  <2> QED
    BY <2>1 DEF TypeOK
<1>2. owner[s] = q => s \in got[q] /\ (Busy \/ Kept)
  BY <1>1 DEF LockAccounted
<1>3. ASSUME NEW r \in Reservation, NEW S \in SUBSET Seat, NEW c \in Coupons, HoldCheck(r, S, c)
      PROVE  Goal
  BY <1>1, <1>2, <1>3 DEF HoldCheck, TypeOK, StepsAgree, Releasing
<1>4. ASSUME NEW r \in Reservation, HoldPrice(r) PROVE Goal
  BY <1>1, <1>2, <1>4 DEF HoldPrice, HoldGoto, TypeOK, StepsAgree, Releasing
<1>5. ASSUME NEW r \in Reservation, NEW x \in Seat, AcquireSeat(r, x) PROVE Goal
  BY <1>1, <1>2, <1>5 DEF AcquireSeat, Free, Lock, TypeOK, StepsAgree, Releasing
<1>6. ASSUME NEW r \in Reservation, NEW x \in Seat, ConflictSeat(r, x)
      PROVE  Goal
  BY <1>1, <1>2, <1>6 DEF ConflictSeat, HoldGoto, TypeOK, StepsAgree, Releasing
<1>7. ASSUME NEW r \in Reservation, Rollback(r) PROVE Goal
  BY <1>1, <1>2, <1>7 DEF Rollback, HoldGoto, ReleaseLocks, TypeOK, StepsAgree,
         Releasing
<1>8. ASSUME NEW r \in Reservation, StartSave(r) PROVE Goal
  BY <1>1, <1>2, <1>8 DEF StartSave, HoldGoto, TypeOK, StepsAgree, Releasing
<1>9. ASSUME NEW r \in Reservation, SaveHold(r) PROVE Goal
  BY <1>1, <1>2, <1>9 DEF SaveHold, HoldGoto, TypeOK, StepsAgree, Releasing
<1>10. ASSUME NEW r \in Reservation, SendDelay(r) PROVE Goal
  BY <1>1, <1>2, <1>10 DEF SendDelay, HoldGoto, TypeOK, StepsAgree, Releasing
<1>11. ASSUME NEW r \in Reservation, SendThrows(r) PROVE Goal
  BY <1>1, <1>2, <1>11 DEF SendThrows, HoldGoto, TypeOK, StepsAgree, Releasing,
         ChannelClosedByFault
<1>12. ASSUME NEW r \in Reservation, Undo(r) PROVE Goal
  BY <1>1, <1>2, <1>12 DEF Undo, HoldGoto, ReleaseLocks, TypeOK, StepsAgree,
         Releasing
<1>13. ASSUME NEW h \in Handler, NEW r \in Reservation, CheckoutStart(h, r)
      PROVE  Goal
  BY <1>1, <1>2, <1>13 DEF CheckoutStart, Start, TypeOK, StepsAgree, Releasing
<1>14. ASSUME NEW h \in Handler, NEW r \in Reservation, UrlStart(h, r)
      PROVE  Goal
  BY <1>1, <1>2, <1>14 DEF UrlStart, Start, TypeOK, StepsAgree, Releasing
<1>15. ASSUME NEW h \in Handler, NEW r \in Reservation, CancelStart(h, r)
      PROVE  Goal
  BY <1>1, <1>2, <1>15 DEF CancelStart, Start, TypeOK, StepsAgree, Releasing
<1>16. ASSUME NEW h \in Handler, NEW r \in Reservation, NEW b \in BOOLEAN, IpnStart(h, r, b)
      PROVE  Goal
  BY <1>1, <1>2, <1>16 DEF IpnStart, Start, TypeOK, StepsAgree, Releasing
<1>17. ASSUME NEW h \in Handler, CheckoutCommit(h) PROVE Goal
  BY <1>1, <1>2, <1>17 DEF CheckoutCommit, Confirm, Goto, TypeOK, StepsAgree,
         Releasing
<1>18. ASSUME NEW h \in Handler, InsertDuplicate(h) PROVE Goal
  BY <1>1, <1>2, <1>18 DEF InsertDuplicate, Goto, TypeOK, StepsAgree, Releasing
<1>19. ASSUME NEW h \in Handler, IpnSettle(h) PROVE Goal
  BY <1>1, <1>2, <1>19 DEF IpnSettle, Confirm, Goto, TypeOK, StepsAgree,
         Releasing
<1>20. ASSUME NEW h \in Handler, IpnDecline(h) PROVE Goal
  BY <1>1, <1>2, <1>20 DEF IpnDecline, Goto, TypeOK, StepsAgree, Releasing
<1>21. ASSUME NEW h \in Handler, UrlFind(h) PROVE Goal
  BY <1>1, <1>2, <1>21 DEF UrlFind, Goto, TypeOK, StepsAgree, Releasing
<1>22. ASSUME NEW h \in Handler, UrlSave(h) PROVE Goal
  BY <1>1, <1>2, <1>22 DEF UrlSave, Goto, TypeOK, StepsAgree, Releasing
<1>23. ASSUME NEW h \in Handler, ReleasePaid(h) PROVE Goal
  BY <1>1, <1>2, <1>23 DEF ReleasePaid, ReleaseLocks, SeatsOf, Goto, TypeOK,
         StepsAgree, Releasing
<1>24. ASSUME NEW h \in Handler, PublishTickets(h) PROVE Goal
  BY <1>1, <1>2, <1>24 DEF PublishTickets, Goto, TypeOK, StepsAgree, Releasing
<1>25. ASSUME NEW h \in Handler, CancelSave(h) PROVE Goal
  BY <1>1, <1>2, <1>25 DEF CancelSave, Goto, TypeOK, StepsAgree, Releasing
<1>26. ASSUME NEW h \in Handler, ReleaseCancelled(h) PROVE Goal
  BY <1>1, <1>2, <1>26 DEF ReleaseCancelled, ReleaseLocks, SeatsOf, Goto,
         TypeOK, StepsAgree, Releasing
<1>27. ASSUME NEW r \in Reservation, DeadLetter(r) PROVE Goal
  BY <1>1, <1>2, <1>27 DEF DeadLetter, MsgGoto, TypeOK, StepsAgree, Releasing
<1>28. ASSUME NEW r \in Reservation, ExpireRead(r) PROVE Goal
  BY <1>1, <1>2, <1>28 DEF ExpireRead, MsgGoto, TypeOK, StepsAgree, Releasing
<1>29. ASSUME NEW r \in Reservation, ExpireSave(r) PROVE Goal
  BY <1>1, <1>2, <1>29 DEF ExpireSave, MsgGoto, TypeOK, StepsAgree, Releasing
<1>30. ASSUME NEW r \in Reservation, ExpireRelease(r) PROVE Goal
  BY <1>1, <1>2, <1>30 DEF ExpireRelease, ReleaseLocks, SeatsOf, MsgGoto,
         TypeOK, StepsAgree, Releasing
<1>31. ASSUME NEW r \in Reservation, Enqueue(r) PROVE Goal
  BY <1>1, <1>2, <1>31 DEF Enqueue, TypeOK, StepsAgree, Releasing
<1>32. ASSUME Failure PROVE Goal
  BY <1>1, <1>32
     DEF Failure, HoldFault, HoldGoto, ExpireFault, AcquireRetried, TaskFault,
         BrokerCloses, Fault, Crash
<1>33. ASSUME Tick PROVE Goal
  BY <1>1, <1>2, <1>33 DEF Tick, TypeOK, Releasing
<1>34. ASSUME UNCHANGED vars PROVE Goal
  BY <1>1, <1>2, <1>34 DEF vars, Releasing
<1> HIDE DEF Goal
<1>35. ASSUME Request PROVE Goal
  BY <1>35, <1>3, <1>13, <1>14, <1>15, <1>16 DEF Request
<1>36. ASSUME \E r \in Reservation : HoldStep(r) PROVE Goal
  BY <1>36, <1>4, <1>5, <1>6, <1>7, <1>8, <1>9, <1>10, <1>11, <1>12 DEF HoldStep
<1>37. ASSUME \E r \in Reservation : BrokerStep(r) \/ ConsumerStep(r) PROVE Goal
  BY <1>37, <1>27, <1>31, <1>28, <1>29, <1>30 DEF BrokerStep, ConsumerStep
<1>38. ASSUME \E h \in Handler : TaskStep(h) PROVE Goal
  BY <1>38, <1>17, <1>18, <1>19, <1>20, <1>21, <1>22, <1>23, <1>24, <1>25, <1>26 DEF TaskStep
<1>39. Goal
  BY <1>32, <1>33, <1>34, <1>35, <1>36, <1>37, <1>38 DEF Next
<1> QED
  BY <1>39 DEF Goal

(* Every invariant holds at first.                                         *)
LEMMA InitInvariants ==
    Init => /\ TypeOK /\ StepsAgree /\ LocksAreOwned /\ SalesAreMissed
            /\ NoLiveLockOnSold /\ SoldOnceOutsideWindows /\ ExpiryAfterWindow
            /\ HoldNeverOutlivesDeadline /\ PaidIsSettled /\ ChannelFromStart /\ TimeoutNotLost
            /\ ChannelClosedByFault /\ LockAccounted
<1> SUFFICES ASSUME Init
             PROVE  /\ TypeOK /\ StepsAgree /\ LocksAreOwned /\ SalesAreMissed
                    /\ NoLiveLockOnSold /\ SoldOnceOutsideWindows /\ ExpiryAfterWindow
                    /\ HoldNeverOutlivesDeadline /\ PaidIsSettled /\ ChannelFromStart
                    /\ TimeoutNotLost /\ ChannelClosedByFault /\ LockAccounted
  OBVIOUS
<1> USE TtlAssumption, NoneAssumption, BoundAssumption DEF Init
<1>1. TypeOK
  BY DEF TypeOK, HoldSteps, Statuses, PaymentStatuses, MsgSteps, TaskSteps, Hazards
<1>2. StepsAgree
  BY DEF StepsAgree
<1>3. LocksAreOwned /\ SalesAreMissed /\ NoLiveLockOnSold /\ SoldOnceOutsideWindows
  BY DEF LocksAreOwned, SalesAreMissed, NoLiveLockOnSold, SoldOnceOutsideWindows,
         NoDoubleBooking
<1>4. ExpiryAfterWindow /\ PaidIsSettled
  BY DEF ExpiryAfterWindow, PaidIsSettled
<1>5. HoldNeverOutlivesDeadline
  BY DEF HoldNeverOutlivesDeadline
<1>6. ChannelFromStart /\ TimeoutNotLost
  BY DEF ChannelFromStart, TimeoutNotLost
<1>7. ChannelClosedByFault /\ LockAccounted
  BY DEF ChannelClosedByFault, LockAccounted
<1> QED
  BY <1>1, <1>2, <1>3, <1>4, <1>5, <1>6, <1>7

----------------------------------------------------------------------------
(* Theorems                                                                *)

(* Every variable keeps to the values the code gives it.                   *)
THEOREM TypeCorrect == Spec => []TypeOK
<1>1. Init => TypeOK
  BY InitInvariants
<1> QED
  BY <1>1, TypeOKStep, PTL DEF Spec

(* How far a request has come agrees with its locks, its rows and its      *)
(* message.                                                                *)
THEOREM StepsCorrect == Spec => []StepsAgree
<1>1. Init => StepsAgree
  BY InitInvariants
<1> QED
  BY <1>1, TypeCorrect, StepsAgreeStep, PTL DEF Spec

(* No double booking without one of the four hazards: the locks, the       *)
(* availability check and the expiry, in any number of requests on any     *)
(* number of seats, with any faults and restarts.                          *)
THEOREM SoldOnce == Spec => []SoldOnceOutsideWindows
<1> DEFINE IInv == /\ LocksAreOwned /\ SalesAreMissed
                   /\ NoLiveLockOnSold /\ SoldOnceOutsideWindows
<1>1. Init => IInv
  BY InitInvariants
<1>2. TypeOK /\ StepsAgree /\ IInv /\ [Next]_vars => IInv'
  BY LocksAreOwnedStep, SalesAreMissedStep, SoldStep
<1>3. IInv => SoldOnceOutsideWindows
  OBVIOUS
<1> HIDE DEF IInv
<1> QED
  BY <1>1, <1>2, <1>3, TypeCorrect, StepsCorrect, PTL DEF Spec

(* The consumer never expires a reservation within its payment window.     *)
THEOREM ExpiredInTime == Spec => []NeverExpiredEarly
<1>1. Init => ExpiryAfterWindow
  BY InitInvariants
<1>2. Spec => []ExpiryAfterWindow
  BY <1>1, TypeCorrect, StepsCorrect, ExpiryStep, PTL DEF Spec
<1>3. ExpiryAfterWindow => NeverExpiredEarly
  BY DEF ExpiryAfterWindow, NeverExpiredEarly
<1> QED
  BY <1>2, <1>3, PTL

(* No lock outlives the deadline of the reservation that holds it.         *)
THEOREM NoLockPastDeadline == Spec => []HoldNeverOutlivesDeadline
<1>1. Init => HoldNeverOutlivesDeadline
  BY InitInvariants
<1> QED
  BY <1>1, TypeCorrect, OutlivesStep, PTL DEF Spec

(* Without faults and restarts no path forgets a lock.                     *)
THEOREM LocksAccounted == Spec => []LockAccounted
<1>1. Init => ChannelClosedByFault /\ LockAccounted
  BY InitInvariants
<1> QED
  BY <1>1, TypeCorrect, StepsCorrect, ClosedStep, AccountedStep, PTL DEF Spec

(* A successful payment is never found on an unpaid reservation.           *)
THEOREM PaidSettled == Spec => []PaidIsSettled
<1>1. Init => PaidIsSettled
  BY InitInvariants
<1> QED
  BY <1>1, TypeCorrect, StepsCorrect, PaidStep, PTL DEF Spec

(* No restart, redelivery or exception loses the expiry message of an      *)
(* unpaid reservation, except one that is still in transit when the        *)
(* connection breaks or the application stops.                             *)
THEOREM TimeoutKept == Spec => []TimeoutNotLost
<1>1. Init => ChannelFromStart /\ TimeoutNotLost
  BY InitInvariants
<1> QED
  BY <1>1, TypeCorrect, StepsCorrect, ChannelStep, TimeoutStep, PTL DEF Spec

(* usedCount is never below the number of confirmed users of the discount. *)
THEOREM UsageCounted ==
    ASSUME IsFiniteSet(Reservation)
    PROVE  Spec => []UsageNeverUndercounted
<1>1. Init => UsageNeverUndercounted
  <2> SUFFICES ASSUME Init PROVE UsageNeverUndercounted
    OBVIOUS
  <2>1. {r \in Reservation : coupon[r] /\ status[r] = "CONFIRMED"} = {}
    BY DEF Init
  <2> QED
    BY <2>1, FS_EmptySet DEF Init, UsageNeverUndercounted
<1>2. TypeOK /\ StepsAgree /\ UsageNeverUndercounted /\ [Next]_vars => UsageNeverUndercounted'
  BY UsageStep
<1> QED
  BY <1>1, <1>2, TypeCorrect, StepsCorrect, PTL DEF Spec
=============================================================================
