------------------------- MODULE BookingSalesProofs -------------------------
(***************************************************************************)
(* Booking implements SeatSales, for any number of reservations, seats,    *)
(* requests, faults and restarts: each step of the booking flow is a step  *)
(* of the abstract sale or leaves its variables alone.                     *)
(***************************************************************************)
EXTENDS BookingSales, BookingProofs

(* A step the abstract sale does not see.                                  *)
Unseen == UNCHANGED <<want, Holds, Bought, Phase, windows = {}>>

(* Releases end the holds on the seats whose keys are deleted.             *)
LEMMA ReleaseLetsGo ==
    ASSUME TypeOK, NEW r \in Reservation, NEW S \in SUBSET Seat, ReleaseLocks(r, S),
           UNCHANGED <<want, got, status>>, windows' = {}
    PROVE  Sales!LetGo(S)
<1>1. windows = {}
  BY DEF ReleaseLocks
<1>2. Holds' = [q \in Reservation |-> Holds[q] \ S]
  BY NoneAssumption DEF Holds, ReleaseLocks, TypeOK
<1>3. UNCHANGED <<Bought, Phase>>
  BY DEF Bought, Phase
<1> QED
  BY <1>1, <1>2, <1>3 DEF Sales!LetGo

(* A sale is made once, of all the seats asked for, which are all held; a  *)
(* confirmation that is repeated changes nothing.                          *)
LEMMA ConfirmSells ==
    ASSUME TypeOK, StepsAgree, LocksAreOwned,
           NEW r \in Reservation, hold[r] = "done", Confirm(r), windows' = {}
    PROVE  Sales!Sell(r) \/ Unseen
<1>1. /\ windows = {} /\ SaleWindows(r) = {}
      /\ UNCHANGED <<owner, want, got>>
  BY DEF Confirm, lockVars, holdVars
<1>2. status' = [status EXCEPT ![r] = "CONFIRMED"]
  BY DEF Confirm
<1>3. UNCHANGED Holds
  BY <1>1 DEF Holds
<1>4. CASE status[r] = "CONFIRMED"
  <2>1. status' = status
    BY <1>2, <1>4 DEF TypeOK
  <2> QED
    BY <1>1, <1>3, <2>1 DEF Unseen, Bought, Phase
<1>5. CASE status[r] # "CONFIRMED"
  <2>1. Alive(r) /\ got[r] = want[r]
    BY <1>1, <1>5, FreshSaleIsAlive
  <2>2. Holds[r] = want[r]
    BY <1>1, <2>1 DEF Holds, LocksAreOwned, TypeOK
  <2>3. status[r] \in {"NONE", "PENDING"}
    <3>1. status[r] \in {"CANCELLED", "EXPIRED"} => "late_settlement" \in SaleWindows(r)
      BY DEF SaleWindows
    <3> QED
      BY <1>1, <1>5, <3>1 DEF TypeOK, Statuses
  <2>4. Bought' = [Bought EXCEPT ![r] = want[r]]
    BY <1>1, <1>2 DEF Bought, TypeOK
  <2>5. Phase[r] = "open" /\ Phase' = [Phase EXCEPT ![r] = "sold"]
    BY <1>2, <2>3 DEF Phase, TypeOK
  <2> QED
    BY <1>1, <1>3, <2>2, <2>4, <2>5 DEF Sales!Sell
<1> QED
  BY <1>4, <1>5

(* A reservation that is cancelled or expires is over, if it was not so    *)
(* before, and has given its seats back.                                   *)
LEMMA EndCloses ==
    ASSUME TypeOK, NEW r \in Reservation, NEW e \in {"CANCELLED", "EXPIRED"},
           status' = [status EXCEPT ![r] = e],
           UNCHANGED <<owner, want, got, windows>>
    PROVE  Sales!Close(r) \/ Unseen
<1>1. UNCHANGED Holds
  BY DEF Holds
<1>2. CASE status[r] \in {"CANCELLED", "EXPIRED"}
  BY <1>1, <1>2 DEF Unseen, Bought, Phase, TypeOK
<1>3. CASE status[r] \notin {"CANCELLED", "EXPIRED"}
  <2>1. Phase[r] # "over" /\ Phase' = [Phase EXCEPT ![r] = "over"]
    BY <1>3 DEF Phase, TypeOK, Statuses
  <2>2. Bought' = [Bought EXCEPT ![r] = {}]
    BY DEF Bought, TypeOK
  <2> QED
    BY <1>1, <2>1, <2>2 DEF Sales!Close
<1> QED
  BY <1>2, <1>3

(* A step of the booking flow is a step of the abstract sale.              *)
LEMMA SalesStep ==
    /\ TypeOK /\ StepsAgree /\ LocksAreOwned /\ SalesAreMissed /\ [Next]_vars
    => [Sales!Next]_(Sales!salesVars)
<1> SUFFICES ASSUME TypeOK, StepsAgree, LocksAreOwned, SalesAreMissed, [Next]_vars,
                    windows' = {}
             PROVE  Sales!Next \/ Unseen
  BY DEF Sales!Next, Sales!Waive, Sales!salesVars, Unseen
<1> USE DEF lockVars, holdVars, rowVars, payVars, dbVars, brokerVars, taskVars, envVars,
            histVars
<1>1. ASSUME NEW r \in Reservation, NEW S \in SUBSET Seat, NEW c \in Coupons,
             HoldCheck(r, S, c)
      PROVE  Sales!Ask(r, S)
  <2>1. Phase[r] = "open" /\ Holds[r] = {}
    BY <1>1 DEF HoldCheck, StepsAgree, Phase, Holds
  <2>2. \A s \in S : ~Sales!SoldSeat(s)
    BY <1>1 DEF HoldCheck, Sold, Sales!SoldSeat, Bought
  <2>3. UNCHANGED <<owner, got, status, windows>> /\ want' = [want EXCEPT ![r] = S]
    BY <1>1 DEF HoldCheck
  <2>4. UNCHANGED <<Holds, Phase>>
    BY <2>3 DEF Holds, Phase
  <2>5. UNCHANGED Bought
    BY <1>1, <2>3 DEF HoldCheck, StepsAgree, Bought, TypeOK
  <2> QED
    BY <2>1, <2>2, <2>3, <2>4, <2>5 DEF Sales!Ask
<1>2. ASSUME NEW r \in Reservation, NEW s \in Seat, AcquireSeat(r, s)
      PROVE  Sales!Hold(r, s)
  <2>1. windows = {} /\ ~(Sold(s) /\ s \in missed[r])
    BY <1>2 DEF AcquireSeat
  <2>2. hold[r] = "locking" /\ s \in want[r] \ got[r] /\ owner[s] = None
    BY <1>2 DEF AcquireSeat, Free
  <2>3. Phase[r] = "open" /\ s \in want[r]
    BY <2>2 DEF StepsAgree, Phase
  <2>4. ~Sales!SoldSeat(s)
    BY <2>1, <2>2 DEF SalesAreMissed, Sold, Sales!SoldSeat, Bought
  <2>5. ~Sales!HeldSeat(s)
    BY <2>2, NoneAssumption DEF Sales!HeldSeat, Holds
  <2>6. Holds' = [Holds EXCEPT ![r] = @ \cup {s}]
    <3>1. /\ owner' = [owner EXCEPT ![s] = r]
          /\ got' = [got EXCEPT ![r] = @ \cup {s}]
      BY <1>2 DEF AcquireSeat, Lock
    <3>2. ASSUME NEW q \in Reservation
          PROVE  Holds'[q] = IF q = r THEN Holds[q] \cup {s} ELSE Holds[q]
      BY <2>2, <3>1, NoneAssumption DEF Holds, TypeOK
    <3> QED
      BY <3>2 DEF Holds
  <2>7. UNCHANGED <<want, Bought, Phase>>
    BY <1>2 DEF AcquireSeat, Bought, Phase
  <2> QED
    BY <2>1, <2>3, <2>4, <2>5, <2>6, <2>7 DEF Sales!Hold
<1>3. ASSUME NEW r \in Reservation, NEW s \in Seat, AcquireRetried(r, s)
      PROVE  Unseen
  <2>1. UNCHANGED <<want, got, status, windows>>
    BY <1>3 DEF AcquireRetried, HoldGoto
  <2>2. UNCHANGED Holds
    BY <1>3, <2>1, NoneAssumption DEF AcquireRetried, Free, Lock, Holds, TypeOK
  <2> QED
    BY <2>1, <2>2 DEF Unseen, Bought, Phase
<1>4. ASSUME NEW r \in Reservation, Rollback(r)
      PROVE  Sales!LetGo(got[r])
  BY <1>4, ReleaseLetsGo DEF Rollback, HoldGoto, TypeOK
<1>5. ASSUME NEW r \in Reservation, Undo(r)
      PROVE  Sales!LetGo(want[r])
  BY <1>5, ReleaseLetsGo DEF Undo, HoldGoto, TypeOK
<1>6. ASSUME NEW r \in Reservation, SaveHold(r)
      PROVE  Unseen
  <2>1. status[r] = "NONE" /\ status' = [status EXCEPT ![r] = "PENDING"]
    BY <1>6 DEF SaveHold, StepsAgree, HoldSteps
  <2>2. UNCHANGED <<owner, want, got, windows>>
    BY <1>6 DEF SaveHold, HoldGoto
  <2> QED
    BY <2>1, <2>2 DEF Unseen, Holds, Bought, Phase, TypeOK
<1>7. ASSUME NEW h \in Handler, CheckoutCommit(h) \/ IpnSettle(h)
      PROVE  Sales!Sell(target[h]) \/ Unseen
  <2>1. target[h] \in Reservation /\ hold[target[h]] = "done" /\ Confirm(target[h])
    BY <1>7 DEF CheckoutCommit, IpnSettle, TypeOK, StepsAgree
  <2> QED
    BY <2>1, ConfirmSells
<1>8. ASSUME NEW h \in Handler, ReleasePaid(h) \/ ReleaseCancelled(h)
      PROVE  Sales!LetGo(want[target[h]])
  <2>1. target[h] \in Reservation
    BY <1>8 DEF ReleasePaid, ReleaseCancelled, TypeOK
  <2> QED
    BY <1>8, <2>1, ReleaseLetsGo DEF ReleasePaid, ReleaseCancelled, SeatsOf, TypeOK
<1>9. ASSUME NEW h \in Handler, CancelSave(h)
      PROVE  Sales!Close(target[h]) \/ Unseen
  <2>1. target[h] \in Reservation
    BY <1>9 DEF CancelSave, TypeOK
  <2> QED
    BY <1>9, <2>1, EndCloses DEF CancelSave
<1>10. ASSUME NEW r \in Reservation, ExpireSave(r)
      PROVE  Sales!Close(r) \/ Unseen
  BY <1>10, EndCloses DEF ExpireSave
<1>11. ASSUME NEW r \in Reservation, ExpireRelease(r)
      PROVE  Sales!LetGo(want[r])
  BY <1>11, ReleaseLetsGo DEF ExpireRelease, SeatsOf, TypeOK
<1>12. ASSUME Tick
      PROVE  Sales!LetGo({s \in Seat : ttl[s] = 1})
  <2>1. UNCHANGED <<want, got, status, windows>>
    BY <1>12 DEF Tick
  <2>2. Holds' = [q \in Reservation |-> Holds[q] \ {s \in Seat : ttl[s] = 1}]
    BY <1>12, <2>1, NoneAssumption DEF Tick, Holds, TypeOK
  <2> QED
    BY <2>1, <2>2 DEF Sales!LetGo, Bought, Phase
<1> DEFINE Still == UNCHANGED <<owner, want, got, status, windows>>
           Seen == \/ \E r \in Reservation, S \in SUBSET Seat, c \in Coupons : HoldCheck(r, S, c)
                   \/ \E r \in Reservation, s \in Seat : AcquireSeat(r, s) \/ AcquireRetried(r, s)
                   \/ \E r \in Reservation : \/ Rollback(r) \/ Undo(r) \/ SaveHold(r)
                                              \/ ExpireSave(r) \/ ExpireRelease(r)
                   \/ \E h \in Handler : \/ CheckoutCommit(h) \/ IpnSettle(h)
                                         \/ ReleasePaid(h) \/ ReleaseCancelled(h)
                                         \/ CancelSave(h)
                   \/ Tick
<1>13. Still => Unseen
  BY DEF Unseen, Holds, Bought, Phase
<1>14. ASSUME Request
      PROVE  Still \/ Seen
  BY <1>14 DEF Request, CheckoutStart, Start, UrlStart, CancelStart, IpnStart
<1>15. ASSUME NEW r \in Reservation, HoldStep(r)
      PROVE  Still \/ Seen
  BY <1>15 DEF HoldStep, HoldPrice, HoldGoto, ConflictSeat, StartSave, SendDelay, SendThrows
<1>16. ASSUME NEW r \in Reservation, BrokerStep(r) \/ ConsumerStep(r)
      PROVE  Still \/ Seen
  BY <1>16 DEF BrokerStep, Enqueue, ConsumerStep, DeadLetter, MsgGoto, ExpireRead
<1>17. ASSUME NEW h \in Handler, TaskStep(h)
      PROVE  Still \/ Seen
  BY <1>17
     DEF TaskStep, InsertDuplicate, Goto, IpnDecline, UrlFind, UrlSave, PublishTickets
<1>18. ASSUME Failure
      PROVE  Still \/ Seen
  BY <1>18
     DEF Failure, HoldFault, HoldGoto, Fault, ExpireFault, MsgGoto, TaskFault, Goto,
         BrokerCloses, Crash
<1>19. Still \/ Seen
  BY <1>14, <1>15, <1>16, <1>17, <1>18 DEF Next, vars
<1>20. \A r \in Reservation : want[r] \in SUBSET Seat /\ got[r] \in SUBSET Seat
  BY DEF TypeOK
<1>21. ASSUME NEW h \in Handler, pc[h] # "idle"
      PROVE  target[h] \in Reservation /\ want[target[h]] \in SUBSET Seat
  BY <1>21 DEF TypeOK
<1>22. ASSUME NEW h \in Handler,
             \/ CheckoutCommit(h) \/ IpnSettle(h) \/ ReleasePaid(h)
             \/ ReleaseCancelled(h) \/ CancelSave(h)
      PROVE  Sales!Next \/ Unseen
  <2>1. pc[h] # "idle"
    BY <1>22 DEF CheckoutCommit, IpnSettle, ReleasePaid, ReleaseCancelled, CancelSave
  <2> QED
    BY <1>7, <1>8, <1>9, <1>21, <1>22, <2>1 DEF Sales!Next
<1>23. ASSUME NEW r \in Reservation,
             \/ Rollback(r) \/ Undo(r) \/ SaveHold(r) \/ ExpireSave(r) \/ ExpireRelease(r)
      PROVE  Sales!Next \/ Unseen
  BY <1>4, <1>5, <1>6, <1>10, <1>11, <1>20, <1>23 DEF Sales!Next
<1>24. Tick => Sales!Next
  BY <1>12 DEF Sales!Next
<1>25. Seen => Sales!Next \/ Unseen
  BY <1>1, <1>2, <1>3, <1>22, <1>23, <1>24 DEF Sales!Next
<1> QED
  BY <1>13, <1>19, <1>25

(* The booking flow implements the abstract sale.                          *)
THEOREM BookingImplementsSales == Spec => ImplementsSeatSales
<1> DEFINE IInv == /\ LocksAreOwned /\ SalesAreMissed
                   /\ NoLiveLockOnSold /\ SoldOnceOutsideWindows
<1>1. Init => Sales!Init
  BY DEF Init, Sales!Init, Holds, Bought, Phase
<1>2. Init => IInv
  BY InitInvariants
<1>3. TypeOK /\ StepsAgree /\ IInv /\ [Next]_vars => IInv'
  BY LocksAreOwnedStep, SalesAreMissedStep, SoldStep
<1>4. TypeOK /\ StepsAgree /\ IInv /\ [Next]_vars => [Sales!Next]_(Sales!salesVars)
  BY SalesStep
<1> HIDE DEF IInv
<1> QED
  BY <1>1, <1>2, <1>3, <1>4, TypeCorrect, StepsCorrect, PTL
     DEF Spec, ImplementsSeatSales, Sales!Spec
=============================================================================
