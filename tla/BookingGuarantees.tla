--------------------------- MODULE BookingGuarantees ---------------------------
(***************************************************************************)
(* What does hold beside the promises that fail, and what the liveness     *)
(* properties rest on, for any number of reservations, seats and requests, *)
(* any times to live and any number of faults and restarts.                *)
(*                                                                         *)
(* The lemmas up to the first theorem say which step changes a column, a   *)
(* request or a message, and how; the rest is derived from them.           *)
(***************************************************************************)
EXTENDS BookingProofs

(* A reservation's status is written by its hold, by a payment that is     *)
(* committed, by a cancellation and by the consumer that has read it.      *)
LEMMA StatusChanges ==
    ASSUME TypeOK, StepsAgree, [Next]_vars, NEW r \in Reservation, status'[r] # status[r]
    PROVE  \/ hold[r] = "saving" /\ status'[r] = "PENDING"
           \/ status'[r] = "CONFIRMED" /\ \E h \in Handler :
                 target[h] = r /\ pc[h] \in {"pay", "settle"} /\ pc'[h] = "release_paid"
                 /\ target'[h] = r
           \/ status'[r] = "CANCELLED" /\ hold[r] = "done"
           \/ status'[r] = "EXPIRED" /\ msg[r] = "expiring" /\ msg'[r] = "releasing"
<1> USE DEF lockVars, holdVars, rowVars, payVars, dbVars, brokerVars, taskVars, envVars,
            histVars
<1> DEFINE Goal == \/ hold[r] = "saving" /\ status'[r] = "PENDING"
                   \/ status'[r] = "CONFIRMED" /\ \E h \in Handler :
                         target[h] = r /\ pc[h] \in {"pay", "settle"}
                         /\ pc'[h] = "release_paid" /\ target'[h] = r
                   \/ status'[r] = "CANCELLED" /\ hold[r] = "done"
                   \/ status'[r] = "EXPIRED" /\ msg[r] = "expiring" /\ msg'[r] = "releasing"
           Still == UNCHANGED status
           Listed == \/ \E q \in Reservation : SaveHold(q) \/ ExpireSave(q)
                     \/ \E h \in Handler : CheckoutCommit(h) \/ IpnSettle(h) \/ CancelSave(h)
<1>1. ASSUME NEW q \in Reservation, SaveHold(q) PROVE Goal
  BY <1>1 DEF SaveHold, TypeOK
<1>2. ASSUME NEW h \in Handler, CheckoutCommit(h) \/ IpnSettle(h) PROVE Goal
  <2>1. /\ target[h] = r /\ status'[r] = "CONFIRMED" /\ pc[h] \in {"pay", "settle"}
        /\ pc'[h] = "release_paid" /\ target'[h] = r
    BY <1>2 DEF CheckoutCommit, IpnSettle, Confirm, Goto, TypeOK
  <2> QED
    BY <2>1
<1>3. ASSUME NEW h \in Handler, CancelSave(h) PROVE Goal
  BY <1>3 DEF CancelSave, Goto, TypeOK, StepsAgree
<1>4. ASSUME NEW q \in Reservation, ExpireSave(q) PROVE Goal
  BY <1>4 DEF ExpireSave, MsgGoto, TypeOK
<1>5. Request => Still
  BY DEF Request, HoldCheck, CheckoutStart, Start, UrlStart, CancelStart, IpnStart
<1>6. ASSUME NEW q \in Reservation, HoldStep(q) PROVE Still \/ Listed
  BY <1>6 DEF HoldStep, HoldPrice, HoldGoto, AcquireSeat, ConflictSeat, Rollback,
              StartSave, SendDelay, SendThrows, Undo
<1>7. ASSUME NEW q \in Reservation, BrokerStep(q) \/ ConsumerStep(q) PROVE Still \/ Listed
  BY <1>7 DEF BrokerStep, Enqueue, DeadLetter, ConsumerStep, ExpireRead, ExpireRelease
<1>8. ASSUME NEW h \in Handler, TaskStep(h) PROVE Still \/ Listed
  BY <1>8 DEF TaskStep, InsertDuplicate, IpnDecline, UrlFind, UrlSave, ReleasePaid,
              PublishTickets, ReleaseCancelled
<1>9. Failure => Still
  BY DEF Failure, HoldFault, ExpireFault, AcquireRetried, TaskFault, BrokerCloses, Crash
<1>10. Tick => Still
  BY DEF Tick
<1>11. Still \/ Listed
  BY <1>5, <1>6, <1>7, <1>8, <1>9, <1>10 DEF Next, vars
<1> QED
  BY <1>1, <1>2, <1>3, <1>4, <1>11

(* A message moves on one step at a time; a fault or a restart keeps it    *)
(* from the consumer or gives it back.                                     *)
LEMMA MessageChanges ==
    ASSUME TypeOK, StepsAgree, [Next]_vars, NEW r \in Reservation, msg'[r] # msg[r]
    PROVE  \/ hold[r] = "saved" /\ msg'[r] = "buffered"
           \/ msg[r] = "buffered" /\ msg'[r] = "delayed"
           \/ msg[r] = "buffered" /\ msg'[r] = "lost" /\ (crashes' # crashes \/ faults' # faults)
           \/ msg[r] = "delayed" /\ delayLeft[r] = 0 /\ msg'[r] = "expired"
           \/ msg[r] = "expired" /\ status[r] = "PENDING" /\ msg'[r] = "expiring"
           \/ msg[r] = "expired" /\ status[r] # "PENDING" /\ msg'[r] = "acked"
           \/ msg[r] = "expiring" /\ status'[r] = "EXPIRED" /\ msg'[r] = "releasing"
           \/ msg[r] = "releasing" /\ msg'[r] \in {"acked", "expired"}
           \/ msg'[r] = "stuck" /\ faults' # faults
           \/ msg'[r] = "expired" /\ crashes' # crashes
<1> USE DEF lockVars, holdVars, rowVars, payVars, dbVars, brokerVars, taskVars, envVars,
            histVars
<1> DEFINE Goal ==
             \/ hold[r] = "saved" /\ msg'[r] = "buffered"
             \/ msg[r] = "buffered" /\ msg'[r] = "delayed"
             \/ msg[r] = "buffered" /\ msg'[r] = "lost" /\ (crashes' # crashes \/ faults' # faults)
             \/ msg[r] = "delayed" /\ delayLeft[r] = 0 /\ msg'[r] = "expired"
             \/ msg[r] = "expired" /\ status[r] = "PENDING" /\ msg'[r] = "expiring"
             \/ msg[r] = "expired" /\ status[r] # "PENDING" /\ msg'[r] = "acked"
             \/ msg[r] = "expiring" /\ status'[r] = "EXPIRED" /\ msg'[r] = "releasing"
             \/ msg[r] = "releasing" /\ msg'[r] \in {"acked", "expired"}
             \/ msg'[r] = "stuck" /\ faults' # faults
             \/ msg'[r] = "expired" /\ crashes' # crashes
           Still == UNCHANGED msg
           Listed == \/ \E q \in Reservation : \/ SendDelay(q) \/ Enqueue(q) \/ DeadLetter(q)
                                               \/ ExpireRead(q) \/ ExpireSave(q)
                                               \/ ExpireRelease(q) \/ ExpireFault(q)
                     \/ BrokerCloses
                     \/ Crash
<1>1. ASSUME NEW q \in Reservation, SendDelay(q) PROVE Goal
  BY <1>1 DEF SendDelay, TypeOK
<1>2. ASSUME NEW q \in Reservation, DeadLetter(q) PROVE Goal
  BY <1>2 DEF DeadLetter, MsgGoto, TypeOK
<1>3. ASSUME NEW q \in Reservation, ExpireRead(q) PROVE Goal
  BY <1>3 DEF ExpireRead, MsgGoto, TypeOK
<1>4. ASSUME NEW q \in Reservation, ExpireSave(q) PROVE Goal
  BY <1>4 DEF ExpireSave, MsgGoto, TypeOK
<1>5. ASSUME NEW q \in Reservation, ExpireRelease(q) PROVE Goal
  BY <1>5 DEF ExpireRelease, MsgGoto, TypeOK
<1>6. ASSUME NEW q \in Reservation, ExpireFault(q) PROVE Goal
  BY <1>6 DEF ExpireFault, MsgGoto, Fault, TypeOK
<1>7. ASSUME Crash PROVE Goal
  <2>1. crashes' # crashes
    BY <1>7, BoundAssumption DEF Crash, TypeOK
  <2> QED
    BY <1>7, <2>1 DEF Crash, AfterRestart, Unsent, TypeOK
<1>8. ASSUME NEW q \in Reservation, Enqueue(q) PROVE Goal
  BY <1>8 DEF Enqueue, TypeOK
<1>9. ASSUME BrokerCloses PROVE Goal
  <2>1. faults' # faults
    BY <1>9, BoundAssumption DEF BrokerCloses, Fault, TypeOK
  <2> QED
    BY <1>9, <2>1 DEF BrokerCloses, Unsent, TypeOK
<1>10. Request => Still
  BY DEF Request, HoldCheck, CheckoutStart, Start, UrlStart, CancelStart, IpnStart
<1>11. ASSUME NEW q \in Reservation, HoldStep(q) PROVE Still \/ Listed
  BY <1>11 DEF HoldStep, HoldPrice, HoldGoto, AcquireSeat, ConflictSeat, Rollback,
              StartSave, SaveHold, SendThrows, Undo
<1>12. ASSUME NEW q \in Reservation, BrokerStep(q) \/ ConsumerStep(q) PROVE Still \/ Listed
  BY <1>12 DEF BrokerStep, ConsumerStep
<1>13. ASSUME NEW h \in Handler, TaskStep(h) PROVE Still
  BY <1>13 DEF TaskStep, CheckoutCommit, Confirm, InsertDuplicate, IpnSettle, IpnDecline,
               UrlFind, UrlSave, ReleasePaid, PublishTickets, CancelSave, ReleaseCancelled
<1>14. Failure => Still \/ Listed
  BY DEF Failure, HoldFault, AcquireRetried, TaskFault
<1>15. Tick => Still
  BY DEF Tick
<1>16. Still \/ Listed
  BY <1>10, <1>11, <1>12, <1>13, <1>14, <1>15 DEF Next, vars
<1> QED
  BY <1>1, <1>2, <1>3, <1>4, <1>5, <1>6, <1>7, <1>8, <1>9, <1>16

(* A hold request moves on one step at a time, and is done, or failed, for *)
(* good; the discount is granted only while it has uses left.              *)
LEMMA HoldChanges ==
    ASSUME TypeOK, StepsAgree, [Next]_vars, NEW r \in Reservation, hold'[r] # hold[r]
    PROVE  \/ hold[r] = "none" /\ hold'[r] = (IF coupon'[r] THEN "checked" ELSE "locking")
           \/ hold[r] = "checked" /\ hold'[r] = "locking" /\ usedCount < UsageLimit
           \/ hold[r] = "locking" /\ hold'[r] \in {"locked", "rollback"}
           \/ hold[r] = "locked" /\ hold'[r] = "saving"
           \/ hold[r] = "saving" /\ hold'[r] = "saved"
           \/ hold[r] = "saved" /\ hold'[r] \in {"done", "undo"}
           \/ hold[r] = "saving" /\ hold'[r] = "undo"
           \/ hold[r] \notin {"none", "done"} /\ hold'[r] = "failed"
<1> USE DEF lockVars, holdVars, rowVars, payVars, dbVars, brokerVars, taskVars, envVars,
            histVars
<1> DEFINE Goal ==
             \/ hold[r] = "none" /\ hold'[r] = (IF coupon'[r] THEN "checked" ELSE "locking")
             \/ hold[r] = "checked" /\ hold'[r] = "locking" /\ usedCount < UsageLimit
             \/ hold[r] = "locking" /\ hold'[r] \in {"locked", "rollback"}
             \/ hold[r] = "locked" /\ hold'[r] = "saving"
             \/ hold[r] = "saving" /\ hold'[r] = "saved"
             \/ hold[r] = "saved" /\ hold'[r] \in {"done", "undo"}
             \/ hold[r] = "saving" /\ hold'[r] = "undo"
             \/ hold[r] \notin {"none", "done"} /\ hold'[r] = "failed"
           Still == UNCHANGED hold
<1>1. ASSUME NEW q \in Reservation, NEW S \in SUBSET Seat, NEW c \in Coupons,
             HoldCheck(q, S, c)
      PROVE  Goal
  BY <1>1, BoundAssumption DEF HoldCheck, TypeOK
<1>2. ASSUME NEW q \in Reservation, HoldPrice(q) PROVE Goal
  BY <1>2, BoundAssumption DEF HoldPrice, HoldGoto, TypeOK
<1>3. ASSUME NEW q \in Reservation, NEW s \in Seat,
             AcquireSeat(q, s) \/ ConflictSeat(q, s) \/ AcquireRetried(q, s)
      PROVE  Goal
  BY <1>3 DEF AcquireSeat, ConflictSeat, AcquireRetried, HoldGoto, TypeOK
<1>4. ASSUME NEW q \in Reservation,
             Rollback(q) \/ StartSave(q) \/ SaveHold(q) \/ SendDelay(q) \/ SendThrows(q)
             \/ Undo(q)
      PROVE  Goal
  BY <1>4 DEF Rollback, StartSave, SaveHold, SendDelay, SendThrows, Undo, HoldGoto, TypeOK
<1>5. ASSUME NEW q \in Reservation, HoldFault(q) PROVE Goal
  BY <1>5 DEF HoldFault, HoldGoto, TypeOK
<1>6. ASSUME Crash PROVE Goal
  BY <1>6 DEF Crash, TypeOK
<1>7. Request => Still \/ Goal
  BY <1>1 DEF Request, CheckoutStart, Start, UrlStart, CancelStart, IpnStart
<1>8. ASSUME NEW q \in Reservation, HoldStep(q) PROVE Goal
  BY <1>2, <1>3, <1>4, <1>8 DEF HoldStep
<1>9. ASSUME NEW q \in Reservation, BrokerStep(q) \/ ConsumerStep(q) PROVE Still
  BY <1>9 DEF BrokerStep, Enqueue, DeadLetter,
              ConsumerStep, ExpireRead, ExpireSave, ExpireRelease
<1>10. ASSUME NEW h \in Handler, TaskStep(h) PROVE Still
  BY <1>10 DEF TaskStep, CheckoutCommit, Confirm, InsertDuplicate, IpnSettle, IpnDecline,
               UrlFind, UrlSave, ReleasePaid, PublishTickets, CancelSave, ReleaseCancelled
<1>11. Failure => Still \/ Goal
  BY <1>3, <1>5, <1>6 DEF Failure, ExpireFault, TaskFault, BrokerCloses
<1>12. Tick => Still
  BY DEF Tick
<1> HIDE DEF Goal
<1>13. Still \/ Goal
  BY <1>7, <1>8, <1>9, <1>10, <1>11, <1>12 DEF Next, vars
<1> QED
  BY <1>13 DEF Goal

(* A reservation's seats and its discount are those it was first asked for. *)
LEMMA ChoiceChanges ==
    ASSUME TypeOK, [Next]_vars, NEW r \in Reservation, hold[r] # "none"
    PROVE  coupon'[r] = coupon[r]
<1> USE DEF lockVars, holdVars, rowVars, payVars, dbVars, brokerVars, taskVars, envVars,
            histVars
<1>1. ASSUME NEW q \in Reservation, NEW S \in SUBSET Seat, NEW c \in Coupons,
             HoldCheck(q, S, c)
      PROVE  coupon'[r] = coupon[r]
  BY <1>1 DEF HoldCheck, TypeOK
<1> DEFINE Still == UNCHANGED coupon
<1>2. Request => Still \/ coupon'[r] = coupon[r]
  BY <1>1 DEF Request, CheckoutStart, Start, UrlStart, CancelStart, IpnStart
<1>3. ASSUME NEW q \in Reservation, HoldStep(q) PROVE Still
  BY <1>3 DEF HoldStep, HoldPrice, HoldGoto, AcquireSeat, ConflictSeat, Rollback,
              StartSave, SaveHold, SendDelay, SendThrows, Undo
<1>4. ASSUME NEW q \in Reservation, BrokerStep(q) \/ ConsumerStep(q) PROVE Still
  BY <1>4 DEF BrokerStep, Enqueue, DeadLetter,
              ConsumerStep, ExpireRead, ExpireSave, ExpireRelease
<1>5. ASSUME NEW h \in Handler, TaskStep(h) PROVE Still
  BY <1>5 DEF TaskStep, CheckoutCommit, Confirm, InsertDuplicate, IpnSettle, IpnDecline,
              UrlFind, UrlSave, ReleasePaid, PublishTickets, CancelSave, ReleaseCancelled
<1>6. Failure => Still
  BY DEF Failure, HoldFault, HoldGoto, AcquireRetried, ExpireFault, TaskFault,
         BrokerCloses, Crash
<1>7. Tick => Still
  BY DEF Tick
<1> QED
  BY <1>2, <1>3, <1>4, <1>5, <1>6, <1>7 DEF Next, vars

(* usedCount is only ever counted up.                                      *)
LEMMA UsesOnlyGrow ==
    ASSUME TypeOK, [Next]_vars
    PROVE  usedCount' \in Nat /\ usedCount' >= usedCount
<1> USE DEF lockVars, holdVars, rowVars, payVars, dbVars, brokerVars, taskVars, envVars,
            histVars
<1> DEFINE Still == UNCHANGED usedCount
<1>1. usedCount \in Nat
  BY DEF TypeOK
<1>2. ASSUME NEW h \in Handler, CheckoutCommit(h) \/ IpnSettle(h)
      PROVE  usedCount' = usedCount \/ usedCount' = usedCount + 1
  BY <1>2 DEF CheckoutCommit, IpnSettle, Confirm, CountUse
<1>3. Request => Still
  BY DEF Request, HoldCheck, CheckoutStart, Start, UrlStart, CancelStart, IpnStart
<1>4. ASSUME NEW q \in Reservation, HoldStep(q) PROVE Still
  BY <1>4 DEF HoldStep, HoldPrice, AcquireSeat, ConflictSeat, Rollback,
              StartSave, SaveHold, SendDelay, SendThrows, Undo
<1>5. ASSUME NEW q \in Reservation, BrokerStep(q) \/ ConsumerStep(q) PROVE Still
  BY <1>5 DEF BrokerStep, Enqueue, DeadLetter,
              ConsumerStep, ExpireRead, ExpireSave, ExpireRelease
<1>6. ASSUME NEW h \in Handler, TaskStep(h)
      PROVE  usedCount' = usedCount \/ usedCount' = usedCount + 1
  BY <1>2, <1>6 DEF TaskStep, InsertDuplicate, IpnDecline, UrlFind, UrlSave, ReleasePaid,
                    PublishTickets, CancelSave, ReleaseCancelled
<1>7. Failure => Still
  BY DEF Failure, HoldFault, AcquireRetried, ExpireFault, TaskFault, BrokerCloses, Crash
<1>8. Tick => Still
  BY DEF Tick
<1>9. usedCount' = usedCount \/ usedCount' = usedCount + 1
  BY <1>3, <1>4, <1>5, <1>6, <1>7, <1>8 DEF Next, vars
<1> QED
  BY <1>1, <1>9

(* The step a client request takes next, or how it ends.                   *)
TaskMoves ==
    {<<"pay", "release_paid">>, <<"settle", "release_paid">>,
     <<"find_payment", "insert_payment">>, <<"find_payment", "update_payment">>,
     <<"release_paid", "tickets">>, <<"cancel", "release_cancelled">>}

TaskEnds == {"pay", "insert_payment", "update_payment", "decline", "release_cancelled"}

(* A client request starts on a reservation in the state its first read    *)
(* asks for, takes its steps in order and ends when they are done; only a  *)
(* fault or a restart ends it before.                                      *)
LEMMA TaskChanges ==
    ASSUME TypeOK, [Next]_vars, NEW h \in Handler,
           <<pc[h], target[h]>>' # <<pc[h], target[h]>>
    PROVE  \/ /\ pc[h] = "idle" /\ target'[h] \in Reservation
              /\ UNCHANGED <<status, window, urls>>
              /\ \/ pc'[h] \in {"pay", "find_payment"} /\ Payable(target'[h])
                 \/ pc'[h] \in {"settle", "decline"} /\ target'[h] \in urls
                 \/ pc'[h] = "cancel"
           \/ target'[h] = target[h] /\ <<pc[h], pc'[h]>> \in TaskMoves
           \/ pc'[h] = "idle" /\ pc[h] \in TaskEnds
           \/ pc'[h] = "idle" /\ pc[h] = "tickets" /\ (channel = "ready" => target[h] \in announced')
           \/ pc'[h] = "idle" /\ (faults' > faults \/ crashes' > crashes)
<1> USE DEF lockVars, holdVars, rowVars, payVars, dbVars, brokerVars, taskVars, envVars,
            histVars, TaskMoves, TaskEnds
<1> DEFINE Begins == /\ pc[h] = "idle" /\ target'[h] \in Reservation
                     /\ UNCHANGED <<status, window, urls>>
                     /\ \/ pc'[h] \in {"pay", "find_payment"} /\ Payable(target'[h])
                        \/ pc'[h] \in {"settle", "decline"} /\ target'[h] \in urls
                        \/ pc'[h] = "cancel"
           Moves == target'[h] = target[h] /\ <<pc[h], pc'[h]>> \in TaskMoves
           Ends == \/ pc'[h] = "idle" /\ pc[h] \in TaskEnds
                   \/ pc'[h] = "idle" /\ pc[h] = "tickets"
                      /\ (channel = "ready" => target[h] \in announced')
                   \/ pc'[h] = "idle" /\ (faults' > faults \/ crashes' > crashes)
           Still == UNCHANGED <<pc[h], target[h]>>
           Goal == Begins \/ Moves \/ Ends \/ Still
<1>1. ASSUME NEW k \in Handler, NEW q \in Reservation,
             \/ CheckoutStart(k, q) \/ UrlStart(k, q) \/ CancelStart(k, q)
             \/ \E success \in BOOLEAN : IpnStart(k, q, success)
      PROVE  Begins \/ Still
  <2>1. Start(k, q, pc'[k]) /\ UNCHANGED <<status, window, urls>>
    BY <1>1 DEF CheckoutStart, UrlStart, CancelStart, IpnStart, Start, TypeOK
  <2>2. \/ pc'[k] \in {"pay", "find_payment"} /\ Payable(q)
        \/ pc'[k] \in {"settle", "decline"} /\ q \in urls
        \/ pc'[k] = "cancel"
    BY <1>1 DEF CheckoutStart, UrlStart, CancelStart, IpnStart, Start, TypeOK
  <2> QED
    BY <2>1, <2>2 DEF Start, TypeOK
<1>2. ASSUME NEW k \in Handler, TaskStep(k) PROVE Moves \/ Ends \/ Still
  <2>1. CASE CheckoutCommit(k) \/ IpnSettle(k)
    BY <2>1 DEF CheckoutCommit, IpnSettle, Goto, TypeOK
  <2>2. CASE InsertDuplicate(k) \/ IpnDecline(k) \/ UrlSave(k) \/ ReleaseCancelled(k)
    BY <2>2 DEF InsertDuplicate, IpnDecline, UrlSave, ReleaseCancelled, Goto, TypeOK
  <2>3. CASE UrlFind(k) \/ ReleasePaid(k) \/ CancelSave(k)
    BY <2>3 DEF UrlFind, ReleasePaid, CancelSave, Goto, TypeOK
  <2>4. CASE PublishTickets(k)
    BY <2>4 DEF PublishTickets, Goto, TypeOK
  <2> QED
    BY <1>2, <2>1, <2>2, <2>3, <2>4 DEF TaskStep
<1>3. ASSUME NEW k \in Handler, TaskFault(k) PROVE Ends \/ Still
  BY <1>3 DEF TaskFault, Goto, Fault, TypeOK
<1>4. Crash => Ends
  BY DEF Crash, TypeOK
<1>5. ASSUME Request PROVE Begins \/ Still
  BY <1>1, <1>5 DEF Request, HoldCheck
<1>6. ASSUME NEW q \in Reservation, HoldStep(q) PROVE Still
  BY <1>6 DEF HoldStep, HoldPrice, AcquireSeat, ConflictSeat, Rollback,
              StartSave, SaveHold, SendDelay, SendThrows, Undo
<1>7. ASSUME NEW q \in Reservation, BrokerStep(q) \/ ConsumerStep(q) PROVE Still
  BY <1>7 DEF BrokerStep, Enqueue, DeadLetter,
              ConsumerStep, ExpireRead, ExpireSave, ExpireRelease
<1>8. ASSUME Failure PROVE Ends \/ Still
  BY <1>3, <1>4, <1>8 DEF Failure, HoldFault, AcquireRetried, ExpireFault, BrokerCloses
<1>9. Tick => Still
  BY DEF Tick
<1> HIDE DEF Begins, Moves, Ends, Still
<1>10. Begins \/ Moves \/ Ends \/ UNCHANGED vars \/ Still
  BY <1>2, <1>5, <1>6, <1>7, <1>8, <1>9 DEF Next
<1>11. UNCHANGED vars => Still
  BY DEF vars, Still
<1> QED
  BY <1>10, <1>11 DEF Begins, Moves, Ends, Still

(* A payment succeeds in a transaction that is followed by the release of  *)
(* the locks and the event; a URL is handed out by a request for one; and  *)
(* an event that is published stays so.                                    *)
LEMMA PaymentChanges ==
    ASSUME TypeOK, [Next]_vars, NEW r \in Reservation
    PROVE  /\ payment'[r] = "SUCCESS" /\ payment[r] # "SUCCESS" =>
                 \E h \in Handler : target'[h] = r /\ pc'[h] = "release_paid"
           /\ r \in urls' /\ r \notin urls =>
                 \E h \in Handler : target[h] = r /\ pc[h] \in {"insert_payment", "update_payment"}
           /\ r \in announced => r \in announced'
<1> USE DEF lockVars, holdVars, rowVars, payVars, dbVars, brokerVars, taskVars, envVars,
            histVars
<1> DEFINE Goal ==
             /\ payment'[r] = "SUCCESS" /\ payment[r] # "SUCCESS" =>
                   \E h \in Handler : target'[h] = r /\ pc'[h] = "release_paid"
             /\ r \in urls' /\ r \notin urls =>
                   \E h \in Handler :
                       target[h] = r /\ pc[h] \in {"insert_payment", "update_payment"}
             /\ r \in announced => r \in announced'
           Still == UNCHANGED <<payment, urls, announced>>
           Listed == \E h \in Handler : \/ CheckoutCommit(h) \/ IpnSettle(h) \/ IpnDecline(h)
                                        \/ UrlSave(h) \/ PublishTickets(h)
<1>1. ASSUME NEW h \in Handler, CheckoutCommit(h) \/ IpnSettle(h) PROVE Goal
  <2>1. target'[h] = target[h] /\ pc'[h] = "release_paid"
    BY <1>1 DEF CheckoutCommit, IpnSettle, Goto, TypeOK
  <2>2. payment' = [payment EXCEPT ![target[h]] = "SUCCESS"] /\ UNCHANGED <<urls, announced>>
    BY <1>1 DEF CheckoutCommit, IpnSettle, Confirm
  <2> QED
    BY <2>1, <2>2 DEF TypeOK
<1>2. ASSUME NEW h \in Handler, IpnDecline(h) \/ PublishTickets(h) PROVE Goal
  BY <1>2 DEF IpnDecline, PublishTickets, TypeOK
<1>3. ASSUME NEW h \in Handler, UrlSave(h) PROVE Goal
  BY <1>3 DEF UrlSave, TypeOK
<1>4. Request => Still
  BY DEF Request, HoldCheck, CheckoutStart, Start, UrlStart, CancelStart, IpnStart
<1>5. ASSUME NEW q \in Reservation, HoldStep(q) PROVE Still
  BY <1>5 DEF HoldStep, HoldPrice, AcquireSeat, ConflictSeat, Rollback,
              StartSave, SaveHold, SendDelay, SendThrows, Undo
<1>6. ASSUME NEW q \in Reservation, BrokerStep(q) \/ ConsumerStep(q) PROVE Still
  BY <1>6 DEF BrokerStep, Enqueue, DeadLetter,
              ConsumerStep, ExpireRead, ExpireSave, ExpireRelease, MsgGoto
<1>7. ASSUME NEW h \in Handler, TaskStep(h) PROVE Still \/ Listed
  BY <1>7 DEF TaskStep, InsertDuplicate, UrlFind, ReleasePaid, CancelSave, ReleaseCancelled
<1>8. Failure => Still
  BY DEF Failure, HoldFault, AcquireRetried, ExpireFault, MsgGoto, TaskFault, BrokerCloses,
         Crash
<1>9. Tick => Still
  BY DEF Tick
<1>10. Still \/ Listed
  BY <1>4, <1>5, <1>6, <1>7, <1>8, <1>9 DEF Next, vars
<1> QED
  BY <1>1, <1>2, <1>3, <1>10

(* Only time brings a deadline closer; the delay of a message is set when   *)
(* the broker receives it.                                                 *)
LEMMA DelayChanges ==
    ASSUME TypeOK, [Next]_vars, NEW r \in Reservation, msg[r] # "buffered"
    PROVE  /\ delayLeft'[r] <= delayLeft[r]
           /\ Tick /\ delayLeft[r] > 0 => delayLeft'[r] < delayLeft[r]
<1> USE DEF lockVars, holdVars, rowVars, payVars, dbVars, brokerVars, taskVars, envVars,
            histVars
<1> DEFINE Still == delayLeft'[r] = delayLeft[r]
<1>1. delayLeft[r] \in Nat
  BY BoundAssumption, TtlAssumption DEF TypeOK
<1>2. ASSUME Tick
      PROVE  delayLeft'[r] = Less(delayLeft[r])
  BY <1>2 DEF Tick
<1>3. Request => Still
  BY DEF Request, HoldCheck, CheckoutStart, Start, UrlStart, CancelStart, IpnStart
<1>4. ASSUME NEW q \in Reservation, HoldStep(q) PROVE Still
  BY <1>4 DEF HoldStep, HoldPrice, AcquireSeat, ConflictSeat, Rollback,
              StartSave, SaveHold, SendDelay, SendThrows, Undo, TypeOK
<1>5. ASSUME NEW q \in Reservation, BrokerStep(q) \/ ConsumerStep(q) PROVE Still
  BY <1>5 DEF BrokerStep, Enqueue, DeadLetter, ConsumerStep, ExpireRead, ExpireSave,
              ExpireRelease, MsgGoto, TypeOK
<1>6. ASSUME NEW h \in Handler, TaskStep(h) PROVE Still
  BY <1>6 DEF TaskStep, CheckoutCommit, Confirm, InsertDuplicate, IpnSettle, IpnDecline,
              UrlFind, UrlSave, ReleasePaid, PublishTickets, CancelSave, ReleaseCancelled
<1>7. Failure => Still
  BY DEF Failure, HoldFault, AcquireRetried, ExpireFault, MsgGoto, TaskFault, BrokerCloses,
         Crash
<1>8. Still \/ delayLeft'[r] = Less(delayLeft[r])
  BY <1>2, <1>3, <1>4, <1>5, <1>6, <1>7 DEF Next, vars
<1> QED
  BY <1>1, <1>2, <1>8 DEF Less

(* Restarts and faults are counted up.                                     *)
LEMMA FaultsOnlyGrow ==
    ASSUME TypeOK, [Next]_vars
    PROVE  crashes' >= crashes /\ faults' >= faults
<1> USE DEF lockVars, holdVars, rowVars, payVars, dbVars, brokerVars, taskVars, envVars,
            histVars
<1> DEFINE Still == UNCHANGED <<crashes, faults>>
<1>1. crashes \in Nat /\ faults \in Nat
  BY BoundAssumption DEF TypeOK
<1>2. Failure => \/ crashes' = crashes /\ faults' = faults + 1
                 \/ crashes' = crashes + 1 /\ faults' = faults
  BY DEF Failure, Fault, HoldFault, AcquireRetried, ExpireFault, TaskFault, BrokerCloses, Crash
<1>3. Request => Still
  BY DEF Request, HoldCheck, CheckoutStart, Start, UrlStart, CancelStart, IpnStart
<1>4. ASSUME NEW q \in Reservation, HoldStep(q) PROVE Still
  BY <1>4 DEF HoldStep, HoldPrice, AcquireSeat, ConflictSeat, Rollback,
              StartSave, SaveHold, SendDelay, SendThrows, Undo
<1>5. ASSUME NEW q \in Reservation, BrokerStep(q) \/ ConsumerStep(q) PROVE Still
  BY <1>5 DEF BrokerStep, Enqueue, DeadLetter,
              ConsumerStep, ExpireRead, ExpireSave, ExpireRelease
<1>6. ASSUME NEW h \in Handler, TaskStep(h) PROVE Still
  BY <1>6 DEF TaskStep, CheckoutCommit, Confirm, InsertDuplicate, IpnSettle, IpnDecline,
              UrlFind, UrlSave, ReleasePaid, PublishTickets, CancelSave, ReleaseCancelled
<1>7. Tick => Still
  BY DEF Tick
<1>8. Still \/ Failure
  BY <1>3, <1>4, <1>5, <1>6, <1>7 DEF Next, vars
<1> QED
  BY <1>1, <1>2, <1>8

----------------------------------------------------------------------------
(* A reservation paid in time                                              *)

(* Paid for, or cancelled after that, with no consumer about to expire it. *)
Kept(r) == status[r] \in {"CONFIRMED", "CANCELLED"} /\ msg[r] # "expiring"

(* Nothing ends that: the consumer only takes up rows it reads as PENDING. *)
LEMMA KeptStays ==
    ASSUME TypeOK, StepsAgree, [Next]_vars, NEW r \in Reservation, Kept(r)
    PROVE  Kept(r)'
<1>1. hold[r] = "done"
  BY DEF Kept, StepsAgree
<1>2. status'[r] \in {"CONFIRMED", "CANCELLED"}
  BY <1>1, StatusChanges DEF Kept
<1>3. msg'[r] # "expiring"
  BY <1>1, MessageChanges DEF Kept
<1> QED
  BY <1>2, <1>3 DEF Kept

(* A reservation that is paid for before its deadline is kept, whatever    *)
(* the consumer, other payments, faults and restarts do.                   *)
THEOREM PaidInTimeKept == Spec => PaidInTimeIsKept
<1> SUFFICES ASSUME NEW r \in Reservation
             PROVE  Spec => [](status[r] = "CONFIRMED" /\ window[r] > 0
                                  => [](status[r] \in {"CONFIRMED", "CANCELLED"}))
  BY DEF PaidInTimeIsKept
<1>1. Spec => []ExpiryAfterWindow
  <2>1. Init => ExpiryAfterWindow
    BY InitInvariants
  <2> QED
    BY <2>1, TypeCorrect, StepsCorrect, ExpiryStep, PTL DEF Spec
<1>2. ExpiryAfterWindow /\ status[r] = "CONFIRMED" /\ window[r] > 0 => Kept(r)
  BY DEF ExpiryAfterWindow, Kept
<1>3. TypeOK /\ StepsAgree /\ Kept(r) /\ [Next]_vars => Kept(r)'
  BY KeptStays
<1>4. Kept(r) => status[r] \in {"CONFIRMED", "CANCELLED"}
  BY DEF Kept
<1> QED
  BY <1>1, <1>2, <1>3, <1>4, TypeCorrect, StepsCorrect, PTL DEF Spec

----------------------------------------------------------------------------
(* A reservation that ended unpaid                                         *)

(* No step begins a payment of what has ended, and none goes on.           *)
LEMMA AbandonedStays ==
    ASSUME TypeOK, StepsAgree, [Next]_vars, NEW r \in Reservation, Abandoned(r)
    PROVE  Abandoned(r)'
<1>1. hold[r] = "done"
  BY DEF Abandoned, StepsAgree
<1>2. status'[r] \in {"CANCELLED", "EXPIRED"}
  BY <1>1, StatusChanges DEF Abandoned, Paying
<1>3. r \notin urls'
  BY PaymentChanges DEF Abandoned, Paying
<1>4. ASSUME NEW h \in Handler, target'[h] = r, Paying(h)'
      PROVE  FALSE
  <2>1. CASE <<pc[h], target[h]>>' = <<pc[h], target[h]>>
    BY <1>4, <2>1 DEF Abandoned, Paying
  <2>2. CASE pc[h] = "idle" /\ target'[h] \in Reservation
    BY <1>4, <2>2, TaskChanges DEF Abandoned, Paying, Payable, TaskMoves, TaskEnds
  <2>3. CASE target'[h] = target[h] /\ <<pc[h], pc'[h]>> \in TaskMoves
    BY <1>4, <2>3 DEF Abandoned, Paying, TaskMoves
  <2>4. CASE pc'[h] = "idle"
    BY <1>4, <2>4 DEF Paying
  <2> QED
    BY <2>1, <2>2, <2>3, <2>4, TaskChanges
<1> QED
  BY <1>2, <1>3, <1>4 DEF Abandoned

(* What ended with no payment under way and no payment URL is never sold.  *)
THEOREM EndedForGood == Spec => EndedStaysEnded
<1> SUFFICES ASSUME NEW r \in Reservation
             PROVE  Spec => [](Abandoned(r) => [](status[r] # "CONFIRMED"))
  BY DEF EndedStaysEnded
<1>1. TypeOK /\ StepsAgree /\ Abandoned(r) /\ [Next]_vars => Abandoned(r)'
  BY AbandonedStays
<1>2. Abandoned(r) => status[r] # "CONFIRMED"
  BY DEF Abandoned
<1> QED
  BY <1>1, <1>2, TypeCorrect, StepsCorrect, PTL DEF Spec

----------------------------------------------------------------------------
(* A discount that is used up                                              *)

(* No step grants a discount that has reached its limit.                   *)
LEMMA TooLateStays ==
    ASSUME TypeOK, StepsAgree, [Next]_vars, NEW r \in Reservation, TooLate(r)
    PROVE  TooLate(r)'
<1>1. usedCount' >= UsageLimit
  BY UsesOnlyGrow, BoundAssumption DEF TooLate, TypeOK
<1>2. hold[r] # "none" => coupon'[r] = coupon[r]
  BY ChoiceChanges
<1>3. CASE hold[r] = "none"
  BY <1>1, <1>3, HoldChanges DEF TooLate, TypeOK
<1>4. CASE hold[r] = "checked"
  <2>1. hold'[r] \in {"checked", "failed"}
    BY <1>4, HoldChanges, BoundAssumption DEF TooLate, TypeOK
  <2>2. status'[r] = "NONE"
    BY <1>4, StatusChanges DEF StepsAgree, TypeOK
  <2> QED
    BY <1>1, <2>1, <2>2 DEF TooLate
<1>5. CASE hold[r] \notin {"none", "checked"} /\ ~coupon[r]
  BY <1>1, <1>2, <1>5 DEF TooLate
<1>6. CASE hold[r] = "failed" /\ status[r] = "NONE"
  <2>1. hold'[r] = "failed"
    BY <1>6, HoldChanges
  <2>2. status'[r] = "NONE"
    BY <1>6, StatusChanges DEF StepsAgree, TypeOK
  <2> QED
    BY <1>1, <2>1, <2>2 DEF TooLate
<1> QED
  BY <1>3, <1>4, <1>5, <1>6 DEF TooLate

(* Once the discount is used up, only reservations that were granted it    *)
(* before can use it.                                                      *)
THEOREM LimitCloses == Spec => LimitClosesDiscount
<1>1. TypeOK /\ StepsAgree /\ [Next]_vars => [\A r \in Reservation : TooLate(r) => TooLate(r)']_vars
  BY TooLateStays
<1> QED
  BY <1>1, TypeCorrect, StepsCorrect, PTL DEF Spec, LimitClosesDiscount

----------------------------------------------------------------------------
(* What has to come in the end is not lost, and not put off                 *)

(* A step that sets or deletes a key sets or clears its time to live, and  *)
(* only a tick shortens it.                                                *)
LEMMA KeyChanges ==
    ASSUME TypeOK, KeysExpire, [Next]_vars, NEW s \in Seat
    PROVE  /\ owner'[s] # None <=> ttl'[s] > 0
           /\ owner[s] # None =>
                 /\ owner'[s] = owner[s] => ttl'[s] <= ttl[s]
                 /\ Tick => ttl'[s] < ttl[s]
<1> USE DEF lockVars, holdVars, rowVars, payVars, dbVars, brokerVars, taskVars, envVars,
            histVars
<1> DEFINE Still == owner'[s] = owner[s] /\ ttl'[s] = ttl[s]
           Taken == owner[s] = None /\ owner'[s] \in Reservation /\ ttl'[s] = LockTtl
           Freed == owner'[s] = None /\ ttl'[s] = 0
           Older == /\ ttl'[s] = Less(ttl[s])
                    /\ owner'[s] = IF ttl[s] = 1 THEN None ELSE owner[s]
<1>1. ttl[s] \in Nat /\ (owner[s] # None <=> ttl[s] > 0)
  BY TtlAssumption DEF TypeOK, KeysExpire
<1>2. ASSUME NEW q \in Reservation, NEW t \in Seat, AcquireSeat(q, t) \/ AcquireRetried(q, t)
      PROVE  Still \/ Taken
  BY <1>2 DEF AcquireSeat, AcquireRetried, Free, Lock, TypeOK
<1>3. ASSUME NEW q, NEW S, ReleaseLocks(q, S)
      PROVE  Still \/ Freed
  BY <1>3 DEF ReleaseLocks
<1>4. Request => Still
  BY DEF Request, HoldCheck, CheckoutStart, Start, UrlStart, CancelStart, IpnStart
<1>5. ASSUME NEW q \in Reservation, HoldStep(q) PROVE Still \/ Taken \/ Freed
  <2>1. CASE \E t \in Seat : AcquireSeat(q, t)
    BY <1>2, <2>1
  <2>2. CASE Rollback(q) \/ Undo(q)
    BY <1>3, <2>2 DEF Rollback, Undo
  <2>3. CASE HoldPrice(q) \/ (\E t \in Seat : ConflictSeat(q, t)) \/ StartSave(q) \/ SaveHold(q)
             \/ SendDelay(q) \/ SendThrows(q)
    BY <2>3 DEF HoldPrice, ConflictSeat, StartSave, SaveHold, SendDelay, SendThrows
  <2> HIDE DEF Still, Taken, Freed
  <2> QED
    BY <1>5, <2>1, <2>2, <2>3 DEF HoldStep
<1>6. ASSUME NEW q \in Reservation, BrokerStep(q) \/ ConsumerStep(q) PROVE Still \/ Freed
  BY <1>3, <1>6 DEF BrokerStep, Enqueue, DeadLetter,
                    ConsumerStep, ExpireRead, ExpireSave, ExpireRelease
<1>7. ASSUME NEW h \in Handler, TaskStep(h) PROVE Still \/ Freed
  BY <1>3, <1>7 DEF TaskStep, CheckoutCommit, Confirm, InsertDuplicate, IpnSettle, IpnDecline,
              UrlFind, UrlSave, ReleasePaid, PublishTickets, CancelSave, ReleaseCancelled
<1>8. Failure => Still \/ Taken
  BY <1>2 DEF Failure, HoldFault, ExpireFault, TaskFault, BrokerCloses, Crash
<1>9. Tick => Older
  BY DEF Tick
<1>10. UNCHANGED vars => Still
  BY DEF vars
<1>11. Still \/ Taken \/ Freed \/ Older
  <2> HIDE DEF Still, Taken, Freed, Older
  <2> QED
    BY <1>4, <1>5, <1>6, <1>7, <1>8, <1>9, <1>10 DEF Next
<1> QED
  BY <1>1, <1>9, <1>11, NoneAssumption, TtlAssumption DEF Less

(* Every lock has an end that only comes closer.                           *)
THEOREM LocksRunOutAlways == Spec => LocksRunOut
<1>1. Init => KeysExpire
  BY DEF Init, KeysExpire
<1>2. TypeOK /\ KeysExpire /\ [Next]_vars => KeysExpire'
  BY KeyChanges DEF KeysExpire
<1> DEFINE Shorter ==
             \A s \in Seat : owner[s] # None =>
                 /\ ttl[s] > 0
                 /\ owner'[s] = owner[s] => ttl'[s] <= ttl[s]
                 /\ Tick => ttl'[s] < ttl[s]
<1>3. TypeOK /\ KeysExpire /\ [Next]_vars => [Shorter]_vars
  BY KeyChanges DEF KeysExpire
<1>4. LocksRunOut <=> [][Shorter]_vars
  BY PTL DEF LocksRunOut
<1> HIDE DEF Shorter
<1> QED
  BY <1>1, <1>2, <1>3, <1>4, TypeCorrect, PTL DEF Spec

(* No request puts off the expiry of an unpaid reservation.                *)
THEOREM ExpiryComesCloser == Spec => ExpiryNotPostponed
<1> DEFINE Closer(r) ==
             /\ status[r] = "PENDING" /\ status'[r] = "PENDING"
             /\ crashes' = crashes /\ faults' = faults
             => /\ msg[r] = "buffered" => msg'[r] \in {"buffered", "delayed"}
                /\ msg[r] = "delayed" =>
                    \/ msg'[r] = "delayed" /\ delayLeft'[r] <= delayLeft[r]
                       /\ (Tick /\ delayLeft[r] > 0 => delayLeft'[r] < delayLeft[r])
                    \/ msg'[r] = "expired" /\ delayLeft[r] = 0
                /\ msg[r] = "expired" => msg'[r] \in {"expired", "expiring"}
                /\ msg[r] = "expiring" => msg'[r] = "expiring"
<1>1. ASSUME TypeOK, StepsAgree, [Next]_vars, NEW r \in Reservation
      PROVE  Closer(r)
  <2> SUFFICES ASSUME status[r] = "PENDING", status'[r] = "PENDING",
                      crashes' = crashes, faults' = faults
               PROVE  /\ msg[r] = "buffered" => msg'[r] \in {"buffered", "delayed"}
                      /\ msg[r] = "delayed" =>
                            \/ msg'[r] = "delayed" /\ delayLeft'[r] <= delayLeft[r]
                               /\ (Tick /\ delayLeft[r] > 0 => delayLeft'[r] < delayLeft[r])
                            \/ msg'[r] = "expired" /\ delayLeft[r] = 0
                      /\ msg[r] = "expired" => msg'[r] \in {"expired", "expiring"}
                      /\ msg[r] = "expiring" => msg'[r] = "expiring"
    OBVIOUS
  <2>1. msg[r] # "none" => hold[r] = "done"
    BY <1>1 DEF StepsAgree
  <2>2. msg[r] = "delayed" => \/ msg'[r] = "delayed"
                              \/ msg'[r] = "expired" /\ delayLeft[r] = 0
    BY <1>1, <2>1, MessageChanges
  <2>3. msg[r] = "delayed" =>
            /\ delayLeft'[r] <= delayLeft[r]
            /\ Tick /\ delayLeft[r] > 0 => delayLeft'[r] < delayLeft[r]
    BY <1>1, DelayChanges
  <2>4. msg[r] = "expired" => msg'[r] \in {"expired", "expiring"}
    BY <1>1, <2>1, MessageChanges
  <2>5. msg[r] = "expiring" => msg'[r] = "expiring"
    BY <1>1, <2>1, MessageChanges
  <2>6. msg[r] = "buffered" => msg'[r] \in {"buffered", "delayed"}
    BY <1>1, <2>1, MessageChanges
  <2> QED
    BY <2>2, <2>3, <2>4, <2>5, <2>6
<1>2. TypeOK /\ StepsAgree /\ [Next]_vars => [\A r \in Reservation : Closer(r)]_vars
  BY <1>1
<1>3. ExpiryNotPostponed <=> [][\A r \in Reservation : Closer(r)]_vars
  BY PTL DEF ExpiryNotPostponed
<1> HIDE DEF Closer
<1> QED
  BY <1>2, <1>3, TypeCorrect, StepsCorrect, PTL DEF Spec

(* A step leaves no payment without its announcement.                      *)
LEMMA AnnouncementStep ==
    /\ TypeOK /\ StepsAgree /\ ChannelFromStart /\ ChannelClosedByFault
    /\ AnnouncementUnderWay /\ [Next]_vars
    => AnnouncementUnderWay'
<1> DEFINE Working(h, r) == target[h] = r /\ pc[h] \in {"release_paid", "tickets"}
<1> SUFFICES ASSUME TypeOK, StepsAgree, ChannelFromStart, ChannelClosedByFault,
                    AnnouncementUnderWay, [Next]_vars,
                    crashes' = 0, faults' = 0, "absent" \notin BrokerStates,
                    NEW r \in Reservation,
                    status'[r] = "CONFIRMED" \/ payment'[r] = "SUCCESS",
                    r \notin announced'
             PROVE  \E h \in Handler : Working(h, r)'
  BY DEF AnnouncementUnderWay
<1>1. crashes = 0 /\ faults = 0
  BY FaultsOnlyGrow, BoundAssumption DEF TypeOK
<1>2. channel = "ready"
  BY <1>1 DEF TypeOK, ChannelFromStart, ChannelClosedByFault
<1>3. r \notin announced
  BY PaymentChanges
<1>4. CASE status[r] = "CONFIRMED" \/ payment[r] = "SUCCESS"
  <2>1. PICK h \in Handler : Working(h, r)
    BY <1>1, <1>3, <1>4 DEF AnnouncementUnderWay
  <2>2. <<pc[h], target[h]>>' = <<pc[h], target[h]>> \/ Working(h, r)'
    BY <1>1, <1>2, <2>1, TaskChanges DEF TaskMoves, TaskEnds
  <2> QED
    BY <2>1, <2>2
<1>5. CASE status[r] # "CONFIRMED" /\ status'[r] = "CONFIRMED"
  BY <1>5, StatusChanges
<1>6. CASE payment[r] # "SUCCESS" /\ payment'[r] = "SUCCESS"
  BY <1>6, PaymentChanges
<1> QED
  BY <1>4, <1>5, <1>6

(* Without faults or restarts every payment is announced, or a request     *)
(* that will announce it is at work.                                       *)
THEOREM AnnouncementsUnderWay == Spec => []AnnouncementUnderWay
<1>1. Init => ChannelFromStart /\ ChannelClosedByFault /\ AnnouncementUnderWay
  <2>1. Init => ChannelFromStart /\ ChannelClosedByFault
    BY InitInvariants
  <2> QED
    BY <2>1 DEF Init, AnnouncementUnderWay
<1> QED
  BY <1>1, TypeCorrect, StepsCorrect, ChannelStep, ClosedStep, AnnouncementStep, PTL DEF Spec
=============================================================================
