------------------------------ MODULE Booking ------------------------------
(***************************************************************************)
(* The life of a seat hold in one showtime: the hold request, the Redis    *)
(* seat locks with their time to live, the reservation and payment rows    *)
(* in Postgres, the delayed message that expires an unpaid hold, and the   *)
(* requests that pay for it or cancel it.                                  *)
(*                                                                         *)
(* Node runs one step of one request between two awaits, so an action is   *)
(* what a request does from one await to the next: one database read, one  *)
(* database transaction, one Redis command or one message.  Every other    *)
(* request may run in between, with the values it read earlier.            *)
(*                                                                         *)
(* Time is relative: a deadline is the number of ticks that remain to it,  *)
(* 0 once it has passed.  Nothing reads the absolute time.                 *)
(***************************************************************************)
EXTENDS Integers, FiniteSets

CONSTANTS
    Reservation,   \* the reservation ids holdSeats draws, one per request
    Seat,          \* the seats of the showtime's hall
    Handler,       \* the payment and cancellation requests in progress at once
    None,          \* the owner of a free seat, the target of an idle handler
    LockTtl,       \* ttlSeconds: lock time to live, and the payment window
    DelayTtl,      \* messageTtl of the hold-delay queue
    ShowIn,        \* time to the start of the show, at first
    CancelNotice,  \* a paid ticket is cancelled this long before the show
    UsageLimit,    \* usageLimit of the discount
    Coupons,       \* the choices a client makes on the discount
    Ops,           \* the client operations that are exercised
    BrokerStates,  \* what connecting to RabbitMQ at start-up may give
    MaxNotify,     \* bound: notifications from the payment gateway
    MaxCrashes,    \* bound: restarts of the application
    MaxFaults      \* bound: other faults

ASSUME TtlAssumption == LockTtl \in Nat \ {0} /\ DelayTtl \in Nat /\ DelayTtl >= LockTtl
ASSUME NoneAssumption == None \notin Reservation
ASSUME BoundAssumption ==
    /\ ShowIn \in Nat /\ CancelNotice \in Nat /\ UsageLimit \in Nat
    /\ MaxNotify \in Nat /\ MaxCrashes \in Nat /\ MaxFaults \in Nat
    /\ Coupons \subseteq BOOLEAN
    /\ BrokerStates \subseteq {"ready", "absent"}

VARIABLES
    owner, ttl,                  \* Redis: value and remaining life of each seat's key
    hold, want, got, coupon,     \* the hold request: step, seatIds, locked so far, discount
    status, window,              \* the reservation row: status, time to expiresAt
    payment, urls,               \* the payment row; the reservations given a payment URL
    usedCount,                   \* usedCount of the discount row
    msg, delayLeft,              \* the hold's expiry message, and its remaining delay
    pc, target,                  \* each handler's step and reservation
    announced,                   \* reservations with an 'email.ticket_confirmed' event
    channel,                     \* RabbitMQService.channel
    untilShow,                   \* time to the showtime's startTime
    notified, crashes, faults,   \* counters of the bounds above
    heldFor, released, missed, windows  \* history, read by no guard (see "History")

lockVars   == <<owner, ttl>>
holdVars   == <<hold, want, got, coupon>>
rowVars    == <<status, window>>
payVars    == <<payment, urls, usedCount>>
dbVars     == <<rowVars, payVars>>
brokerVars == <<msg, delayLeft, announced, channel>>
taskVars   == <<pc, target>>
envVars    == <<untilShow, notified, crashes, faults>>
histVars   == <<heldFor, released, missed, windows>>
vars == <<lockVars, holdVars, dbVars, brokerVars, taskVars, envVars, histVars>>

HoldSteps == {"none", "checked", "locking", "locked", "saving", "saved",
              "rollback", "undo", "done", "failed"}
Statuses == {"NONE", "PENDING", "CONFIRMED", "CANCELLED", "EXPIRED"}
PaymentStatuses == {"NONE", "PENDING", "SUCCESS", "FAILED"}
MsgSteps == {"none", "buffered", "delayed", "expired", "expiring", "releasing", "stuck",
             "acked", "lost"}
TaskSteps == {"idle", "pay", "settle", "decline", "find_payment", "insert_payment",
              "update_payment", "cancel", "release_paid", "release_cancelled", "tickets"}
Hazards == {"stale_check", "overrun", "late_settlement", "re_release"}

----------------------------------------------------------------------------
(* History.  Four variables only the properties read:                      *)
(*   heldFor[r]  what is left of the life of the first lock r took;        *)
(*   released    the reservations whose locks were released at least once; *)
(*   missed[r]   the seats r has yet to lock that were sold to another     *)
(*               since r's own availability check;                         *)
(*   windows     the hazards that came true so far:                        *)
(*     "stale_check"      a sold seat was locked, sold since the request's *)
(*                        availability check,                              *)
(*     "overrun"          a sale, or the release of a lock that by now is  *)
(*                        someone else's, after r's first lock ran out,    *)
(*     "late_settlement"  a row already cancelled or expired was confirmed,*)
(*     "re_release"       a second release hit someone else's lock.        *)

Foreign(r, S) == {s \in S : owner[s] \notin {None, r}}

ReleaseWindows(r, S) ==
    IF Foreign(r, S) = {} THEN {}
    ELSE {w \in {"re_release", "overrun"} :
            \/ w = "re_release" /\ r \in released
            \/ w = "overrun" /\ heldFor[r] = 0}

SaleWindows(r) ==
    {w \in {"overrun", "late_settlement"} :
        /\ status[r] # "CONFIRMED"
        /\ \/ w = "overrun" /\ heldFor[r] = 0
           \/ w = "late_settlement" /\ status[r] \in {"CANCELLED", "EXPIRED"}}

MissedSale(r, q) ==
    IF hold[q] \in {"checked", "locking"} THEN want[r] \cap (want[q] \ got[q]) ELSE {}

Sold(s) == \E q \in Reservation : status[q] = "CONFIRMED" /\ s \in want[q]

----------------------------------------------------------------------------
(* Redis.  A definition whose comment says "Mutation" is no part of the     *)
(* model: it is what the definition after it would be with a bug in it.    *)

(* Mutation: SET without NX.                                               *)
FreeWithoutNX(s) == TRUE

(* NX: the SET of a key that exists does nothing.                          *)
Free(s) == owner[s] = None

(* Mutation: SET without EX.                                               *)
LockForever(r, s) == owner' = [owner EXCEPT ![s] = r] /\ ttl' = ttl

(* Mutation: a time to live longer than the payment window.                *)
LockPastWindow(r, s) ==
    /\ owner' = [owner EXCEPT ![s] = r]
    /\ ttl' = [ttl EXCEPT ![s] = LockTtl + 1]

Lock(r, s) ==
    /\ owner' = [owner EXCEPT ![s] = r]
    /\ ttl' = [ttl EXCEPT ![s] = LockTtl]

(* releaseMultipleSeatLocks: DEL of the keys, whoever's value they hold.   *)
ReleaseLocks(r, S) ==
    /\ owner' = [s \in Seat |-> IF s \in S THEN None ELSE owner[s]]
    /\ ttl' = [s \in Seat |-> IF s \in S THEN 0 ELSE ttl[s]]
    /\ released' = released \cup {r}
    /\ windows' = windows \cup ReleaseWindows(r, S)
    /\ UNCHANGED <<heldFor, missed>>

----------------------------------------------------------------------------
Init ==
    /\ owner = [s \in Seat |-> None]
    /\ ttl = [s \in Seat |-> 0]
    /\ hold = [r \in Reservation |-> "none"]
    /\ want = [r \in Reservation |-> {}]
    /\ got = [r \in Reservation |-> {}]
    /\ coupon = [r \in Reservation |-> FALSE]
    /\ status = [r \in Reservation |-> "NONE"]
    /\ window = [r \in Reservation |-> 0]
    /\ payment = [r \in Reservation |-> "NONE"]
    /\ urls = {}
    /\ usedCount = 0
    /\ msg = [r \in Reservation |-> "none"]
    /\ delayLeft = [r \in Reservation |-> 0]
    /\ pc = [h \in Handler |-> "idle"]
    /\ target = [h \in Handler |-> None]
    /\ announced = {}
    /\ channel \in BrokerStates
    /\ untilShow = ShowIn
    /\ notified = 0
    /\ crashes = 0
    /\ faults = 0
    /\ heldFor = [r \in Reservation |-> 0]
    /\ released = {}
    /\ missed = [r \in Reservation |-> {}]
    /\ windows = {}

----------------------------------------------------------------------------
(* holdSeats                                                               *)

HoldGoto(r, step) ==
    /\ hold' = [hold EXCEPT ![r] = step]
    /\ UNCHANGED <<want, got, coupon>>

(* A fault: something throws that seldom does.                             *)
Fault ==
    /\ faults < MaxFaults
    /\ faults' = faults + 1
    /\ UNCHANGED <<untilShow, notified, crashes>>

(* Mutation: the seats are not looked up among those already sold.         *)
HoldWithoutCheck(r, S, c) ==
    /\ hold[r] = "none"
    /\ untilShow > 0
    /\ hold' = [hold EXCEPT ![r] = IF c THEN "checked" ELSE "locking"]
    /\ want' = [want EXCEPT ![r] = S]
    /\ coupon' = [coupon EXCEPT ![r] = c]
    /\ UNCHANGED <<lockVars, got, dbVars, brokerVars, taskVars, envVars, histVars>>

(* The showtime has not started and none of the seats is sold.  A request  *)
(* that fails here leaves no trace.                                        *)
HoldCheck(r, S, c) ==
    /\ hold[r] = "none"
    /\ untilShow > 0
    /\ \A s \in S : ~Sold(s)
    /\ hold' = [hold EXCEPT ![r] = IF c THEN "checked" ELSE "locking"]
    /\ want' = [want EXCEPT ![r] = S]
    /\ coupon' = [coupon EXCEPT ![r] = c]
    /\ UNCHANGED <<lockVars, got, dbVars, brokerVars, taskVars, envVars, histVars>>

(* Mutation: the limit is compared with > instead of >=.                   *)
HoldPriceBeyond(r) ==
    /\ hold[r] = "checked"
    /\ HoldGoto(r, IF usedCount > UsageLimit THEN "failed" ELSE "locking")
    /\ UNCHANGED <<lockVars, dbVars, brokerVars, taskVars, envVars, histVars>>

(* The discount is read, and refused when it is used up.                   *)
HoldPrice(r) ==
    /\ hold[r] = "checked"
    /\ HoldGoto(r, IF usedCount >= UsageLimit THEN "failed" ELSE "locking")
    /\ UNCHANGED <<lockVars, dbVars, brokerVars, taskVars, envVars, histVars>>

(* Mutation: the loop over the seats returns after its first lock.         *)
AcquireFirst(r, s) ==
    /\ hold[r] = "locking" /\ s \in want[r] \ got[r]
    /\ Free(s)
    /\ Lock(r, s)
    /\ got' = [got EXCEPT ![r] = @ \cup {s}]
    /\ hold' = [hold EXCEPT ![r] = "locked"]
    /\ heldFor' = [heldFor EXCEPT ![r] = LockTtl]
    /\ UNCHANGED <<want, coupon, dbVars, brokerVars, taskVars, envVars, released, missed,
                   windows>>

(* SET key r EX ttl NX on one more seat, in the client's order.            *)
AcquireSeat(r, s) ==
    /\ hold[r] = "locking" /\ s \in want[r] \ got[r]
    /\ Free(s)
    /\ Lock(r, s)
    /\ got' = [got EXCEPT ![r] = @ \cup {s}]
    /\ hold' = [hold EXCEPT ![r] = IF got[r] \cup {s} = want[r] THEN "locked" ELSE @]
    /\ heldFor' = [heldFor EXCEPT ![r] = IF got[r] = {} THEN LockTtl ELSE @]
    /\ windows' = windows \cup (IF Sold(s) /\ s \in missed[r] THEN {"stale_check"} ELSE {})
    /\ UNCHANGED <<want, coupon, dbVars, brokerVars, taskVars, envVars, released, missed>>

ConflictSeat(r, s) ==
    /\ hold[r] = "locking" /\ s \in want[r] \ got[r]
    /\ ~Free(s)
    /\ HoldGoto(r, "rollback")
    /\ UNCHANGED <<lockVars, dbVars, brokerVars, taskVars, envVars, histVars>>

(* The reply to a SET that took the lock is lost; the client library sends *)
(* it again, and NX now refuses it: a conflict with the request's own key. *)
AcquireRetried(r, s) ==
    /\ hold[r] = "locking" /\ s \in want[r] \ got[r]
    /\ Free(s)
    /\ Lock(r, s)
    /\ HoldGoto(r, "rollback")
    /\ Fault
    /\ UNCHANGED <<dbVars, brokerVars, taskVars, histVars>>

(* On a conflict the seats locked so far are released.                     *)
Rollback(r) ==
    /\ hold[r] = "rollback"
    /\ ReleaseLocks(r, got[r])
    /\ HoldGoto(r, "failed")
    /\ UNCHANGED <<dbVars, brokerVars, taskVars, envVars>>

(* Mutation: a payment window shorter than the life of the locks.          *)
ShortPaymentWindow == LockTtl - 1

PaymentWindow == LockTtl

(* expiresAt is computed, then the transaction runs.                       *)
StartSave(r) ==
    /\ hold[r] = "locked"
    /\ HoldGoto(r, "saving")
    /\ window' = [window EXCEPT ![r] = PaymentWindow]
    /\ UNCHANGED <<lockVars, status, payVars, brokerVars, taskVars, envVars, histVars>>

SaveHold(r) ==
    /\ hold[r] = "saving"
    /\ HoldGoto(r, "saved")
    /\ status' = [status EXCEPT ![r] = "PENDING"]
    /\ UNCHANGED <<lockVars, window, payVars, brokerVars, taskVars, envVars, histVars>>

(* sendToDelayQueue: nothing is sent, and nothing is said, when there never *)
(* was a channel; a closed channel throws.  The channel has no publisher    *)
(* confirms: sendToQueue leaves the message in the buffer of the socket,    *)
(* and the client gets its answer.                                          *)
SendDelay(r) ==
    /\ hold[r] = "saved"
    /\ channel # "closed"
    /\ HoldGoto(r, "done")
    /\ msg' = [msg EXCEPT ![r] = IF channel = "ready" THEN "buffered" ELSE @]
    /\ UNCHANGED <<lockVars, dbVars, delayLeft, announced, channel, taskVars, envVars,
                   histVars>>

SendThrows(r) ==
    /\ hold[r] = "saved"
    /\ channel = "closed"
    /\ HoldGoto(r, "undo")
    /\ UNCHANGED <<lockVars, dbVars, brokerVars, taskVars, envVars, histVars>>

(* The catch block: the locks go, a row that was committed stays PENDING.  *)
Undo(r) ==
    /\ hold[r] = "undo"
    /\ ReleaseLocks(r, want[r])
    /\ HoldGoto(r, "failed")
    /\ UNCHANGED <<dbVars, brokerVars, taskVars, envVars>>

(* An exception.  Outside the try block (up to the locks, and in the catch *)
(* block itself) it ends the request with its locks in place.              *)
HoldFault(r) ==
    /\ \/ hold[r] \in {"checked", "locking", "rollback", "undo"} /\ HoldGoto(r, "failed")
       \/ hold[r] \in {"saving", "saved"} /\ HoldGoto(r, "undo")
    /\ Fault
    /\ UNCHANGED <<lockVars, dbVars, brokerVars, taskVars, histVars>>

----------------------------------------------------------------------------
(* Payments and cancellation: requests on a reservation whose hold has     *)
(* answered its client.  A request has read the row when it starts, and    *)
(* writes at a later step.                                                 *)

Goto(h, step) ==
    /\ pc' = [pc EXCEPT ![h] = step]
    /\ target' = IF step = "idle" THEN [target EXCEPT ![h] = None] ELSE target

Start(h, r, step) ==
    /\ pc[h] = "idle"
    /\ hold[r] = "done"
    /\ pc' = [pc EXCEPT ![h] = step]
    /\ target' = [target EXCEPT ![h] = r]
    /\ UNCHANGED <<lockVars, holdVars, dbVars, brokerVars, histVars>>

(* Mutation: the reservationSeat relation is not loaded with the row.      *)
SeatsNotLoaded(r) == {}

(* The seats of a reservation row, as its reservationSeat relation.        *)
SeatsOf(r) == want[r]

(* Mutation: usedCount is read at 0, incremented in memory, then saved.    *)
CountUseStale(r) == usedCount' = IF coupon[r] THEN 1 ELSE usedCount

(* increment: UPDATE ... SET used_count = used_count + 1.                  *)
CountUse(r) == usedCount' = IF coupon[r] THEN usedCount + 1 ELSE usedCount

(* Mutation: the reservation is changed in memory and never saved.         *)
ConfirmUnsaved(r) ==
    /\ payment' = [payment EXCEPT ![r] = "SUCCESS"]
    /\ CountUse(r)
    /\ UNCHANGED <<lockVars, holdVars, status, window, urls, brokerVars, envVars, histVars>>

(* The transaction of checkout and of the notification: the payment has    *)
(* succeeded, the reservation is saved whole, whatever its status has      *)
(* become since it was read, and the discount is counted once more.        *)
Confirm(r) ==
    /\ payment' = [payment EXCEPT ![r] = "SUCCESS"]
    /\ status' = [status EXCEPT ![r] = "CONFIRMED"]
    /\ CountUse(r)
    /\ windows' = windows \cup SaleWindows(r)
    /\ missed' = [q \in Reservation |-> missed[q] \cup MissedSale(r, q)]
    /\ UNCHANGED <<lockVars, holdVars, window, urls, brokerVars, envVars, heldFor, released>>

(* Mutation: the status of the reservation is not looked at.               *)
PayableInTime(r) == window[r] > 0

Payable(r) == status[r] = "PENDING" /\ window[r] > 0

CheckoutStart(h, r) ==
    /\ "checkout" \in Ops
    /\ Payable(r)
    /\ Start(h, r, "pay")
    /\ UNCHANGED envVars

(* checkout inserts the payment row.                                       *)
CheckoutCommit(h) ==
    /\ pc[h] = "pay"
    /\ payment[target[h]] = "NONE"
    /\ Confirm(target[h])
    /\ Goto(h, "release_paid")

(* payments.reservation_id is unique: an insertion fails, and with it the  *)
(* transaction, when there is a row already.                               *)
InsertDuplicate(h) ==
    /\ pc[h] \in {"pay", "insert_payment"}
    /\ payment[target[h]] # "NONE"
    /\ Goto(h, "idle")
    /\ UNCHANGED <<lockVars, holdVars, dbVars, brokerVars, envVars, histVars>>

(* handleIpn, with a valid checksum, for a reservation that has a payment  *)
(* URL.  A confirmed one is acknowledged without any change.               *)
IpnStart(h, r, success) ==
    /\ notified < MaxNotify
    /\ r \in urls
    /\ status[r] # "CONFIRMED"
    /\ Start(h, r, IF success THEN "settle" ELSE "decline")
    /\ notified' = notified + 1
    /\ UNCHANGED <<untilShow, crashes, faults>>

(* Mutation: the notification path forgets the e-mail event.               *)
IpnSettleSilently(h) ==
    /\ pc[h] = "settle"
    /\ Confirm(target[h])
    /\ Goto(h, "release_cancelled")

IpnSettle(h) ==
    /\ pc[h] = "settle"
    /\ Confirm(target[h])
    /\ Goto(h, "release_paid")

IpnDecline(h) ==
    /\ pc[h] = "decline"
    /\ payment' = [payment EXCEPT ![target[h]] = "FAILED"]
    /\ Goto(h, "idle")
    /\ UNCHANGED <<lockVars, holdVars, rowVars, urls, usedCount, brokerVars, envVars,
                   histVars>>

(* createPaymentUrl: the payment row is looked up, then inserted, or saved *)
(* back as PENDING whatever it has become; then the client has the URL.    *)
UrlStart(h, r) ==
    /\ "url" \in Ops
    /\ Payable(r)
    /\ Start(h, r, "find_payment")
    /\ UNCHANGED envVars

UrlFind(h) ==
    /\ pc[h] = "find_payment"
    /\ Goto(h, IF payment[target[h]] = "NONE" THEN "insert_payment" ELSE "update_payment")
    /\ UNCHANGED <<lockVars, holdVars, dbVars, brokerVars, envVars, histVars>>

UrlSave(h) ==
    /\ \/ pc[h] = "insert_payment" /\ payment[target[h]] = "NONE"
       \/ pc[h] = "update_payment"
    /\ payment' = [payment EXCEPT ![target[h]] = "PENDING"]
    /\ urls' = urls \cup {target[h]}
    /\ Goto(h, "idle")
    /\ UNCHANGED <<lockVars, holdVars, rowVars, usedCount, brokerVars, envVars, histVars>>

(* After a confirmed payment: the locks are released, then the e-mail event *)
(* is published, if there is a channel to publish it on.                    *)
ReleasePaid(h) ==
    /\ pc[h] = "release_paid"
    /\ ReleaseLocks(target[h], SeatsOf(target[h]))
    /\ Goto(h, "tickets")
    /\ UNCHANGED <<holdVars, dbVars, brokerVars, envVars>>

PublishTickets(h) ==
    /\ pc[h] = "tickets"
    /\ announced' = IF channel = "ready" THEN announced \cup {target[h]} ELSE announced
    /\ Goto(h, "idle")
    /\ UNCHANGED <<lockVars, holdVars, dbVars, msg, delayLeft, channel, envVars, histVars>>

(* cancelReservation: a paid ticket only with notice; no refund is made.   *)
CancelStart(h, r) ==
    /\ "cancel" \in Ops
    /\ status[r] = "PENDING" \/ (status[r] = "CONFIRMED" /\ untilShow >= CancelNotice)
    /\ Start(h, r, "cancel")
    /\ UNCHANGED envVars

(* Mutation: the cancelled row is changed in memory and never saved.        *)
CancelUnsaved(h) ==
    /\ pc[h] = "cancel"
    /\ Goto(h, "release_cancelled")
    /\ UNCHANGED <<lockVars, holdVars, dbVars, brokerVars, envVars, histVars>>

(* Mutation: the locks of a cancelled reservation are not released.         *)
CancelKeepsLocks(h) ==
    /\ pc[h] = "cancel"
    /\ status' = [status EXCEPT ![target[h]] = "CANCELLED"]
    /\ Goto(h, "idle")
    /\ UNCHANGED <<lockVars, holdVars, window, payVars, brokerVars, envVars, histVars>>

CancelSave(h) ==
    /\ pc[h] = "cancel"
    /\ status' = [status EXCEPT ![target[h]] = "CANCELLED"]
    /\ Goto(h, "release_cancelled")
    /\ UNCHANGED <<lockVars, holdVars, window, payVars, brokerVars, envVars, histVars>>

ReleaseCancelled(h) ==
    /\ pc[h] = "release_cancelled"
    /\ ReleaseLocks(target[h], SeatsOf(target[h]))
    /\ Goto(h, "idle")
    /\ UNCHANGED <<holdVars, dbVars, brokerVars, envVars>>

----------------------------------------------------------------------------
(* The expiry message and its consumer.  The callbacks of several messages *)
(* run at once; msg[r] is the step the message of r has reached.           *)

MsgGoto(r, step) ==
    /\ msg' = [msg EXCEPT ![r] = step]
    /\ UNCHANGED <<delayLeft, announced, channel>>

(* Mutation: a messageTtl below the life of the locks.                     *)
ShortMessageTtl == LockTtl - 1

MessageTtl == DelayTtl

(* The message reaches the broker, which stores it; its delay begins.      *)
Enqueue(r) ==
    /\ msg[r] = "buffered"
    /\ msg' = [msg EXCEPT ![r] = "delayed"]
    /\ delayLeft' = [delayLeft EXCEPT ![r] = MessageTtl]
    /\ UNCHANGED <<lockVars, holdVars, dbVars, announced, channel, taskVars, envVars,
                   histVars>>

(* Mutation: the delay queue has no dead-letter exchange.                  *)
DeadLetterDiscarded(r) ==
    /\ msg[r] = "delayed" /\ delayLeft[r] = 0
    /\ MsgGoto(r, "none")
    /\ UNCHANGED <<lockVars, holdVars, dbVars, taskVars, envVars, histVars>>

(* The delay is over: RabbitMQ dead-letters the message.                   *)
DeadLetter(r) ==
    /\ msg[r] = "delayed" /\ delayLeft[r] = 0
    /\ MsgGoto(r, "expired")
    /\ UNCHANGED <<lockVars, holdVars, dbVars, taskVars, envVars, histVars>>

(* The row is read; a message for a settled row is acknowledged at once.   *)
ExpireRead(r) ==
    /\ msg[r] = "expired"
    /\ channel = "ready"
    /\ MsgGoto(r, IF status[r] = "PENDING" THEN "expiring" ELSE "acked")
    /\ UNCHANGED <<lockVars, holdVars, dbVars, taskVars, envVars, histVars>>

(* The row is saved as EXPIRED, whatever it has become since it was read.  *)
ExpireSave(r) ==
    /\ msg[r] = "expiring"
    /\ status' = [status EXCEPT ![r] = "EXPIRED"]
    /\ MsgGoto(r, "releasing")
    /\ UNCHANGED <<lockVars, holdVars, window, payVars, taskVars, envVars, histVars>>

(* The locks go and the message is acknowledged; if the channel has closed *)
(* meanwhile the broker has put the message back in its queue.  (So it has *)
(* if the acknowledgement is lost on its way; the row is no longer PENDING *)
(* then, and the message is acknowledged again with no other effect.)      *)
ExpireRelease(r) ==
    /\ msg[r] = "releasing"
    /\ ReleaseLocks(r, SeatsOf(r))
    /\ MsgGoto(r, IF channel = "ready" THEN "acked" ELSE "expired")
    /\ UNCHANGED <<holdVars, dbVars, taskVars, envVars>>

----------------------------------------------------------------------------
(* Faults, restarts and time                                               *)

(* A query or command of a handler, or of the consumer, throws.  The       *)
(* consumer logs it and neither acknowledges nor rejects its message.      *)
TaskFault(h) ==
    /\ pc[h] # "idle"
    /\ Goto(h, "idle")
    /\ Fault
    /\ UNCHANGED <<lockVars, holdVars, dbVars, brokerVars, histVars>>

ExpireFault(r) ==
    /\ msg[r] \in {"expiring", "releasing"}
    /\ MsgGoto(r, "stuck")
    /\ Fault
    /\ UNCHANGED <<lockVars, holdVars, dbVars, taskVars, histVars>>

(* What the broker has not received goes with the connection.              *)
Unsent(m) == IF m = "buffered" THEN "lost" ELSE m

(* The application sees its channel closed; nothing reopens it before a    *)
(* restart.  The connection may have been dead for long, and a message     *)
(* sent meanwhile was never enqueued.                                      *)
BrokerCloses ==
    /\ channel = "ready"
    /\ channel' = "closed"
    /\ msg' = [r \in Reservation |-> Unsent(msg[r])]
    /\ Fault
    /\ UNCHANGED <<lockVars, holdVars, dbVars, delayLeft, announced, taskVars, histVars>>

(* Mutation: messages are acknowledged as they are delivered.              *)
AfterRestartAutoAck(m) ==
    IF m \in {"expiring", "releasing", "stuck"} THEN "acked" ELSE Unsent(m)

(* A message that was not acknowledged is delivered again.                 *)
AfterRestart(m) ==
    IF m \in {"expiring", "releasing", "stuck"} THEN "expired" ELSE Unsent(m)

(* The application stops and starts again: requests in progress are gone,  *)
(* Redis, Postgres and the broker's queues stay, what is in transit to the *)
(* broker does not.                                                        *)
Crash ==
    /\ crashes < MaxCrashes
    /\ crashes' = crashes + 1
    /\ hold' = [r \in Reservation |->
                  IF hold[r] \in {"none", "done"} THEN hold[r] ELSE "failed"]
    /\ pc' = [h \in Handler |-> "idle"]
    /\ target' = [h \in Handler |-> None]
    /\ msg' = [r \in Reservation |-> AfterRestart(msg[r])]
    /\ channel' \in BrokerStates
    /\ UNCHANGED <<lockVars, want, got, coupon, dbVars, delayLeft, announced, untilShow,
                   notified, faults, histVars>>

Less(n) == IF n = 0 THEN 0 ELSE n - 1

(* One unit of time: every deadline comes closer, and Redis drops the keys *)
(* whose time to live is over.                                             *)
Tick ==
    /\ \/ untilShow > 0
       \/ \E s \in Seat : ttl[s] > 0
       \/ \E r \in Reservation : window[r] > 0 \/ delayLeft[r] > 0 \/ heldFor[r] > 0
    /\ owner' = [s \in Seat |-> IF ttl[s] = 1 THEN None ELSE owner[s]]
    /\ ttl' = [s \in Seat |-> Less(ttl[s])]
    /\ window' = [r \in Reservation |-> Less(window[r])]
    /\ delayLeft' = [r \in Reservation |-> Less(delayLeft[r])]
    /\ heldFor' = [r \in Reservation |-> Less(heldFor[r])]
    /\ untilShow' = Less(untilShow)
    /\ UNCHANGED <<holdVars, status, payVars, msg, announced, channel, taskVars, notified,
                   crashes, faults, released, missed, windows>>

----------------------------------------------------------------------------
HoldStep(r) ==
    \/ HoldPrice(r)
    \/ \E s \in Seat : AcquireSeat(r, s) \/ ConflictSeat(r, s)
    \/ Rollback(r) \/ StartSave(r) \/ SaveHold(r)
    \/ SendDelay(r) \/ SendThrows(r) \/ Undo(r)

TaskStep(h) ==
    \/ CheckoutCommit(h) \/ InsertDuplicate(h)
    \/ IpnSettle(h) \/ IpnDecline(h)
    \/ UrlFind(h) \/ UrlSave(h)
    \/ ReleasePaid(h) \/ PublishTickets(h)
    \/ CancelSave(h) \/ ReleaseCancelled(h)

BrokerStep(r) == Enqueue(r) \/ DeadLetter(r)

ConsumerStep(r) == ExpireRead(r) \/ ExpireSave(r) \/ ExpireRelease(r)

Request ==
    \/ \E r \in Reservation, S \in (SUBSET Seat) \ {{}}, c \in Coupons : HoldCheck(r, S, c)
    \/ \E h \in Handler, r \in Reservation :
        \/ CheckoutStart(h, r) \/ UrlStart(h, r) \/ CancelStart(h, r)
        \/ \E success \in BOOLEAN : IpnStart(h, r, success)

Failure ==
    \/ \E r \in Reservation : HoldFault(r) \/ ExpireFault(r)
    \/ \E r \in Reservation, s \in Seat : AcquireRetried(r, s)
    \/ \E h \in Handler : TaskFault(h)
    \/ BrokerCloses
    \/ Crash

Next ==
    \/ Request
    \/ \E r \in Reservation : HoldStep(r) \/ BrokerStep(r) \/ ConsumerStep(r)
    \/ \E h \in Handler : TaskStep(h)
    \/ Failure
    \/ Tick

Spec == Init /\ [][Next]_vars

(* What the program and its servers do by themselves goes on: a request in *)
(* progress takes its next step, the socket is flushed as long as its      *)
(* connection lives, the broker delivers, time passes.  Nobody has to make *)
(* a request, and nothing has to fail.                                     *)
FairSpec ==
    /\ Spec
    /\ \A r \in Reservation : WF_vars(HoldStep(r)) /\ WF_vars(BrokerStep(r))
                              /\ WF_vars(ConsumerStep(r))
    /\ \A h \in Handler : WF_vars(TaskStep(h))
    /\ WF_vars(Tick)
=============================================================================
