------------------------- MODULE BookingProperties -------------------------
(***************************************************************************)
(* What the booking flow promises, and what the README says it promises.   *)
(* MCBooking checks these on small instances; BookingProofs proves the     *)
(* first of them for every instance.                                       *)
(***************************************************************************)
EXTENDS Booking

(* Every variable stays within the values the code gives it.               *)
TypeOK ==
    /\ owner \in [Seat -> Reservation \cup {None}]
    /\ ttl \in [Seat -> 0..LockTtl]
    /\ hold \in [Reservation -> HoldSteps]
    /\ want \in [Reservation -> SUBSET Seat]
    /\ got \in [Reservation -> SUBSET Seat]
    /\ coupon \in [Reservation -> BOOLEAN]
    /\ status \in [Reservation -> Statuses]
    /\ window \in [Reservation -> 0..LockTtl]
    /\ payment \in [Reservation -> PaymentStatuses]
    /\ urls \subseteq Reservation
    /\ usedCount \in Nat
    /\ msg \in [Reservation -> MsgSteps]
    /\ delayLeft \in [Reservation -> 0..DelayTtl]
    /\ pc \in [Handler -> TaskSteps]
    /\ target \in [Handler -> Reservation \cup {None}]
    /\ \A h \in Handler : pc[h] = "idle" <=> target[h] = None
    /\ announced \subseteq Reservation
    /\ channel \in {"ready", "absent", "closed"}
    /\ untilShow \in 0..ShowIn
    /\ notified \in 0..MaxNotify
    /\ crashes \in 0..MaxCrashes
    /\ faults \in 0..MaxFaults
    /\ heldFor \in [Reservation -> 0..LockTtl]
    /\ released \subseteq Reservation
    /\ missed \in [Reservation -> SUBSET Seat]
    /\ windows \subseteq Hazards

(* Whether r still has every claim on the seats it locked.                 *)
Alive(r) == r \notin released /\ heldFor[r] > 0

(* No seat of the showtime is sold twice.                                  *)
NoDoubleBooking ==
    \A r, q \in Reservation :
        r # q /\ status[r] = "CONFIRMED" /\ status[q] = "CONFIRMED"
            => want[r] \cap want[q] = {}

(* As long as none of the four named hazards has come true, the locks and  *)
(* the availability check keep every seat from being sold twice, whatever  *)
(* the interleaving of holds, payments, notifications, cancellations and   *)
(* expiries: there is no fifth way to a double booking.                    *)
SoldOnceOutsideWindows == windows = {} => NoDoubleBooking

(* The queue's messageTtl never cuts a client's ten minutes short: the row *)
(* becomes EXPIRED only after its expiresAt.                               *)
NeverExpiredEarly == \A r \in Reservation : status[r] = "EXPIRED" => window[r] = 0

(* A row and its locks live together: once expiresAt is set, none of the   *)
(* request's locks outlives it, so no seat stays blocked for a hold whose  *)
(* deadline is over.                                                       *)
HoldNeverOutlivesDeadline ==
    \A r \in Reservation, s \in Seat :
        owner[s] = r /\ hold[r] \in {"saving", "saved", "done"} => ttl[s] <= window[r]

Releasing(r) ==
    \/ msg[r] = "releasing"
    \/ \E h \in Handler :
          target[h] = r /\ pc[h] \in {"release_paid", "release_cancelled"}

(* Without faults or restarts every key in Redis is accounted for: its     *)
(* owner is a request still at work, an unpaid reservation, or one whose   *)
(* release is under way.  No path forgets a lock.                          *)
LockAccounted ==
    crashes = 0 /\ faults = 0 =>
        \A r \in Reservation, s \in Seat :
            owner[s] = r =>
                /\ s \in got[r]
                /\ \/ hold[r] \in {"locking", "locked", "saving", "saved", "rollback"}
                   \/ hold[r] = "done" /\ (status[r] = "PENDING" \/ Releasing(r))

(* A payment that succeeded has settled its reservation: the two rows are  *)
(* written in one transaction, and no later save of a row read earlier     *)
(* brings PENDING back.                                                    *)
PaidIsSettled ==
    \A r \in Reservation : payment[r] = "SUCCESS" => status[r] \notin {"NONE", "PENDING"}

(* The discount is never undercounted: every confirmed reservation that    *)
(* used it is in usedCount, in any interleaving of the transactions.       *)
UsageNeverUndercounted ==
    usedCount >= Cardinality({r \in Reservation : coupon[r] /\ status[r] = "CONFIRMED"})

(* An unpaid hold whose client was answered always has its expiry message  *)
(* on the way to the broker, in the broker or in the consumer's hands,     *)
(* through restarts, redelivery and exceptions, provided the application   *)
(* starts with a channel.  The one loss is that of a message still in      *)
(* transit when the connection broke or the application stopped: none      *)
(* without a fault, none once the broker has the message.                  *)
TimeoutNotLost ==
    "absent" \notin BrokerStates =>
        \A r \in Reservation :
            hold[r] = "done" /\ status[r] = "PENDING"
                => \/ msg[r] \in {"buffered", "delayed", "expired", "expiring", "stuck"}
                   \/ msg[r] = "lost" /\ crashes + faults > 0

(* A reservation that is paid before its deadline is kept: the expiry       *)
(* message arrives later and finds it paid, so that nothing but a           *)
(* cancellation ends it.  (PaidNeverExpired fails for payments that are     *)
(* committed after the deadline.)                                          *)
PaidInTimeIsKept ==
    \A r \in Reservation :
        [](status[r] = "CONFIRMED" /\ window[r] > 0 => [](status[r] \in {"CONFIRMED", "CANCELLED"}))

Paying(h) == pc[h] \in {"pay", "settle", "find_payment", "insert_payment", "update_payment"}

(* What ended unpaid, with no payment under way and no payment URL in the   *)
(* client's hands, is never sold: nothing that is already in progress, the  *)
(* expiry, other cancellations, a restart, brings it back.                  *)
Abandoned(r) ==
    /\ status[r] \in {"CANCELLED", "EXPIRED"} /\ r \notin urls
    /\ \A h \in Handler : target[h] = r => ~Paying(h)

EndedStaysEnded ==
    \A r \in Reservation : [](Abandoned(r) => [](status[r] # "CONFIRMED"))

(* The discount is used up, and r has not been granted it.                  *)
TooLate(r) ==
    /\ usedCount >= UsageLimit
    /\ \/ hold[r] \in {"none", "checked"}
       \/ ~coupon[r]
       \/ hold[r] = "failed" /\ status[r] = "NONE"

(* Once the discount has reached its limit, no reservation gets it that     *)
(* did not have it then, neither with the discount's next look-up nor later: *)
(* only holds that were priced before can exceed the limit.                 *)
LimitClosesDiscount == [][\A r \in Reservation : TooLate(r) => TooLate(r)']_vars

(* The usage limit of the discount, as the README has it.                  *)
UsageWithinLimit == usedCount <= UsageLimit

(* Only unpaid reservations expire, as the README has it.                  *)
PaidNeverExpired ==
    [][\A r \in Reservation : status[r] = "CONFIRMED" => status'[r] # "EXPIRED"]_vars

(* Every lock ends, whatever happens to the request that took it: no seat  *)
(* is blocked for good by a request that fails, a client that leaves or an *)
(* application that stops.                                                 *)
LocksLapse == \A s \in Seat : owner[s] # None ~> owner[s] = None

(* Every unpaid reservation is paid, cancelled or expired in the end, as   *)
(* the README has it.                                                      *)
UnpaidExpires == \A r \in Reservation : status[r] = "PENDING" ~> status[r] # "PENDING"

(* ... and it is, through a restart at any step of the payment, the expiry *)
(* and the other requests, unless the hold request itself was cut off      *)
(* between its transaction and the broker's receipt of its message.        *)
AnsweredExpires ==
    \A r \in Reservation :
        status[r] = "PENDING"
            ~> status[r] # "PENDING" \/ hold[r] = "failed" \/ msg[r] = "lost"

(* The e-mail event of every confirmed reservation is published, unless a  *)
(* restart comes between the transaction and the event: no interleaving    *)
(* with the expiry or a cancellation drops it.                             *)
ConfirmedIsAnnounced ==
    \A r \in Reservation : status[r] = "CONFIRMED" ~> r \in announced \/ crashes > 0

----------------------------------------------------------------------------
(* What these three rest on, apart from fairness: nothing that has to come   *)
(* is lost, and nothing but a fault or a restart puts it off.               *)

(* Every lock has an end, and it only comes closer: no step renews a lock   *)
(* or takes its end away, and time always shortens it.                      *)
LocksRunOut ==
    [][\A s \in Seat : owner[s] # None =>
          /\ ttl[s] > 0
          /\ owner'[s] = owner[s] => ttl'[s] <= ttl[s]
          /\ Tick => ttl'[s] < ttl[s]]_vars

(* As long as a reservation stays unpaid its expiry message moves on, or     *)
(* time brings it closer: no request puts it off, drops it or takes it back *)
(* from the consumer.                                                       *)
ExpiryNotPostponed ==
    [][\A r \in Reservation :
          /\ status[r] = "PENDING" /\ status'[r] = "PENDING"
          /\ crashes' = crashes /\ faults' = faults
          => /\ msg[r] = "buffered" => msg'[r] \in {"buffered", "delayed"}
             /\ msg[r] = "delayed" =>
                 \/ msg'[r] = "delayed" /\ delayLeft'[r] <= delayLeft[r]
                    /\ (Tick /\ delayLeft[r] > 0 => delayLeft'[r] < delayLeft[r])
                 \/ msg'[r] = "expired" /\ delayLeft[r] = 0
             /\ msg[r] = "expired" => msg'[r] \in {"expired", "expiring"}
             /\ msg[r] = "expiring" => msg'[r] = "expiring"]_vars

(* Without faults or restarts, a payment that succeeded has been announced   *)
(* or a request that will announce it is at work, whatever has become of    *)
(* the reservation meanwhile.                                               *)
AnnouncementUnderWay ==
    crashes = 0 /\ faults = 0 /\ "absent" \notin BrokerStates =>
        \A r \in Reservation :
            status[r] = "CONFIRMED" \/ payment[r] = "SUCCESS" =>
                \/ r \in announced
                \/ \E h \in Handler : target[h] = r /\ pc[h] \in {"release_paid", "tickets"}
----------------------------------------------------------------------------
(* Inductive invariants.  The promises above are not inductive; these are, *)
(* together with TypeOK, and imply them.                                   *)

(* How far a request has come says what it has locked and what rows and    *)
(* messages there can be about it; requests of other kinds only work on    *)
(* reservations whose hold is done.                                        *)
StepsAgree ==
    /\ \A r \in Reservation :
        /\ hold[r] \in {"none", "checked"} => got[r] = {}
        /\ got[r] \subseteq want[r]
        /\ hold[r] \in {"locked", "saving", "saved", "undo", "done"} => got[r] = want[r]
        /\ hold[r] \notin {"saved", "undo", "done", "failed"} => status[r] = "NONE"
        /\ hold[r] # "done" =>
              /\ status[r] \in {"NONE", "PENDING"}
              /\ payment[r] = "NONE"
              /\ msg[r] = "none"
              /\ r \notin urls
        /\ hold[r] \in {"saved", "done"} => status[r] # "NONE"
        /\ msg[r] = "releasing" => status[r] # "PENDING"
        /\ r \in released =>
              hold[r] = "failed" \/ (hold[r] = "done" /\ status[r] # "PENDING")
    /\ \A h \in Handler :
        /\ pc[h] # "idle" => hold[target[h]] = "done"
        /\ pc[h] \in {"release_paid", "release_cancelled"} => status[target[h]] # "PENDING"

(* Outside the four hazards, a request whose first lock has not run out,   *)
(* and whose locks were never released, owns every seat it locked.         *)
LocksAreOwned ==
    windows = {} =>
        \A r \in Reservation, s \in Seat :
            Alive(r) /\ s \in got[r] => owner[s] = r /\ ttl[s] >= heldFor[r]

(* A seat sold to one request, which another wants but has yet to lock,    *)
(* was sold after that other request found it unsold.                      *)
SalesAreMissed ==
    \A r, q \in Reservation :
        hold[q] \in {"checked", "locking"} /\ status[r] = "CONFIRMED"
            => want[r] \cap (want[q] \ got[q]) \subseteq missed[q]

(* ... and no request with a live first lock has locked a seat sold to      *)
(* another.                                                                *)
NoLiveLockOnSold ==
    windows = {} =>
        \A r, q \in Reservation :
            r # q /\ status[r] = "CONFIRMED" /\ Alive(q) => want[r] \cap got[q] = {}

(* The expiry message is in its queue no shorter than the window lasts.    *)
ExpiryAfterWindow ==
    \A r \in Reservation :
        /\ msg[r] = "delayed" => window[r] <= delayLeft[r]
        /\ msg[r] \in {"expired", "expiring", "releasing", "stuck", "acked"} => window[r] = 0
        /\ status[r] = "EXPIRED" => window[r] = 0

(* A key of Redis has an owner exactly as long as it has time to live.     *)
KeysExpire == \A s \in Seat : owner[s] # None <=> ttl[s] > 0

(* A channel that is absent was absent when the application started.       *)
ChannelFromStart == channel = "absent" => "absent" \in BrokerStates

(* A channel closes by a fault only, so without faults no send throws.     *)
ChannelClosedByFault == channel = "closed" => faults > 0
=============================================================================
