----------------------------- MODULE Discounts -----------------------------
(***************************************************************************)
(* The discounts, the reservations of one showtime that use them, and what *)
(* administrators do to both meanwhile: a discount is created, changed and *)
(* removed, the showtime is removed, while reservations are held, paid     *)
(* for, cancelled and expired.  Booking has the seats, the locks and the   *)
(* clock; here a reservation is its row: status, discountId and amounts.   *)
(*                                                                         *)
(* A request that creates a discount is also the name of its row, and so   *)
(* is a hold request of its reservation's.  An action is one step between  *)
(* two awaits.  Two transactions hold locks from one step to the next, as  *)
(* Postgres keeps them: a payment's on the reservation's row, a removal's  *)
(* on the discount's.                                                      *)
(***************************************************************************)
EXTENDS Integers, FiniteSets, Pricing

CONSTANTS
    Request,     \* the HTTP requests and expiry messages
    First,       \* the discount there is at first
    None,        \* no discount, no row, nothing read
    Code,        \* the codes of discounts
    Settings,    \* what administrators give discounts: code, terms, limit, isActive
    Price,       \* the showtime's price, in cents
    Baskets,     \* the seats clients choose: how many of each type
    MaxFaults    \* bound: restarts of the application, and queries that throw

ASSUME FirstAssumption ==
    {First, None} \cap Request = {} /\ First # None /\ None \notin Settings
ASSUME PricingAssumption ==
    /\ Settings \subseteq [code : Code, terms : AllTerms, limit : Nat, active : BOOLEAN]
    /\ Price \in Nat /\ Baskets \subseteq [SeatTypes -> Nat]
    /\ MaxFaults \in Nat

VARIABLES
    rows, settings, used,       \* the discounts: ids, columns, usedCount
    showtime,                   \* whether the showtime has its row
    status, ref, price,         \* the reservations: status, discountId, amounts
    op, step, on,               \* each request: what it does, how far, on which row
    loaded, count, link,        \* the discount, its usedCount, the discountId it has read
    faults,                     \* the restarts and faults so far
    agreed, uses, granted, spoiled, stale  \* history, read by no guard (see "History")

discountVars == <<rows, settings, used>>
bookingVars  == <<showtime, status, ref, price>>
requestVars  == <<op, step, on, loaded, count, link, stale>>
histVars     == <<agreed, uses, granted, spoiled>>
vars == <<discountVars, bookingVars, requestVars, faults, histVars>>

Discount == Request \cup {First}

Statuses == {"NONE", "PENDING", "CONFIRMED", "CLOSED"}
Ops == {"none", "create", "update", "switch", "remove", "hold", "settle", "cancel", "expire"}
Steps == {"new", "insert", "find_code", "save", "delete", "nulling", "insert_hold",
          "save_paid", "count", "queued", "save_closed", "stuck", "done"}

(* The amounts of a reservation, as the database keeps them.               *)
NoAmounts == [original |-> 0, discount |-> 0, final |-> 0]

Amounts(t, order) ==
    [original |-> InCents(OfOrder(order)),
     discount |-> InCents(HoldDiscount(t, order)),
     final    |-> InCents(HoldFinal(t, order))]

----------------------------------------------------------------------------
(* History.  Five variables only the properties read:                      *)
(*   agreed[r]   the terms and the order the amounts of r were computed from; *)
(*   uses[d]     the payments that were committed with d;                  *)
(*   granted[d]  isActive as it was last set by an administrator;          *)
(*   spoiled[d]  what of d a stale update has saved;                       *)
(*   stale[q]    what of the discount that update q has read was changed   *)
(*               since: its usedCount by a payment, isActive by another.   *)

Facts == {"used", "active"}

Updating(q, d) == op[q] \in {"update", "switch"} /\ step[q] \in {"find_code", "save"} /\ on[q] = d

(* q ends, having changed `facts' of d under the updates that have read it. *)
Overtake(d, facts, q) ==
    stale' = [p \in Request |-> IF p = q THEN {}
                               ELSE IF Updating(p, d) THEN stale[p] \cup facts ELSE stale[p]]

----------------------------------------------------------------------------
Init ==
    /\ rows = {First}
    /\ \E s \in Settings : settings = [d \in Discount |-> s]
    /\ used = [d \in Discount |-> 0]
    /\ showtime = TRUE
    /\ status = [r \in Request |-> "NONE"]
    /\ ref = [r \in Request |-> None]
    /\ price = [r \in Request |-> NoAmounts]
    /\ op = [q \in Request |-> "none"]
    /\ step = [q \in Request |-> "new"]
    /\ on = [q \in Request |-> None]
    /\ loaded = [q \in Request |-> None]
    /\ count = [q \in Request |-> 0]
    /\ link = [q \in Request |-> None]
    /\ faults = 0
    /\ agreed = [r \in Request |-> [terms |-> settings[First].terms, order |-> 0]]
    /\ uses = [d \in Discount |-> 0]
    /\ granted = [d \in Discount |-> settings[d].active]
    /\ stale = [q \in Request |-> {}]
    /\ spoiled = [d \in Discount |-> {}]

Begin(q, o, s, r) ==
    /\ step[q] = "new"
    /\ op' = [op EXCEPT ![q] = o]
    /\ step' = [step EXCEPT ![q] = s]
    /\ on' = [on EXCEPT ![q] = r]
    /\ UNCHANGED <<discountVars, showtime, status, ref, stale, faults>>

Goto(q, s) ==
    /\ step' = [step EXCEPT ![q] = s]
    /\ UNCHANGED <<op, on, loaded, count, link, stale>>

(* A request that ends leaves nothing in memory.                           *)
Finish(q) ==
    /\ op' = [op EXCEPT ![q] = "none"]
    /\ step' = [step EXCEPT ![q] = "done"]
    /\ on' = [on EXCEPT ![q] = None]
    /\ loaded' = [loaded EXCEPT ![q] = None]
    /\ count' = [count EXCEPT ![q] = 0]
    /\ link' = [link EXCEPT ![q] = None]

End(q) == Finish(q) /\ stale' = [stale EXCEPT ![q] = {}]

(* The consumer catches the exception, and its message stays unacknowledged. *)
Fail(q) == IF op[q] = "expire" THEN Goto(q, "stuck") ELSE End(q)

(* Mutation: the consumer saves in a transaction of its own, and does not  *)
(* roll it back when the save throws.                                      *)
RowLockedByFailed(r) == \E q \in Request : step[q] \in {"count", "stuck"} /\ on[q] = r

(* The locks of the transactions that are between two statements: a payment *)
(* has written r, a removal has deleted d.                                 *)
RowLocked(r) == \E q \in Request : step[q] = "count" /\ on[q] = r

Deleting(d) == \E p \in Request : step[p] = "nulling" /\ on[p] = d

----------------------------------------------------------------------------
(* Administrators: createDiscount, update, remove                          *)

CodeTaken(c) == \E e \in rows : settings[e].code = c

(* Mutation: no unique index on the code.                                  *)
NotIndexed(d, c) == TRUE

(* The unique index: no other row has the code.  It waits for one that is  *)
(* being deleted.                                                          *)
IndexAllows(d, c) == \A e \in rows \ {d} : settings[e].code # c

IndexRefuses(d, c) == \E e \in rows \ {d} : settings[e].code = c /\ ~Deleting(e)

Create(q, s) ==
    /\ ~CodeTaken(s.code)
    /\ Begin(q, "create", "insert", q)
    /\ loaded' = [loaded EXCEPT ![q] = s]
    /\ UNCHANGED <<price, count, link, histVars>>

Insert(q) ==
    /\ step[q] = "insert"
    /\ IndexAllows(q, loaded[q].code)
    /\ rows' = rows \cup {q}
    /\ settings' = [settings EXCEPT ![q] = loaded[q]]
    /\ granted' = [granted EXCEPT ![q] = loaded[q].active]
    /\ End(q)
    /\ UNCHANGED <<used, bookingVars, faults, agreed, uses, spoiled>>

(* Mutation: a discount that is not there is updated all the same.         *)
UpdateAny(q, d, s) ==
    /\ s.active = settings[d].active
    /\ Begin(q, "update", IF s.code = settings[d].code THEN "save" ELSE "find_code", d)
    /\ loaded' = [loaded EXCEPT ![q] = s]
    /\ count' = [count EXCEPT ![q] = used[d]]
    /\ UNCHANGED <<price, link, histVars>>

(* update reads the row and assigns the columns the request names, all of  *)
(* them but isActive with "update", any with "switch".                     *)
Update(q, d, s) ==
    /\ d \in rows /\ s.active = settings[d].active
    /\ Begin(q, "update", IF s.code = settings[d].code THEN "save" ELSE "find_code", d)
    /\ loaded' = [loaded EXCEPT ![q] = s]
    /\ count' = [count EXCEPT ![q] = used[d]]
    /\ UNCHANGED <<price, link, histVars>>

Switch(q, d, s) ==
    /\ d \in rows
    /\ Begin(q, "switch", IF s.code = settings[d].code THEN "save" ELSE "find_code", d)
    /\ loaded' = [loaded EXCEPT ![q] = s]
    /\ count' = [count EXCEPT ![q] = used[d]]
    /\ UNCHANGED <<price, link, histVars>>

FindCode(q) ==
    /\ step[q] = "find_code"
    /\ IF CodeTaken(loaded[q].code) THEN End(q) ELSE Goto(q, "save")
    /\ UNCHANGED <<discountVars, bookingVars, faults, histVars>>

(* Mutation: the columns the request does not name go back to defaults.    *)
SavedWithDefaults(q) == [loaded[q] EXCEPT !.active = TRUE]

Saved(q) == loaded[q]

(* History: whether, and what, an update sets of isActive itself.          *)
Sets(q) == op[q] = "switch"
Active(q) == IF Sets(q) THEN {"active"} ELSE {}

(* save writes each column in which the row in memory differs from the     *)
(* table, usedCount too; it inserts the row when it is gone.               *)
SaveRow(q) ==
    /\ step[q] = "save" /\ ~Deleting(on[q])
    /\ IndexAllows(on[q], loaded[q].code)
    /\ rows' = rows \cup {on[q]}
    /\ settings' = [settings EXCEPT ![on[q]] = Saved(q)]
    /\ used' = [used EXCEPT ![on[q]] = count[q]]
    /\ granted' = [granted EXCEPT ![on[q]] = IF Sets(q) THEN loaded[q].active ELSE @]
    /\ spoiled' = [spoiled EXCEPT ![on[q]] = (@ \cup stale[q]) \ Active(q)]
    /\ Finish(q) /\ Overtake(on[q], Active(q), q)
    /\ UNCHANGED <<bookingVars, faults, agreed, uses>>

SaveRowRefused(q) ==
    /\ \/ step[q] = "insert"
       \/ step[q] = "save" /\ ~Deleting(on[q])
    /\ IndexRefuses(on[q], loaded[q].code)
    /\ End(q)
    /\ UNCHANGED <<discountVars, bookingVars, faults, histVars>>

Remove(q, d) ==
    /\ d \in rows
    /\ Begin(q, "remove", "delete", d)
    /\ UNCHANGED <<price, loaded, count, link, histVars>>

(* A payment that writes an old discountId back keeps its discount.        *)
Pinned(d) ==
    \E q \in Request : step[q] = "count" /\ link[q] = d /\ ref[on[q]] # d

(* DELETE takes the row's lock, or finds the row gone ...                  *)
Delete(q) ==
    /\ step[q] = "delete" /\ ~Deleting(on[q]) /\ ~Pinned(on[q])
    /\ IF on[q] \in rows THEN Goto(q, "nulling") ELSE End(q)
    /\ UNCHANGED <<discountVars, bookingVars, faults, histVars>>

(* Mutation: no ON DELETE SET NULL.                                        *)
KeepReferences(d) == ref' = ref

SetNull(d) == ref' = [r \in Request |-> IF ref[r] = d THEN None ELSE ref[r]]

(* A removal waits for the payments that have its reservations locked.      *)
WaitsForPayment(q) == \E r \in Request : ref[r] = on[q] /\ RowLocked(r)

(* ... and takes the discount from the reservations that have it, as soon  *)
(* as no payment has them locked.                                          *)
DeleteCommit(q) ==
    /\ step[q] = "nulling"
    /\ ~WaitsForPayment(q)
    /\ rows' = rows \ {on[q]}
    /\ SetNull(on[q])
    /\ End(q)
    /\ UNCHANGED <<settings, used, showtime, status, price, faults, histVars>>

----------------------------------------------------------------------------
(* holdSeats, as far as the discount goes                                  *)

(* The discount is looked up by its code among the active ones, and its    *)
(* limit and minimum are checked; then the amounts are computed.           *)
HoldRead(q, d, seats) ==
    LET order == OrderOf(Price, seats)
    IN  /\ showtime
        /\ d \in rows /\ settings[d].active
        /\ used[d] < settings[d].limit
        /\ 100 * order >= settings[d].terms.least
        /\ Begin(q, "hold", "insert_hold", q)
        /\ link' = [link EXCEPT ![q] = d]
        /\ price' = [price EXCEPT ![q] = Amounts(settings[d].terms, order)]
        /\ agreed' = [agreed EXCEPT ![q] = [terms |-> settings[d].terms, order |-> order]]
        /\ UNCHANGED <<loaded, count, uses, granted, spoiled>>

(* The transaction; the foreign keys refuse a discount or a showtime that  *)
(* is gone.                                                                *)
InsertHold(q) ==
    /\ step[q] = "insert_hold"
    /\ showtime /\ link[q] \in rows /\ ~Deleting(link[q])
    /\ status' = [status EXCEPT ![q] = "PENDING"]
    /\ ref' = [ref EXCEPT ![q] = link[q]]
    /\ End(q)
    /\ UNCHANGED <<discountVars, showtime, price, faults, histVars>>

HoldRefused(q) ==
    /\ step[q] = "insert_hold"
    /\ ~showtime \/ link[q] \notin rows
    /\ End(q)
    /\ UNCHANGED <<discountVars, bookingVars, faults, histVars>>

----------------------------------------------------------------------------
(* Payments, cancellations, expiry: each reads the reservation, and saves  *)
(* it whole later.                                                         *)

Read(q, r) ==
    /\ link' = [link EXCEPT ![q] = ref[r]]
    /\ UNCHANGED <<price, loaded, count, histVars>>

(* checkout, or the notification, which a reservation that was cancelled   *)
(* or has expired does not stop.                                           *)
Settle(q, r) ==
    /\ status[r] \in {"PENDING", "CLOSED"}
    /\ Begin(q, "settle", "save_paid", r)
    /\ Read(q, r)

Cancel(q, r) ==
    /\ status[r] \in {"PENDING", "CONFIRMED"}
    /\ Begin(q, "cancel", "save_closed", r)
    /\ Read(q, r)

(* The reservation's message arrives in the queue of expired holds.  One   *)
(* that finds its reservation paid for or cancelled changes nothing, and   *)
(* is left out.                                                            *)
Expire(q, r) ==
    /\ status[r] = "PENDING"
    /\ \A p \in Request : ~(op[p] = "expire" /\ on[p] = r)
    /\ Begin(q, "expire", "queued", r)
    /\ UNCHANGED <<price, loaded, count, link, histVars>>

ExpireRead(q) ==
    /\ step[q] = "queued"
    /\ IF status[on[q]] = "PENDING"
       THEN /\ step' = [step EXCEPT ![q] = "save_closed"]
            /\ link' = [link EXCEPT ![q] = ref[on[q]]]
            /\ UNCHANGED <<op, on, loaded, count, stale>>
       ELSE End(q)
    /\ UNCHANGED <<discountVars, bookingVars, faults, histVars>>

(* A row that is written with the discountId it has, or with one of a      *)
(* discount there is; it waits while that discount is being deleted.       *)
Writable(q) ==
    /\ status[on[q]] # "NONE" /\ ~RowLocked(on[q])
    /\ \/ link[q] \in {None, ref[on[q]]}
       \/ link[q] \in rows /\ ~Deleting(link[q])

(* The discount was removed after the row was read, or the row itself with *)
(* its showtime: save would write an id of nothing, and is refused.        *)
Unwritable(q) ==
    /\ ~RowLocked(on[q])
    /\ \/ status[on[q]] = "NONE"
       \/ link[q] \notin {None, ref[on[q]]} /\ link[q] \notin rows

(* The payment's transaction writes the reservation ...                    *)
SavePaid(q) ==
    /\ step[q] = "save_paid"
    /\ Writable(q)
    /\ Goto(q, "count")
    /\ UNCHANGED <<discountVars, bookingVars, faults, histVars>>

(* Mutations: usedCount stays as it is; it is decremented.                 *)
CountNothing(d) == used' = used
CountDown(d) == used' = [e \in Discount |-> used[e] - IF e = d /\ e \in rows THEN 1 ELSE 0]

(* increment: UPDATE ... SET used_count = used_count + 1.                  *)
CountUse(d) == used' = [e \in Discount |-> used[e] + IF e = d /\ e \in rows THEN 1 ELSE 0]

(* A payment waits for the removal that has its discount locked.            *)
WaitsForRemoval(q) == Deleting(link[q])

(* ... then counts the use of the discount it has read, and commits.       *)
SettleCommit(q) ==
    /\ step[q] = "count"
    /\ ~WaitsForRemoval(q)
    /\ status' = [status EXCEPT ![on[q]] = "CONFIRMED"]
    /\ ref' = [ref EXCEPT ![on[q]] = link[q]]
    /\ CountUse(link[q])
    /\ uses' = [e \in Discount |-> uses[e] + IF e = link[q] /\ e \in rows THEN 1 ELSE 0]
    /\ Finish(q) /\ Overtake(link[q], {"used"}, q)
    /\ UNCHANGED <<rows, settings, showtime, price, faults, agreed, granted, spoiled>>

CloseSave(q) ==
    /\ step[q] = "save_closed"
    /\ Writable(q)
    /\ status' = [status EXCEPT ![on[q]] = "CLOSED"]
    /\ ref' = [ref EXCEPT ![on[q]] = link[q]]
    /\ End(q)
    /\ UNCHANGED <<discountVars, showtime, price, faults, histVars>>

SaveRefused(q) ==
    /\ step[q] \in {"save_paid", "save_closed"}
    /\ Unwritable(q)
    /\ Fail(q)
    /\ UNCHANGED <<discountVars, bookingVars, faults, histVars>>

----------------------------------------------------------------------------
(* A payment has the reservation and waits for the discount, a removal the *)
(* other way round ...                                                     *)
Deadlocked(q, p) ==
    /\ step[q] = "count" /\ step[p] = "nulling"
    /\ link[q] = on[p] /\ ref[on[q]] = on[p]

(* ... and Postgres aborts one of the two.                                 *)
DeadlockAbort(q, p) ==
    /\ Deadlocked(q, p)
    /\ End(q) \/ End(p)
    /\ UNCHANGED <<discountVars, bookingVars, faults, histVars>>

(* deleteShowtime: the reservations go with the showtime.                  *)
DeleteShowtime ==
    /\ showtime
    /\ \A r \in Request : ~RowLocked(r)
    /\ showtime' = FALSE
    /\ status' = [r \in Request |-> "NONE"]
    /\ ref' = [r \in Request |-> None]
    /\ UNCHANGED <<discountVars, price, requestVars, faults, histVars>>

InProgress(q) == step[q] \notin {"new", "queued", "stuck", "done"}

(* A query throws: the transaction is rolled back, the request fails.      *)
RequestFault(q) ==
    /\ InProgress(q)
    /\ faults < MaxFaults
    /\ faults' = faults + 1
    /\ Fail(q)
    /\ UNCHANGED <<discountVars, bookingVars, histVars>>

(* A restart ends the requests; messages are delivered again.              *)
Crash ==
    LET kept(q) == op[q] = "expire"
    IN  /\ faults < MaxFaults
        /\ faults' = faults + 1
        /\ op' = [q \in Request |-> IF kept(q) THEN "expire" ELSE "none"]
        /\ step' = [q \in Request |-> IF kept(q) THEN "queued"
                                      ELSE IF InProgress(q) THEN "done" ELSE step[q]]
        /\ on' = [q \in Request |-> IF kept(q) THEN on[q] ELSE None]
        /\ loaded' = [q \in Request |-> None]
        /\ count' = [q \in Request |-> 0]
        /\ link' = [q \in Request |-> None]
        /\ stale' = [q \in Request |-> {}]
        /\ UNCHANGED <<discountVars, bookingVars, histVars>>

----------------------------------------------------------------------------
Administrator ==
    \/ \E q \in Request, s \in Settings :
        \/ Create(q, s)
        \/ \E d \in Discount : Update(q, d, s) \/ Switch(q, d, s)
    \/ \E q \in Request, d \in rows : Remove(q, d)
    \/ DeleteShowtime

Client ==
    \/ \E q \in Request, d \in rows, seats \in Baskets : HoldRead(q, d, seats)
    \/ \E q, r \in Request : Settle(q, r) \/ Cancel(q, r) \/ Expire(q, r)

DiscountStep(q) ==
    Insert(q) \/ FindCode(q) \/ SaveRow(q) \/ SaveRowRefused(q) \/ Delete(q) \/ DeleteCommit(q)

BookingStep(q) ==
    \/ InsertHold(q) \/ HoldRefused(q)
    \/ ExpireRead(q) \/ SavePaid(q) \/ SettleCommit(q) \/ CloseSave(q) \/ SaveRefused(q)

Next ==
    \/ Administrator
    \/ Client
    \/ \E q \in Request : DiscountStep(q) \/ BookingStep(q) \/ RequestFault(q)
    \/ \E q, p \in Request : DeadlockAbort(q, p)
    \/ Crash

Spec == Init /\ [][Next]_vars

----------------------------------------------------------------------------
(* Every variable stays within the values the code gives it.               *)
DiscountTypeOK ==
    /\ rows \subseteq Discount
    /\ settings \in [Discount -> Settings]
    /\ used \in [Discount -> Nat]
    /\ showtime \in BOOLEAN
    /\ status \in [Request -> Statuses]
    /\ ref \in [Request -> Discount \cup {None}]
    /\ price \in [Request -> [original : Int, discount : Int, final : Int]]
    /\ op \in [Request -> Ops]
    /\ step \in [Request -> Steps]
    /\ on \in [Request -> Discount \cup {None}]
    /\ loaded \in [Request -> Settings \cup {None}]
    /\ count \in [Request -> Nat]
    /\ link \in [Request -> Discount \cup {None}]
    /\ faults \in 0..MaxFaults
    /\ agreed \in [Request -> [terms : AllTerms, order : Nat]]
    /\ uses \in [Discount -> Nat]
    /\ granted \in [Discount -> BOOLEAN]
    /\ stale \in [Request -> SUBSET Facts]
    /\ spoiled \in [Discount -> SUBSET Facts]

(* One discount per code, however creations, changes of code and removals  *)
(* overlap: each looks the code up before it writes.                       *)
CodesApart ==
    \A d, e \in rows : d # e => settings[d].code # settings[e].code

(* usedCount is the number of payments committed with the discount, through *)
(* removals, rows that come back and restarts, unless an administrator has *)
(* saved a row that was read before one of these payments.                 *)
UsesKept == \A d \in rows : "used" \notin spoiled[d] => used[d] = uses[d]

(* A discount is active or not as it was last set, unless a row that was   *)
(* read before has been saved: an update that does not name isActive does  *)
(* not change it by itself.                                                *)
ActiveAsSet ==
    \A d \in rows : "active" \notin spoiled[d] => settings[d].active = granted[d]

(* No reservation names a discount that is gone, or outlives its showtime, *)
(* so a request that reads it now, such as the consumer at the next        *)
(* delivery, can save it.                                                  *)
ReferencesStand ==
    \A r \in Request : status[r] # "NONE" => showtime /\ ref[r] \in rows \cup {None}

DiscountGone(d) ==
    /\ d \notin rows
    /\ d \in Request => step[d] \notin {"new", "insert"}
    /\ \A q \in Request : ~Updating(q, d)

(* A discount that was removed stays removed, unless an update was in      *)
(* progress that had read it before: only such an update inserts it again. *)
RemovedDiscountStays == [][\A d \in Discount : DiscountGone(d) => DiscountGone(d)']_vars

HoldsLocks(q) == step[q] \in {"count", "nulling"}

Waits(q) ==
    \/ step[q] = "count" /\ WaitsForRemoval(q)
    \/ step[q] = "nulling" /\ WaitsForPayment(q)

(* Payments and removals never wait for each other for good: as long as    *)
(* any of them holds locks, one that does can commit, or two are in the    *)
(* one deadlock there can be, of a single payment and a single removal.    *)
LockHoldersMove ==
    (\E q \in Request : HoldsLocks(q)) =>
        \E q \in Request : \/ HoldsLocks(q) /\ ~Waits(q)
                           \/ \E p \in Request : Deadlocked(q, p)

(* What a client is told by validateAndCalculateDiscount is what a hold    *)
(* under the same terms costs.                                             *)
QuoteHonoured ==
    \A r \in Request : status[r] # "NONE" =>
        price[r].final = InCents(QuotedFinal(agreed[r].terms, agreed[r].order))

(* Unless its ceiling is negative, a discount lowers the price, and not     *)
(* below 0; what is taken off and what is left make the order, or one cent *)
(* more, since the database rounds both.                                   *)
AmountsAddUp ==
    \A r \in Request :
        status[r] # "NONE" /\ agreed[r].terms.cap >= 0 =>
            LET p == price[r]
            IN  /\ p.final \in 0..p.original
                /\ p.discount <= p.original => p.discount + p.final - p.original \in {0, 1}
                /\ p.discount > p.original => p.final = 0

----------------------------------------------------------------------------
(* What the proofs of these properties rest on.                            *)

(* What a request has read, how far it is, and what it is about agree; what *)
(* is not yet created has no row, and nobody reads it.                     *)
StepsMatch ==
    \A q \in Request :
        /\ step[q] = "insert" => op[q] = "create" /\ on[q] = q
        /\ step[q] \in {"insert", "find_code", "save"} => loaded[q] \in Settings
        /\ step[q] \in {"find_code", "save"} => op[q] \in {"update", "switch"}
        /\ step[q] \in {"find_code", "save", "delete", "nulling"} => on[q] \in Discount
        /\ step[q] = "insert_hold" => op[q] = "hold" /\ link[q] \in Discount
        /\ step[q] \in {"queued", "save_paid", "count", "save_closed", "stuck"}
               \/ op[q] = "expire" => on[q] \in Request
        /\ step[q] \in {"queued", "stuck"} => op[q] = "expire"
        /\ step[q] \in {"new", "insert"} =>
               q \notin rows /\ \A p \in Request : ~Updating(p, q)
        /\ step[q] \in {"new", "insert_hold"} => status[q] = "NONE"

(* A payment under way keeps its reservation, and its discount.            *)
SettlingKept ==
    \A q \in Request : step[q] = "count" =>
        /\ status[on[q]] # "NONE"
        /\ link[q] \in rows \cup {None}
        /\ ref[on[q]] = link[q] \/ ~Deleting(link[q])
        /\ \A p \in Request : step[p] = "count" /\ on[p] = on[q] => p = q

(* An update that is not stale has the uses, and isActive, as they are.    *)
UsesRead ==
    \A d \in Discount :
        /\ "used" \notin spoiled[d] => used[d] = uses[d]
        /\ \A q \in Request :
               Updating(q, d) /\ "used" \notin stale[q] \cup spoiled[d] =>
                   count[q] = uses[d]

ActiveRead ==
    \A d \in Discount :
        /\ "active" \notin spoiled[d] => settings[d].active = granted[d]
        /\ \A q \in Request :
               Updating(q, d) /\ op[q] = "update"
               /\ "active" \notin stale[q] \cup spoiled[d] =>
                   loaded[q].active = granted[d]

(* A reservation's amounts are those of what was agreed.                   *)
PricesAgreed ==
    \A r \in Request : step[r] = "insert_hold" \/ status[r] # "NONE" =>
        price[r] = Amounts(agreed[r].terms, agreed[r].order)
=============================================================================
