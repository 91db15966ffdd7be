# TLA+ for the movie ticket reservation system

The repository under `src/` is a NestJS backend that sells cinema tickets: a
client holds seats of a showtime for ten minutes, pays for them directly or
through a payment gateway, or lets them go. This directory models that in TLA+,
checks it with TLC on small instances and proves its safety with TLAPS for all
instances. Paths below are relative to `src/src/modules/` unless they start
with `src/`.

## 1. The system

One Node process (or several, side by side) serves HTTP. Requests interleave at
every `await`; nothing in the process is locked. All state is outside it:

| part | state it keeps | operations |
| --- | --- | --- |
| **Reservations** (`reservations/`) | rows `reservations` (status, expiresAt, discountId) and `reservation_seats` in Postgres | `getShowtimeSeats`, `holdSeats`, `cancelReservation` |
| **Expiry consumer** (`reservations/reservation.consumer.ts`) | none of its own; the messages it has not acknowledged | one callback per message of the expired queue |
| **Payments** (`payments/`) | rows `payments`, one per reservation at most | `checkout`, `createPaymentUrl`, `handleIpn`, the return page |
| **Payment gateways** (`payments/gateways/`) | none | build a signed URL, verify a notification |
| **Redis** (`redis/`) | a key per held seat, whose value is the reservation id, with a time to live | `acquireMultipleSeatLocks`, `releaseMultipleSeatLocks`, `getLockedSeatIds` |
| **RabbitMQ** (`rabbitmq/`) | the delay queue (`messageTtl` 600 s, dead-lettering to the expired queue), the e-mail queue; in the process, one channel or none | `connect`, `sendToDelayQueue`, `publish` |
| **Discounts** (`discounts/`) | rows `discounts` (usedCount, usageLimit, validity) | create, read, update, remove, `validateAndCalculateDiscount` |
| **Showtimes** (`showtimes/`) | rows `showtimes` (hall, startTime, endTime) | create with a check for overlaps, read, delete |
| **Cinemas** (`cinemas/`) | rows `halls` (totalSeats) and `seats` | create a hall, generate its seats once |
| **Movies** (`movies/`) | rows `movies`, `genres` | create, read, update, delete, box-office statistics |
| **Auth and users** (`auth/`, `users/`) | rows `users` (password, reset token and its expiry), `user_activities` | register, log in, log in through Google or Facebook, forgot and reset password, promote |
| **Mail** (`mail/`) | none | the consumer of the e-mail queue |
| **Common, start-up** (`src/src/common`, `src/src/main.ts`, seeds) | none; the first administrator | guards, filters, interceptors; start |

How they interact on the way of a seat from free to sold:

```
 holdSeats: read showtime, seats, confirmed seats ─► read discount ─► SET NX EX per seat (Redis)
            ─► insert PENDING rows (Postgres) ─► message into the delay queue (RabbitMQ)
 checkout / handleIpn: read the reservation ─► transaction: payment, CONFIRMED, usedCount + 1
            ─► DEL the seats' keys (Redis) ─► e-mail event (RabbitMQ)
 cancelReservation: read ─► save CANCELLED ─► DEL
 after 10 minutes: the broker dead-letters the message ─► consumer: read ─► save EXPIRED ─► DEL ─► ack
```

### What is hard about it

* **Interleaving.** Every arrow above is an `await`, so any other request runs in
  between. No row is read `FOR UPDATE`, no save has a condition on what was read,
  and no constraint of the database says that a seat is sold once.
* **Time.** The lock's time to live starts with its `SET`, the payment window
  (`expiresAt`) after the last one, the message's delay after the transaction. A
  payment that starts in time may commit after the locks have run out.
* **Stale state.** The availability check, the usage check, the consumer, the
  cancellation and both payments act on rows they read earlier.
* **Partial failure.** Redis, Postgres or RabbitMQ may fail between any two
  steps; the process may restart there. Only the consumer's message is retried.
* **Delivery.** `sendToQueue` and `publish` hand a message to the socket, without
  publisher confirms (rabbitmq.service.ts:41): a connection that is gone takes it
  along after the client was answered. A message in the broker is delivered again
  after a restart, or when the channel closed before the acknowledgement; a gateway repeats its notification; the
  Redis client repeats a command whose reply was lost.

### What makes each part correct

| part | properties | where |
| --- | --- | --- |
| Seats | a seat is sold once, and as a whole order; the flow as an abstract sale | `NoDoubleBooking`, `SoldOnceOutsideWindows`, `ImplementsSeatSales` |
| Locks | no path forgets a lock; none outlives its hold; every one ends | `LockAccounted`, `HoldNeverOutlivesDeadline`, `LocksLapse` |
| Expiry | not before the window is over; not of paid tickets; not lost; in the end | `NeverExpiredEarly`, `PaidNeverExpired`, `PaidInTimeIsKept`, `TimeoutNotLost`, `AnsweredExpires`, `UnpaidExpires` |
| Payments | a successful payment has settled its reservation; it is announced; what was abandoned is not sold | `PaidIsSettled`, `ConfirmedIsAnnounced`, `EndedStaysEnded` |
| Discounts in use | every use is counted; no more uses than the limit; none granted beyond it | `UsageNeverUndercounted`, `UsageWithinLimit`, `LimitClosesDiscount` |
| Discounts changed | one per code; uses and `isActive` survive the administrators' work; no reservation names one that is gone; a removed one stays removed; payments and removals never wait for good | `CodesApart`, `UsesKept`, `ActiveAsSet`, `ReferencesStand`, `RemovedDiscountStays`, `LockHoldersMove` |
| Prices | what a client is quoted is what a hold costs; the stored amounts add up | `QuoteHonoured`, `AmountsAddUp` |
| Schedule | no two screenings overlap in one hall; none is without its movie; a removed movie stays removed | `ScreeningsApart`, `ScreeningsHaveMovie`, `RemovedMovieStays` |
| Halls | seats are generated once; the total is no more than they are | `SeatsGeneratedOnce`, `TotalNeverOverstated` |
| Accounts | one account per e-mail; replaced passwords and tokens stay replaced; a link resets once; a password changes only by an accepted link; roles stay as granted | `RegistrationStands`, `CredentialsNeverReturn`, `OneResetPerLink`, `ImplementsCredentials`, `RoleAsGranted` |
| Mail | a mailed link works; no link is lost | `MailedLinkWasStored`, `LinkNotLost` |

`PROJECT.json` lists under "hazards" each place in the code where one of these
can go wrong, with its line.

## 2. The modules

| module | what it is |
| --- | --- |
| `Booking` | the booking flow: state, one action per step of each operation, faults, restarts, time; `Spec` and `FairSpec` |
| `BookingProperties` | its type invariant, the promises, and the inductive invariants behind them |
| `SeatSales` | what the flow promises about seats, abstractly |
| `BookingSales` | the refinement mapping from `Booking` to `SeatSales` |
| `MCBooking` | the instances for TLC: symmetry; the `MCBooking*.cfg` give the constants |
| `BookingProofs`, `SeatSalesProofs`, `BookingSalesProofs` | the theorems about these and their proofs |
| `BookingGuarantees` | the theorems about what a step never takes back, and their proofs; extends `BookingProofs` |
| `Pricing` | the arithmetic of seats, discounts and stored amounts, as operators |
| `Discounts` | discounts and the reservations that use them, under administrators who change and remove both; extends `Pricing` |
| `Accounts` | the account of one e-mail address and the mails about it, with its properties and inductive invariants |
| `Credentials` | what an account promises about its password and reset links, abstractly |
| `AccountCredentials` | the refinement mapping from `Accounts` to `Credentials` |
| `Schedule` | one hall's seats and screenings, and the movies they show, likewise |
| `MCDiscounts`, `MCAccounts`, `MCSchedule` | their instances for TLC |
| `DiscountsProofs`, `AccountsProofs`, `CredentialsProofs`, `ScheduleProofs` | the theorems about them and their proofs |

`Booking` and `Discounts` look at the same operations from two sides. `Booking`
has the seats, the locks, the messages and the clock, and takes the showtime and
one discount as given; `Discounts` has what an administrator can do to the two
under a reservation's feet, and of the reservation only its row. What connects
them: an administrator's removal reaches a booking flow as a save that the
database refuses, an exception that `HoldFault`, `TaskFault` and `ExpireFault` let
happen at each of these saves. `Accounts` and `Schedule` share no state with
them; they say who may act, and how a showtime and its seats came to be.

### Booking

An action is what one request does between two awaits: one query, one
transaction, one Redis command, one message. The values a request has read are
in its step, so a write at a later step acts on what may have changed.

| variables | what they are in the code |
| --- | --- |
| `owner`, `ttl` | the value and the remaining life of each key `seat_lock:<showtime>:<seat>` |
| `hold`, `want`, `got`, `coupon` | a `holdSeats` request, named by the reservation id it draws: its step, `dto.seatIds`, `acquiredSeats`, whether it has a discount |
| `status`, `window` | the reservation row, and the time to its `expiresAt` |
| `payment`, `urls` | the payment row; the reservations that were given a payment URL |
| `usedCount` | that column of the one discount |
| `msg`, `delayLeft` | the hold's message: in the socket's buffer, in the delay queue, in the expired queue, in the consumer's hands, unacknowledged after an exception, acknowledged, or lost before the broker had it |
| `pc`, `target` | requests on an existing reservation (checkout, payment URL, notification, cancellation): step and reservation |
| `announced` | the reservations whose `email.ticket_confirmed` event was handed to the channel |
| `channel` | `RabbitMQService.channel`: usable, never created, or closed |
| `untilShow` | time to `showtime.startTime` |
| `notified`, `crashes`, `faults` | counters of the bounds |
| `heldFor`, `released`, `missed`, `windows` | history; no guard reads them |

| code | actions |
| --- | --- |
| `holdSeats` (reservations.service.ts:86) | `HoldCheck` (showtime, sold seats), `HoldPrice` (usage limit), `AcquireSeat` / `ConflictSeat` / `Rollback` (redis.service.ts:83), `StartSave`, `SaveHold` (transaction), `SendDelay` / `SendThrows`, `Undo` (catch block) |
| `checkout` (payments.service.ts:37) | `CheckoutStart`, `CheckoutCommit` or `InsertDuplicate` (unique index), `ReleasePaid`, `PublishTickets` |
| `createPaymentUrl` (:136) | `UrlStart`, `UrlFind`, `UrlSave` or `InsertDuplicate` |
| `handleIpn` (:206) | `IpnStart`, then `IpnSettle`, `ReleasePaid`, `PublishTickets`, or `IpnDecline` |
| `cancelReservation` (reservations.service.ts:232) | `CancelStart`, `CancelSave`, `ReleaseCancelled` |
| consumer (reservation.consumer.ts:33) | `Enqueue` (the broker receives the message, whose delay begins), `DeadLetter` (the delay is over), `ExpireRead`, `ExpireSave`, `ExpireRelease` |
| exceptions | `HoldFault`, `TaskFault`, `ExpireFault`, `AcquireRetried` (maxRetriesPerRequest), `BrokerCloses` |
| restart | `Crash`: requests are gone, a message the broker has not received is lost, unacknowledged ones are delivered again, the channel is what `connect` gives |
| time | `Tick`: every deadline one unit closer, Redis drops expired keys |

A message that was sent is `"buffered"` until the broker has it. `Enqueue` may come at
once or late; `BrokerCloses` is the moment the process sees its channel closed,
which may be long after the connection died, so that a message sent in between
was answered for and is `"lost"`. The connection's `error` event has no listener;
where it is emitted the process stops, which is `Crash`.

The seats of a request are locked in any order (the code takes the client's).
One showtime is modelled: keys, rows and messages of different showtimes share
nothing but the discount, which the reservations of one showtime share as well.
The `"rollback"` step of a one-seat conflict deletes no key; the code makes no
call there (redis.service.ts:124). A hold request that is refused by its first
checks has changed nothing and is not represented; one that is refused later is,
because of what it did before. Users are left out: the checks of the caller's
identity refuse a request without an effect. TypeORM's `save` of a row that was
loaded before writes the columns that differ from the database's at that
moment, which for `status` is the same as writing it: `Confirm`, `CancelSave`
and `ExpireSave` set it whatever it has become.

**The four windows.** The protocol does let a seat be sold twice (section 4), in
ways that can be told apart. The history variable `windows` collects those that
came true, judged at the step where each bites:

| window | the step | the code |
| --- | --- | --- |
| `stale_check` | a seat is locked that was sold after the request's own availability check | reservations.service.ts:110 before :175 |
| `overrun` | a sale, or the release of somebody else's lock, by a request whose first lock has run out | payments.service.ts:66 before :74; redis.service.ts:127 |
| `late_settlement` | a row that is already cancelled or expired is confirmed | payments.service.ts:230, :251 |
| `re_release` | a second release by a reservation hits somebody else's lock | redis.service.ts:127 |

`SoldOnceOutsideWindows` says that this list is complete: as long as none of them
has come true, no seat is sold twice. A window is defined by what a request did
and when, not by the double booking itself.

### The sale, abstractly

`SeatSales` is a page long: a reservation asks for seats that are not sold, holds
each of them alone, buys all of them at once while it holds every one, and gives
all of them back at once; then it is over. There are no locks, deadlines or
requests in it. `BookingSales` maps `Booking` to it:

| `SeatSales` | in `Booking` |
| --- | --- |
| `asked` | `want` |
| `holds[r]` | the seats `r` knows it has locked (`got`) and whose key has `r` as its value (`owner`) |
| `bought[r]` | `want[r]`, if the row is CONFIRMED |
| `phase[r]` | "open" without a row or PENDING, "sold" when CONFIRMED, "over" when CANCELLED or EXPIRED |
| `exclusive` | `windows = {}` |

Most steps of `Booking` are stutters of the sale. `AcquireSeat` is `Hold`; the
releases, the rollback and `Tick` are `LetGo`; `Confirm` in any of the payments is
`Sell`; `CancelSave` and `ExpireSave` are `Close`; and a step in which a window
comes true is `Waive`, after which nothing is promised. `SoldToOne` follows in the
abstract specification from the guards of `Hold` and `Sell`.

### Discounts

A reservation is named by the hold request that inserts it, and a discount by the
request that creates it. An action is one query or one transaction; two
transactions hold row locks between two of their statements, and these are kept
apart into two steps each.

| variables | what they are in the code |
| --- | --- |
| `rows`, `settings`, `used` | the rows of `discounts`; their code, terms, limit and `isActive`; `usedCount` |
| `showtime` | whether the showtime's row is there |
| `status`, `ref`, `price` | the reservation rows: status (cancelled and expired are "CLOSED"), `discountId`, the three amounts |
| `op`, `step`, `on` | each request or message: what it does, how far it is, on which row |
| `loaded`, `count`, `link` | what it has in memory: the discount with the request's columns assigned, its `usedCount`, the reservation's `discountId` |
| `faults` | counter of the bound: restarts and queries that throw |
| `agreed`, `uses`, `granted`, `spoiled`, `stale` | history; no guard reads them |

| code | actions |
| --- | --- |
| `createDiscount` (discounts.service.ts:21) | `Create` (code is free), `Insert` or `SaveRowRefused` (unique index) |
| `update` (:116) | `Update` or `Switch` (read; without or with `isActive`), `FindCode` if the code changes, `SaveRow` or `SaveRowRefused` |
| `remove` (:168) | `Remove` (read), `Delete` (takes the row's lock), `DeleteCommit` (sets the references to null, commits) |
| `validateAndCalculateDiscount` (:55) | `QuotedAmount`, `QuotedFinal` of `Pricing` |
| `holdSeats` (reservations.service.ts:86) | `HoldRead` (look-up, limit, minimum, amounts), `InsertHold` or `HoldRefused` (foreign keys) |
| `checkout`, `handleIpn` (payments.service.ts:37, :206) | `Settle` (read), `SavePaid`, `SettleCommit`, or `SaveRefused` |
| `cancelReservation` (reservations.service.ts:232) | `Cancel`, then `CloseSave` or `SaveRefused` |
| consumer (reservation.consumer.ts:33) | `Expire` (the message arrives), `ExpireRead`, then `CloseSave` or `SaveRefused`; after an exception it is "stuck", unacknowledged, until `Crash` |
| `deleteShowtime` (showtimes.service.ts:38) | `DeleteShowtime` and its cascade |
| Postgres | `RowLocked`, `Deleting`, `Pinned` in the guards of what waits for a lock: a removal for payments (`WaitsForPayment`), a payment for a removal (`WaitsForRemoval`); `DeadlockAbort` when one of each wait for each other (`Deadlocked`) |
| exceptions, restart | `RequestFault`, `Crash` |

What is taken from the way the code uses TypeORM and Postgres:

* `save` of an entity that was loaded reads the row again and writes the columns
  that differ from it; it inserts a row that is gone. Its read and its write are
  one step here. So an update of a discount writes `usedCount` as it was read
  (the lost count that `spoiled` records), and one that lost against a removal
  brings the discount back.
* The reservation that payments, cancellations and the consumer load has its
  `discountId`, and saving it writes an id that was set to null meanwhile. The
  foreign key refuses that (`Unwritable`), and so it does for a reservation that
  went with its showtime. The consumer catches the exception without an answer:
  its message is stuck. At the next delivery it reads the row as it now is, and
  `ReferencesStand` says that this save can succeed.
* `holdSeats` looks the discount up by the client's code in upper case but, unlike
  `validateAndCalculateDiscount`, not trimmed; here a client names the discount.

Validity dates are left out: a discount outside its dates is, for every one of
these operations, like one that is not active. Amounts are exact integers in the
unit of the smallest one (ten-thousandths before storing, cents after); that
JavaScript's binary fractions come to the same cents is not shown.

### Accounts

A request's name is also the name of the row it inserts, of the password it sets
and of the reset token it draws, so that "whose password is it" can be asked.

| variables | what they are in the code |
| --- | --- |
| `account`, `password`, `role`, `token` | the row of the address in `users` |
| `life` | the time to the `resetPasswordExpires` a request computed |
| `op`, `step`, `link` | each request: what it does, how far it is, the token it brings |
| `loaded` | the entity `findById` gave it; `Undefined` is a column that was not selected |
| `mail`, `mailed`, `channel` | each request's message (in the socket's buffer, in the e-mail queue, in the consumer's hands, ...), the messages mailed, `RabbitMQService.channel` |
| `spent`, `before`, `stale`, `granted`, `overtaken` | history; no guard reads them |

| code | actions |
| --- | --- |
| `register` (auth.service.ts:112), `UsersService.create` | `Register` (first look-up), `FindAgain` (second), `Insert` or `InsertRefused` (unique index) |
| `loginWithGoogle`, `loginWithFacebook` (:205, :245) | `Social`, then the steps of `create` if there was no account, then `Publish` or `PublishThrows` (channel closed) |
| `login` (:139) | `Login`, then `Publish` or `PublishThrows` |
| `forgotPassword` (:175) | `Forgot`, `Load`, `Save`, then `Publish` or `PublishThrows` |
| `resetPassword` (:194) | `Reset` (token and expiry), `Load`, `Save` |
| `promoteUser` (users.service.ts:54) | `ChangeRole`, `Save` |
| `MailConsumer` (mail.consumer.ts:34) | `Enqueue` (the broker receives the message), `Deliver`, `SendMail`, `Ack`, `MailFault` (rejected, not queued again) |
| restart, exceptions, time | `Crash`, `RequestFault`, `BrokerCloses` (what was in transit is lost), `Tick` |

`update` is modelled by what TypeORM's `save` does with the loaded entity: columns
with `select: false` (password, reset token, expiry) are undefined in it and not
written unless assigned; the role was selected, so it is written as it was
loaded. Addresses share no row, so one stands for all; the seeder has run before
the application listens, so it is in `Init`. Not represented: a request whose
look-up refuses it (it leaves no trace but an audit row), and the audit log itself
(`recordActivity` swallows its errors). An expired
`life` alone does not clear the token, as in the code.

**The credentials, abstractly.** `Credentials` has an account with a password and a
link, and eight things that may happen to it; no row in memory, no queue.
`AccountCredentials` maps `Accounts` to it:

| `Credentials` | in `Accounts` |
| --- | --- |
| `open`, `password`, `link`, `spent` | whether there is a row; its `password`, its `token`; the history of both |
| `valid` | the links whose `resetPasswordExpires` is ahead |
| `mailed` | the messages mailed that carry a link |
| `claims` | the resets whose look-up succeeded and which have neither saved nor failed |

`Forgot` is `Draw`, the save of a token `Store`, `SendMail` of a link `Mail`, `Reset` is
`Claim`, the save of a reset `Redeem`, `Insert` is `Open`; `Tick` lets links lapse, faults
and restarts give claims up. All other steps, changes of role and logins among
them, are stutters: that is most of what the refinement says.

### Schedule

| variables | what they are in the code |
| --- | --- |
| `movies`, `duration` | the rows of `movies`, and their `durationMinutes` |
| `screenings` | the rows of `showtimes` of the hall, named by the request that inserted them |
| `seats`, `totalSeats` | the rows of `seats` of the hall, and that column of `halls` |
| `op`, `step`, `movie`, `start`, `end`, `length`, `batch` | each request: what it does, how far it is, what it has computed |
| `seen`, `outdated` | history: the screenings a search found, the requests whose movie changed |

| code | actions |
| --- | --- |
| `createShowtime` (showtimes.service.ts:44) | `ReadMovie`, `FindConflict`, `InsertScreening` or `InsertRefused` (foreign key) |
| `deleteShowtime` (:38) | `DeleteScreening` |
| `generateSeats` (cinemas.service.ts:57) | `CountSeats`, `SaveSeats` or `SeatsRefused` (unique index), `SaveTotal` |
| `updateMovie`, `deleteMovie` (movies.service.ts:85, :112) | `ChangeMovie`, `SaveMovie`; `DeleteMovie` with the cascade |
| exceptions, restart | `RequestFault` |

`SaveMovie` inserts the row again if it was removed since it was read, as `save`
does. Start times are those the code lets through (in the future); prices and
seat types are left out. The rows of a request are a set: a list that names a
row twice is refused as a whole by the index, without an effect. A movie is
created with one of `Durations`, which `createMovie`'s validated body keeps positive.
`updateMovie`'s body is not validated (movies.controller.ts:89), and the service
takes any duration that is not 0 or missing (movies.service.ts:103): `NewDurations`
are any integers. A screening of a movie with a negative duration ends before it
starts, and the search for conflicts finds it, or does not find another, by
that end.

## 3. What the runs check

| run | instance | question |
| --- | --- | --- |
| `races` | 2 hold requests, 1 seat, 2 payments at once (checkout, URL), 2 notifications, ttl 1, channel or not, no faults | do the interleavings of holding, paying and expiring keep seats, locks and payments right? |
| `cancels` | 2 hold requests, 1 seat, 3 payments and cancellations at once, no faults | and of cancelling? does the flow implement `SeatSales`? |
| `seats` | 2 hold requests, 2 seats, 2 checkouts at once, ttl 2, discount or not | the same when locks are taken one by one and run out one by one, and for the discount's count; does this flow implement `SeatSales`? |
| `faults` | 2 hold requests, 1 seat, 1 client request, 1 restart, 2 faults | what survives failures at any step? |
| `live` | 1 reservation of 2 seats, 2 client requests, 1 restart, `FairSpec` | what happens in the end, and what of it is final? |
| `discounts` | any 4 requests, 3 settings of discounts with 2 codes, orders of 1 or 2 seats, 1 restart or fault | do administrators' changes and removals keep the discounts, the reservations that use them and their amounts right, and do payments and removals always let each other go on? |
| `accounts` | any 3 requests about one address, token life 1, 1 restart, 1 fault (an exception, a closed channel), channel or not | do overlapping requests keep the account, its role and its mails right, and does it implement `Credentials`? |
| `schedule` | any 3 administrators' requests, 2 movies, start times 0 to 3, durations 1 and 2, changed to -3, 1 or 2, 2 rows of 2 seats, 1 fault | do overlapping requests keep the hall's schedule and seats right? |
| `double_booking`, `paid_expires`, `usage_limit`, `restart` | as small as shows it | where the code does not do what `src/README.md` says (section 4) |

**Bounds.** `LockTtl` 1 or 2 stands for the ten minutes: only the order of the
three deadlines matters to the code, never their length, and with a ttl of 2 two
locks of one request run out at different ticks. `DelayTtl` equals `LockTtl`, as
in the code (600 s and 600000 ms); the theorems need only `DelayTtl >= LockTtl`.
Every window needs two hold requests and two requests on the first reservation
at most, so 2 and 2 reach them all, and with one seat the requests always
contend for it; the second seat adds partial acquisition. `ShowIn` and
`CancelNotice` make both answers to "is it early enough" possible.
`MaxNotify`, `MaxCrashes` and `MaxFaults` bound the environment only. A message in
transit to the broker takes any time, so each of its deadlines may come first.

In `discounts`, four requests are a hold, its payment, an update and a removal, or
any other four of the operations; each is used once. The settings are one discount
with a ceiling, which takes an eighth off (so that half a cent has to be rounded),
active or not, and one of 150 percent with a minimum that one seat reaches and a
different code. Discounts of a fixed amount, other seat types and negative
ceilings are in the theorems, not in this instance.

In `accounts` and `schedule` each request is used once too. Three are enough for what
their properties relate: two that overlap and one that comes after (a reset
between two others, a change of role under a reset whose link came from a third
request; two screenings and a change of their movie). Times 0 to 3 with
durations 1 and 2 and a buffer of 1 give screenings that are apart, that touch,
that overlap at either end and that contain one another; a movie changed to last
-3 has screenings that end before they start, and before those of others do.

In all of them deadlock checking is off: when every request is used and settled
and the clock has nothing left to count down, the instance stops.

**Symmetry.** Reservations, seats, handlers, requests, movies and rows of seats
are interchangeable in every action, so the safety runs use them as symmetry
sets. `ImplementsSeatSales`, `ImplementsCredentials`, `LimitClosesDiscount`,
`RemovedMovieStays` and `RemovedDiscountStays` are step properties of specifications without fairness, in
which they are interchangeable as well. The run under fairness has no symmetry; it
also has the two properties of the form "once so, always so"
(`PaidInTimeIsKept`, `EndedStaysEnded`), which follow one reservation through a
behaviour.

**Fairness.** `FairSpec` has weak fairness on what goes on by itself: the next
step of a hold request and of a client request (Node resolves the promise a
request awaits), the broker's part (a message in the socket's buffer reaches it as
long as there is a connection; it dead-letters) and the consumer's callback, and
time. No client is made to send a request, no gateway to notify, and nothing is
made to fail. Each step that is fair stays enabled until it is taken, so strong
fairness is never needed; the consumer's fairness is of use only while there is
a channel, which `live` assumes (`BrokerStates = {"ready"}`).

**Mutants.** Each property of a passing run has a definition in its module marked
"Mutation": the code with a plausible bug (no NX, no EX, a lock for longer than the
configured time, a short `messageTtl`, an unsaved status, a relation not loaded,
automatic acknowledgement, a transaction that is not rolled back, ...), under
which the run must report that property.

## 4. Where the code differs from its documentation

Four promises of `src/README.md` are refuted by runs of their own, all without any
fault but the last, which takes one restart.

* **A seat can be sold twice** (`double_booking`). `src/README.md:18` and `:20`
  promise locks and a unique constraint on (showtime, seat). The constraint is
  on (reservation, seat), and `holdSeats` checks availability before it locks:
  *r2* checks; *r1* locks, saves, pays and releases; *r2* locks and pays.
* **A paid reservation can expire** (`paid_expires`). `src/README.md:19` speaks of
  unpaid ones. The consumer reads PENDING, the payment commits, the consumer
  saves EXPIRED.
* **A discount can be used beyond its limit** (`usage_limit`; `src/README.md:30`).
  The limit is checked at the hold and counted at the payment.
* **An unpaid reservation may never expire** (`restart`; `src/README.md:19`). The
  delayed message is sent after the transaction, and only to the socket: a restart
  between the commit and the broker's receipt of the message loses it.

Three more are met by the model and have no run of their own; the first two are what
a property of a passing run exempts, and TLC has a counterexample within that run's
instance as soon as the exemption is dropped:

* **A reset token can be replayed** (`src/README.md:26` has "anti-replay protection").
  Two resets with one token that overlap both find it, for it is looked up before
  the password is hashed and cleared only by the save (auth.service.ts:195): both
  set a password, and both are answered with success. `OneResetPerLink` says that
  this is all: a reset that begins after one by the same link is done finds nothing.
* **Screenings of one hall can overlap** (`src/README.md:261` has "anti-conflict
  logic"). Two administrators who schedule at the same time do not see each other's
  screening (showtimes.service.ts:58 before :76); an update changes a movie's
  duration and no stored end time (movies.service.ts:104); and an update may set
  a negative duration, with which a screening ends before it starts and slips past
  the search for conflicts. `ScreeningsApart` says that these are the only ways.
* **No ticket is ever mailed** (`src/README.md:22` lists "booking confirmation
  tickets" among the e-mails). The event is published
  (payments.service.ts:116) with a routing key `MailConsumer` does not know: the
  message is acknowledged and nothing is sent (mail.consumer.ts:41).
  `ConfirmedIsAnnounced` ends at the event.

What does hold in their place, and is proved:

* No seat is sold twice except through one of the four windows
  (`SoldOnceOutsideWindows`).
* A reservation whose payment is committed before its deadline stays paid, or is
  cancelled by its owner (`PaidInTimeIsKept`): the message is never in the consumer's
  hands that early. And a reservation that ended unpaid is not sold afterwards,
  unless a payment was under way or the client has a payment URL
  (`EndedStaysEnded`); such a URL is the window `late_settlement`.
* From the moment the discount is used up nobody is granted it
  (`LimitClosesDiscount`): only holds that were priced before can exceed the limit,
  so by no more than there were of those.
* A reservation whose client was answered has its message, and once the broker has
  received it no restart, exception or closed channel loses it (`TimeoutNotLost`);
  before, it is lost only in transit, with the connection or the process. Nothing
  but restarts and faults puts it off (`ExpiryNotPostponed`).

## 5. What is proved

### Booking

`BookingProofs` proves, for every set of reservations, seats and handlers, every
time to live and any number of notifications, restarts and faults:

| theorem | property |
| --- | --- |
| `TypeCorrect` | `TypeOK` |
| `StepsCorrect` | `StepsAgree` |
| `SoldOnce` | `SoldOnceOutsideWindows` |
| `ExpiredInTime` | `NeverExpiredEarly` |
| `NoLockPastDeadline` | `HoldNeverOutlivesDeadline` |
| `PaidSettled` | `PaidIsSettled` |
| `TimeoutKept` | `TimeoutNotLost` |
| `UsageCounted` | `UsageNeverUndercounted`, for a finite set of reservations |
| `LocksAccounted` | `LockAccounted` |

The assumptions are those of `Booking`: `TtlAssumption` (the delay is no shorter
than the locks' life, which is positive), `NoneAssumption` (a free seat's value is
no reservation), `BoundAssumption` (bounds are numbers).

The argument for `SoldOnce`: call a request *alive* while its first lock has not
run out and its locks were never released. Outside the windows,

1. `LocksAreOwned`: an alive request owns every seat it has locked, for at least
   as long as it stays alive. A DEL by another request would have to be a release
   of a key it does not own, which is one of the windows (`ReleaseKeepsLocks`).
2. `SalesAreMissed`: a sold seat that a request has passed its check on and not
   yet locked was sold after the check; so locking it is a window.
3. `NoLiveLockOnSold`: no alive request has locked a seat sold to another. A lock
   is taken on such a seat only through a window (2), and a sale of a seat
   another alive request has locked is impossible (1).
4. A first confirmation outside the windows is by an alive request with all its
   locks (`FreshSaleIsAlive`); by (1) and (3) none of its seats is sold.

`StepsAgree`, the invariant every other one rests on, says what the step of a
request implies about its locks, rows and message, and that requests on a
reservation start only after its hold is done. `ExpiryAfterWindow` keeps the
message's delay at least as long as the payment window, also of a message that is
still on its way to the broker; `ChannelFromStart` keeps
"no channel" to what it was at the start.

`BookingGuarantees` proves what relates two moments:

| theorem | property |
| --- | --- |
| `PaidInTimeKept` | `PaidInTimeIsKept` |
| `EndedForGood` | `EndedStaysEnded` |
| `LimitCloses` | `LimitClosesDiscount` |
| `LocksRunOutAlways` | `LocksRunOut` |
| `ExpiryComesCloser` | `ExpiryNotPostponed` |
| `AnnouncementsUnderWay` | `AnnouncementUnderWay` |

They rest on one lemma per variable that says which step changes it and how:
`StatusChanges`, `PaymentChanges`, `MessageChanges`, `DelayChanges`, `HoldChanges`,
`ChoiceChanges`, `TaskChanges`, `UsesOnlyGrow`, `FaultsOnlyGrow`. With them a proof looks at
the three or four steps that matter to it. The first two theorems name a predicate
that no step ends once it holds, and that the property's condition implies:

* `Kept`: CONFIRMED or CANCELLED, and the consumer is not between its read of a
  PENDING row and its save. It holds at a payment in time because
  of `ExpiryAfterWindow`: as long as the window is open the message is in the delay
  queue. Later the consumer reads CONFIRMED and only acknowledges.
* `Abandoned`: every way to CONFIRMED begins with a look at a PENDING row, or with a
  URL. `TooLate`, for the third, is of the same form: a hold gets a discount in
  `HoldPrice` only, whose guard `usedCount` has passed and never comes back below.

The last three are the safety half of the liveness properties `LocksLapse`,
`AnsweredExpires` and `ConfirmedIsAnnounced`: what has to come is never lost, and every
step either leaves it where it is or brings it closer. `KeysExpire` (a key has an
owner exactly as long as it has time to live) makes the first inductive. What
fairness adds, that the steps which bring it closer are taken, is TLC's part.

### The refinement

`SeatSalesProofs` proves `SalesAreExclusive`: every behaviour of `SeatSales` keeps
`SoldToOne` and `HeldByOne`, which is inductive and which the first rests on.
`BookingSalesProofs` proves `BookingImplementsSales`: `Spec => ImplementsSeatSales`, for
all constants under Booking's assumptions. Initial states map to initial states. A
step outside the windows maps to the abstract step named in section 2 or to a
stutter; its guards come from `LocksAreOwned` (what an alive request has locked,
it holds), `NoLiveLockOnSold` and `SalesAreMissed` (what is sold nobody else holds
or may lock), and `FreshSaleIsAlive` (who buys still holds every seat). A step
that makes `windows` non-empty maps to `Waive`, and all later ones to stutters or
`Waive` again, for `windows` never shrinks.

### Discounts

`DiscountsProofs` proves all nine properties of the run `discounts`, for every set of
requests, codes, terms, prices and orders and any number of faults, from
`FirstAssumption` (names are distinct) and `PricingAssumption` (settings, prices and
orders are of the kinds the validated request bodies allow; ceilings and minima
are any integers).

| theorem | property |
| --- | --- |
| `DiscountTypes` | `DiscountTypeOK` |
| `OneDiscountPerCode` | `CodesApart` |
| `UsesCounted` | `UsesKept` |
| `ActiveKept` | `ActiveAsSet` |
| `ReferencesKept` | `ReferencesStand` |
| `QuotesHonoured` | `QuoteHonoured` |
| `AmountsAgree` | `AmountsAddUp` |
| `RemovedDiscountsStay` | `RemovedDiscountStays` |
| `LockHoldersCanMove` | `LockHoldersMove` |

`DiscountInvariant` is their common induction. `StepsMatch` ties steps to operations
and says that a row not created yet is read by nobody. `SettlingKept` says what
the locks of a payment in its transaction keep: its reservation, its discount,
and that it is alone; without it, a commit could restore a reference to a
discount removed in between, and `ReferencesStand` would fail. `UsesRead` and
`ActiveRead` say that an update that is not stale has in memory what is in the
table, so that its save changes only what it names. `PricesAgreed` says that
stored amounts are those of the terms agreed on; `QuoteHonoured` and `AmountsAddUp`
are then lemmas of `Pricing` alone (`HoldIsQuoted`, `RoundedAmounts`), for every
order, percentage, ceiling and fixed amount. `StepKinds` sorts the actions by what
they leave alone, so that a conjunct is argued once per kind.

`RemovedDiscountsStay` needs no invariant beyond the types: a row that is not there
comes back by the insert of the request of its name, or by an update that had read
it, and neither can begin once it is gone. `LockHoldersCanMove` is about the
database's locks. A payment in its transaction has its reservation's row and wants
the discount's, a removal the other way round. If every one of them waits, a
removal waits for a payment on a reservation with that discount, and this payment
waits for a removal of the discount it read, which by `SettlingKept` is the same:
`WaitingIsDeadlock`. So every cycle of waits contains one of two parties, which
is what `DeadlockAbort` resolves; no longer one goes unmodelled.

### Accounts

`AccountsProofs` proves all seven properties of the run `accounts`, and
`MailedLinkWasStored`, which the last of them contains, for every set of requests, every life of a token and any number of restarts and faults, from
`RequestAssumption` (the row the seeder inserts, "none" and "undefined" are no
requests) and `AccountBounds` (bounds are numbers).

| theorem | property |
| --- | --- |
| `AccountTypeCorrect` | `AccountTypeOK` |
| `RegistrationsStand` | `RegistrationStands` |
| `ReplacedCredentialsNeverReturn` | `CredentialsNeverReturn` |
| `MailedLinksWereStored` | `MailedLinkWasStored` |
| `ResetsByOneLinkOverlap` | `OneResetPerLink` |
| `RolesAreAsGranted` | `RoleAsGranted` |
| `LinksAreNotLost` | `LinkNotLost` |
| `AccountsImplementCredentials` | `ImplementsCredentials` |

`CredentialsFresh` carries the argument for the credentials: a request's password
or token is neither stored nor replaced before the request saves it, and a row
that is about to be saved holds no credential but the request's own, because
`findById` selects none. So a save stores something new or nothing.
`LinksAreStored` puts the save of a token before its publication and the
publication before the mail. `ResetsSpendLinks` says that the link of a finished
reset is spent, so by `CredentialsNeverReturn` it is not the stored token when a
later reset begins: `OneResetPerLink`. `LoadedRoles` says that a row in memory has
the granted role unless it is stale. `StepsMatch` ties operations to steps.

The refinement rests on the same invariant. `SaveStores` is its heart: what a save
writes depends on the row it loaded, and `CredentialsFresh` (nothing of the
credentials in that row, and the request's own never stored before) makes it a
`Store`, a `Redeem` or, for a change of role, nothing. `Mail`'s guard is
`LinksAreStored`, `Claim`'s is that of `Reset`. `CredentialsProofs` proves
`ReplacedIsReplaced`: the abstract account keeps `NothingReturns`, by the induction of
`ClaimsAreNew`.

### Schedule

`ScheduleProofs` proves all six properties of the run `schedule`, for all movies,
start times, durations, rows and requests, from `ScheduleAssumption` (times are
natural numbers, a new movie's duration is positive, an update's any integer,
rows finitely many).

| theorem | property |
| --- | --- |
| `ScheduleTypeCorrect` | `ScheduleTypeOK` |
| `ScreeningsStayApart` | `ScreeningsApart` |
| `ScreeningsKeepMovie` | `ScreeningsHaveMovie` |
| `SeatsAreGeneratedOnce` | `SeatsGeneratedOnce` |
| `TotalIsNeverOverstated` | `TotalNeverOverstated` |
| `RemovedMoviesStay` | `RemovedMovieStays` |

`SearchStands` says that what a search found stays true: the screenings it saw
were complete, and no step moves a complete screening. `PlansCurrent` says that
the end of a screening is its start plus its movie's duration plus the buffer,
unless the duration was saved since. From the two, `FoundApart` concludes with
the arithmetic of the SQL condition; that the later screening ends after it
starts (`TakesTime`) is what the condition itself relies on. `TotalStep` compares cardinalities with the
library's theorems on finite sets; `SeatsFinite` makes them applicable.
`RemovedMovieStays` is what is left of "removed" where `save` inserts: a movie that is
gone stays so unless an `updateMovie` that had read it is in progress
(movies.service.ts:109), and `MovieGone` is kept by every step.

### Only model-checked

The liveness properties `LocksLapse`, `AnsweredExpires` and
`ConfirmedIsAnnounced`: that a fair step is taken in the end is beyond the prover. Their
safety halves are proved (above); `LocksRunOut`, `ExpiryNotPostponed` and
`AnnouncementUnderWay` were checked by TLC on the instances of `races` and `faults`
first and are in no run. `SalesAreMissed`, `LocksAreOwned` and the other
inductive invariants were checked by TLC on the instances of `races`, `seats` and `faults`
before they were proved; those of `Accounts`, `Schedule` and `Discounts` likewise, with
all conjuncts, on instances of `accounts`, `schedule` and `discounts` (the last with
three requests). That the code refuses an input before it
has an effect is by reading, not by proof.

## 6. What is not modelled

* Transaction numbers, client information, signatures, the text of answers and
  the amounts sent to a gateway (its notification's amount is not compared with
  the payment's): data no control of the flows depends on.
* The seat map (`getShowtimeSeats`). It reads the sold seats, then the locks; a
  seat that is paid for and released in between is in neither answer and shown
  as available. The answer is advice: the hold that follows makes the check of
  its own (reservations.service.ts:110), which `HoldCheck` models. That a seat shown
  as available was free of one of the two at some moment is true of any two
  reads, so there is no property to check.
* The removal of a showtime while a hold of its seats has locks and a message:
  `Discounts` has the rows it takes along and the saves it makes fail, `Booking` the
  exceptions these are, but no module has both; the locks it leaves run out by
  themselves.
* The creation of movies and genres and the statistics: single-statement
  catalogue operations; guards, interceptors, decorators: stateless;
  configuration and start-up of the framework.
* The ticket e-mail, which the mail consumer never sends (section 4).
* Users and halls are never removed by any service; neither is modelled.
* A loss of what Redis, Postgres or RabbitMQ have stored. What RabbitMQ has not
  received is not stored, and its loss is modelled.
* An acknowledgement that is lost in transit: the message would be delivered again
  after a restart, as it is after a restart before the acknowledgement, which is
  modelled.

## 7. What is left

The components with concurrent state are modelled, and their safety is proved.
In order of what it would add:

1. `Booking` and `Discounts` in one module, with the removal of a showtime under
   locks and messages. The product is beyond TLC at the bounds of section 3; it
   would rest on proofs alone.
2. Several showtimes that share a discount, which would matter to `UsageWithinLimit`
   only, and that one is violated with one showtime already.
3. An abstract timetable that `Schedule` implements outside its two hazards, as
   `SeatSales` is for `Booking`.
4. Liveness with faults that stop: `live` has a restart, but no query that throws.
