# Formal model of the hotel booking system

TLA+ modules, TLC configurations and TLAPS proofs for this repository: the
booking and payment core, the saga that joins them, the inventory with its list
cache, the accounts, and the web client. Every definition is translated from
the code; `PROJECT.json` ("map") gives the file and lines each one stands for.

Paths below are relative to the repository: `wallet`, `booking`, `hotel`,
`admin` and `auth` are `services/<name>-service/src`, `main.jsx` is
`apps/client/src/main.jsx`.

## 1. The system

Express services over MongoDB, Redis and RabbitMQ; every service owns its
collections, and `admin-service` opens the collections of others.

| Part | State it keeps | Operations | Talks to |
| --- | --- | --- | --- |
| wallet-service, HTTP | `wallets`, `transactions` | top-up, balance, list, proceed to payment | booking-service by HTTP (read, mark-processing, mark-failed, emit) |
| wallet-service, worker | BullMQ queue `wallet-payment-processing` in Redis | enqueue a `BOOKING_CREATED`, run `handleBookingCreated` with 5 attempts | consumes `BOOKING_CREATED`, publishes `PAYMENT_SUCCESS` / `PAYMENT_FAILED` |
| booking-service | `bookings`, locks `lock:booking:create:*` and `room:lock:*` in Redis | create, confirm, cancel, mark-processing, mark-failed, emit, payment events | hotel-service by HTTP (room), consumes payment events, publishes `BOOKING_CREATED` |
| hotel-service | `hotels`, `rooms`, list cache in Redis | public lists, owner CRUD, internal room lookup | - |
| admin-service | `hotels`, `rooms`, `users`, audit log | CRUD with audit, block, role, approve, reject | same collections as hotel- and auth-service, invalidates the list cache |
| auth-service, user-service | `users`, JWTs outside | signup, login, refresh, profile | - |
| notification-service | `notifications` | one per payment event | consumes payment events |
| shared packages | - | Redis lock, RabbitMQ publish and consume, JWT check, RBAC, event schemas | all services |
| client | token, user, loading flag, wizard and popups of a page; token and user in localStorage | sign in and out, load, book, pay, cancel, manage inventory | all services through the gateway |
| api-gateway | - | admits roles to routes, proxies | all services |
| scripts | - | unblock users, activate the inventory, development data | collections of all services |

What is hard in it:

- **No transactions.** Money moves in one statement and is recorded in another;
  a booking is read in one statement and updated unconditionally in another.
  Anything can run in between, including the same operation again.
- **At-least-once work.** BullMQ runs a handler again after an error, a death or
  an expired lock; RabbitMQ delivers again; clients and HTTP helpers retry.
- **Locks with a TTL.** Nothing checks that a lock is still held when the work
  it protects is written.
- **Best-effort steps.** Lock release, cache invalidation, audit and
  notification follow the change they belong to and may be missing.
- **Copies that outlive their source.** The list cache holds an answer, a token
  a role, a browser handler the session it was started in, a proceed call a
  balance; each is used after the original has changed.

What makes each part correct:

- wallet: no wallet is overdrawn; a booking is charged once and paid on once;
  what is reported is on the ledger and the ledger explains the balances; every
  job ends in a report.
- booking: two standing bookings never share a night of a room; a booking goes
  through its states once; the two status columns agree; a settled booking
  leaves no room lock.
- saga: a confirmed booking is paid for, a failed one is not, both services
  come to rest in agreement, nobody waits for a report that will not come, and the
  guest is told the truth.
- inventory: the cached list is what the database would answer, a deletion takes
  all rooms of the hotel along, and no update in flight undoes it.
- accounts: an address leads to who was told so, the audit log explains an
  account, nothing changes rights by itself, a block signs out in the end.
- client: the user on the page is the one who signed in, what its popups say is
  true, a booking is not paid by two handlers at once, the wizard does not lose an
  unpaid booking, and the buttons come back.

The hazards, each at its line and with the properties that watch it, are in
`PROJECT.json` ("hazards").

## 2. Modules

### Wallet service

| Module | Models | Source |
| --- | --- | --- |
| `WalletStore` | the two collections and each statement on them | `wallet/repositories/wallet.repository.js`, `wallet/models` |
| `PaymentProcessor` | queue, worker, `handleBookingCreated` | `wallet/index.js`, `wallet/services/payment-processor.service.js` |
| `WalletTopUp` | `topUpWallet` | `wallet/services/wallet.service.js` |
| `WalletService` | their composition, all properties of the payments | - |
| `WalletLedger` | the same service with the history of what parts a balance from the ledger | - |
| `IdealPayments` | abstract: charge, pay, report, refuse | `docs/architecture/payment-flow.md` |
| `MCWalletService`, `MCWalletLedger` | small constants for TLC | - |
| `WalletServiceProofs` | TLAPS proofs | - |
| `ChargedOnceProofs` | TLAPS proofs of what holds without failures, and while locks hold | - |
| `LedgerProofs` | TLAPS proofs that the ledger explains the balances | - |

State: `balance` and `transactions` are the collections (a transaction's `ref`
stands for both unique columns). `job[b]` is the BullMQ job of booking `b`,
whose `jobId` is the booking's idempotency key: state, lock holder, attempts made,
stalls. `act[w]` is one run of the handler: the await it stands at (`pc`), its
booking, what `getPaymentState` has found (`prior`, `unread`: the three queries
of the `Promise.all` answer one by one) and the balance of the wallet document
it holds (`copy`). `events` is what was published. `moved` and `credited` are
history variables that count balance changes; `spent` counts faults.

Each await is one action, and everything up to the next await is part of it.
`creditWallet`, the refund and the top-up are a read and a later save of `copy +
amount`, because `wallet.save()` sends a `$set` of the computed balance;
the debit is one atomic `$inc` with its filter. `CreateTransaction` inserts nothing
when the unique key is there; the handlers that catch the duplicate-key error
go on as after a success, which is what the code does with the document it then
reads.

Failures: an awaited call fails before its effect (`AttemptFails`,
`CreditFails`, `TopUpFails`), the credit's insert is applied and not
acknowledged (`CreditUnacknowledged`), an activation dies (`Crash`), a job's
lock expires (`LockExpires`, BullMQ's stalled check). An error in the credit
stage goes to the compensation, every other one to `Settle`, which makes the
job wait again or fail. `Settle` has no effect on the job when the activation
no longer holds its lock.

`WalletLedger` adds one history variable, `blurred`: the users whose balance a step has
parted from the ledger. There are three ways: `Overwritten`, a `wallet.save()` of a
copy that was no longer the balance; `MovedAgain`, money moved whose record exists
already or is about to be made; `Unrecorded`, an operation that ends, or goes on,
between a movement and its record.

### Booking service

| Module | Models | Source |
| --- | --- | --- |
| `RedisLock` | SET NX, DEL | `packages/shared-utils/src/redis.js` |
| `BookingStore` | the collection, the lock keys, the overlap query | `booking/repositories`, `booking/models` |
| `RoomBooking` | `createBookingForUser` in `withRedisLock` | `booking/services/booking.service.js`, `redis.js` |
| `BookingLifecycle` | cancel, payment events, mark-processing, mark-failed, emit; `proceedBookingPayment` as their client | `booking.service.js`, `wallet.service.js` |
| `BookingService` | their composition, all properties | - |
| `IdealBookings` | abstract: reserve, confirm, fail, cancel | `docs/architecture/payment-flow.md` |
| `MCBookingService` | small constants for TLC | - |
| `BookingServiceProofs` | TLAPS proofs | - |

A booking is named by the request that would create it, so room, dates and key
are constants; `booking[r]` holds the two status columns. `locks` maps both
kinds of Redis key to the token stored: a create lock holds a token of its request's
own, a room lock user and idempotency key, so a booking and its retries share it. `create[r]` is the await at
which a creation stands, `op[o]` an operation on an existing booking: where it
stands, its booking, and the payment status it read, which `cancelBookingForUser`
writes back. `asked` holds the bookings for which `BOOKING_CREATED` was published;
payment events may arrive for these, any number of times and with either
outcome, since the wallet service is not part of this composition.

The finally block of `withRedisLock` is two steps (GET, DEL). A throwing call
in the handler goes to the finally block; a death releases nothing. TTLs are
steps: a room lock (900 s) may expire once its request is over, a create lock
(10 s) also under a live request when `MaxSlow` allows it. `stranded` is a history: the
requests that left their room lock to its TTL, because the insert was refused as a
duplicate or threw, or the request died before it.

### Payment saga

| Module | Models | Source |
| --- | --- | --- |
| `EventBus` | exchange, bindings, nack without requeue, redelivery | `packages/shared-utils/src/rabbit.js`, the consumers' `index.js` |
| `SagaBooking` | the operations on a booking that take part, read and update apart | `booking/services/booking.service.js` |
| `PaymentSaga` | `WalletService` with all its steps, the proceed call, the booking service, the notifications; all properties | `wallet.service.js`, `notification-service` |
| `MCPaymentSaga` | small constants for TLC | - |
| `PaymentSagaProofs` | TLAPS proofs | - |

`PaymentSaga` extends `WalletService`: the worker is the one of the wallet runs, with two
activations of a job at once, failing inserts, deaths at every await, expired locks,
attempts and stalls that run out. `Works`, `Breaks` and `TakesJob` are its actions with the
exchange attached; an activation's report is published in the step that leaves its
`emit` point, and the job is completed some steps later, so a death in between is among the
histories.

`queue[q]` holds the messages waiting for a consumer. It is a set because
`consumeEvents` does not await a handler before the next message: no order is
kept. `held[e]` counts the handlers of an outcome that have read their booking pending
and will update it, whatever it has become; `leaving[b]` is the payment column that a
cancellation under way has read. `call[c]` is a proceed call between two of its requests,
acting on the balance and the status it read. `notices` are the notifications created.
`Elsewhere` stands for whatever else happens to the guest's wallet: top-ups, other
bookings, stale saves.

Troubles of the saga's own: a POST served twice because its connection broke
(`bookingServiceRequest` tries the next base URL), an emit without an answer, a proceed call
that dies, a message delivered again after its handler's last write or before it, a
handler that throws and thereby loses its message.

Histories: `asked` (its `BOOKING_CREATED` is out), `dropped` (a cancellation or a proceed
call ended the booking although its `BOOKING_CREATED` is out), `lost` (a message of it was
nacked), `forgotten` (its job has expired from the queue).

### Inventory

| Module | Models | Source |
| --- | --- | --- |
| `InventoryStore` | hotels and rooms and the statements on them | `hotel/repositories`, `admin/services/admin.service.js` |
| `HotelListCache` | `listPublicHotels`: miss, two reads, SET; KEYS and DEL; TTL | `hotel/services/hotel.service.js`, `hotel/repositories/hotel.repository.js` |
| `InventoryRequests` | every request of owners, admins and moderators: reads, write, second write of a deletion, audit, invalidation | `hotel.service.js`, `admin.service.js` |
| `InventoryService` | their composition with `activate-all-inventory.mjs`, all properties | - |
| `MCInventoryService` | small constants for TLC | - |
| `InventoryServiceProofs` | TLAPS proofs | - |

`hotel[h]` and `room[r]` are documents: absent, active, or inactive (nothing is ever
removed); a hotel's name stands for the fields an update sets. `cache` is the
Redis entry, `fill[v]` a list request that has missed it, `request[q]` a mutation: the
await it stands at, its API and what it decided to write. Updates send
only the fields they change, since `save()` sends a diff and admin-service uses
`findByIdAndUpdate`.

Histories: `stray` are the rooms that became active in an inactive hotel, whose
hotel was hidden without a deletion, or whose hotel's deletion died before its second
statement; `late` are the entry and the fills that hold data
which no invalidation will remove.

### Accounts

| Module | Models | Source |
| --- | --- | --- |
| `Rbac` | normalization of roles and statuses, roles per API | `packages/rbac`, `apps/api-gateway/src/index.js` |
| `Accounts` | the collection `users`, registration, block, unblock, role, audit log, `unblock-user.mjs` | `auth/services`, `admin.service.js`, `scripts` |
| `AccountService` | their composition with login, refresh and the bootstrap of development accounts, all properties | `auth/services/auth.service.js`, `auth/bootstrap` |
| `MCAccountService` | small constants for TLC | - |
| `AccountServiceProofs` | TLAPS proofs | - |

`account[u]` is a stored document with its raw role and status, which may be a
legacy spelling; everything that reads it normalizes. `registration[u]` and `op[o]` are
requests between two awaits; `device[d]` holds an access and a refresh token and the
account read by a login or refresh in flight. `trail[u]` is the audit log of a user;
`muddled` the users whose log has an excuse (overlapping changes of that user, a change
that died before its entry, the script, the bootstrap).

Setters of Mongoose schemas also run on query filters, so
`migrateLegacyUserEnums` looks for the canonical values only and changes nothing: it
has no action. The script `unblock-user.mjs --normalize-legacy` works on the
collection without the schema, and does.

### Client

| Module | Models | Source |
| --- | --- | --- |
| `ClientSession` | token, user and loading flag; sign-in, logout, loads, profile, top-up, inventory handlers | `main.jsx`, `apps/client/src/api.js` |
| `ClientWizard` | booking flow, payment with polling, the popups, cancellation | `main.jsx` |
| `ClientApp` | their composition with the services and the network, all properties | - |
| `MCClientApp` | small constants for TLC | - |
| `ClientAppProofs` | TLAPS proofs | - |

A handler in flight is a `task`. It keeps the token of the page it was started from,
since `domainApi` closes over it, goes on over its awaits, and at the end sets the
state of whatever page it finds. `loading` is one flag for many handlers; each
handler's `finally` clears it. Polling is one step: the round that ends it, with the
twentieth as `PollsExhausted`. Of the services only the status and owner of a booking,
the accounts' roles and `outcomes` are kept: the updates that handlers of the booking
service may still make, having read a booking as pending. `SettlePayment` makes one by id
alone, whatever the booking has become.

Histories: `strayed` (a handler of another session set the user last), `unlocked` (the
flag was cleared under a running handler), `abandoned` (bookings that the guest or an
error has taken out of the wizard), `overwritten` (bookings whose outcome was written over
another one).

Some behaviour of the page that the modules show and no document speaks of:

- a load that ends after a logout puts the old user back on the page, and one that
  ends in a 401 signs out whoever has signed in since;
- the wizard survives a logout, so the next user of the page finds it at its step;
- when the reload after a confirmed payment fails, the page shows "Payment Failed"
  for a paid booking, and a second proceed call may get a 402 after the first has debited
  the guest (`PopupsAreTrue` therefore speaks of the status a popup has read, not of
  money, and of failures only when polling has read one);
- `removeHotel`, `saveHotelEdit` and their room counterparts do not look at `loading`
  and clear it for others.

A popup's backdrop covers the page: no other button is pressed while it is shown.

## 3. Runs

TLC checks small instances; every bound is a CONSTANT.

| Run | Instance | Checks |
| --- | --- | --- |
| `wallet_concurrent` | 1 booking, 2 activations at once, 1 top-up, 2 attempts, 1 fault, 1 death, 1 stall | `TypeOK`, `EventsBacked`, `LedgerBehindMoney`, `ChargesAreFollowedUp`, `LedgerExplainsBalance` |
| `wallet_shared` | 2 bookings of one guest and owner, 2 activations, 1 top-up, no failure | `ChargedOnce`, `ImplementsIdealPayments` |
| `wallet_serial` | 2 bookings, 1 activation at a time, 1 top-up, 1 fault, 1 death | `OutcomeIsFinal`, `EveryJobIsAnswered` |
| `wallet_double_debit` | 1 booking, 1 fault | violates `GuestDebitIdempotent` |
| `wallet_topup_retry` | two requests with one key, no failure | violates `TopUpRetrySafe` |
| `booking_serial` | 1 room, 3 requests (one a retry, one sharing a night), 2 operations in flight, 1 fault; operations on one booking do not overlap, no create lock expires under a live request | `TypeOK`, `NoDoubleBooking`, `CreateLockExclusive`, `PaymentAgrees`, `RoomLockReleased`, `ImplementsIdealBookings` |
| `booking_stale_update` | 2 requests, overlapping operations, no failure | violates `NoDoubleBooking` |
| `booking_slow_create` | 2 requests, 1 create lock expires under its request | violates `NoDoubleBooking` |
| `saga` | 1 booking, 2 proceed calls, 2 activations, 2 attempts, a wallet that others fill and empty, 1 fault, 1 death, 1 stall and 1 trouble with a message or request, 2 of these together | `SagaTypeOK`, `ConfirmedIsPaid`, `FailedIsUnpaid`, `NoticesAreTrue`, `SettledTogether`, `NoPaymentIsStranded` |
| `inventory` | 1 hotel with 1 room, each there or not, 2 requests of any kind, 1 list request at a time without bound, the script, 1 fault | `TypeOK`, `CachedListIsCurrent`, `NoOrphanRooms`, `CacheConverges`, `DeletedStaysDeleted` |
| `accounts` | 3 documents with one address: a development account and 2 registrations; 2 administration requests, 1 device, bootstrap, 1 run of the script, 1 fault | `TypeOK`, `RegistrationStands`, `AuditExplainsAccount`, `ChangesAreDecided`, `BlockTakesEffect` |
| `client` | a guest and a superadmin, 2 handlers in flight, 1 booking, 1 outside event; logins, logouts and clicks without bound | `TypeOK`, `ShownUserIsSignedIn`, `ForbiddenOnlyAfterRoleChange`, `PopupsAreTrue`, `OneGuardedHandler`, `WizardKeepsItsBooking`, `LoadingEnds` |

**Why these bounds.** The guest opens with 3, each booking costs 2, a top-up adds
1: one booking is affordable, two are after the top-up, so both sides of the
balance filter and the race for the last coin occur. Two activations are what a
stall needs; two attempts make a first and a last attempt; a second stall fails
the job as in BullMQ. One fault placed at every step covers each partial failure,
and with one death and one stall two of them in one history. For bookings, two
stays that share a night are the smallest conflict, the retry exercises the
idempotency key, and two operations in flight are what a stale read needs.

The saga needs one booking: bookings meet in the balance only, and `Elsewhere` sets it to
either side of the price at any time (`Sums`). Two proceed calls are the smallest race of
a stale balance with a payment under way, and each is used once. `MaxHeld` = 2 lets two
handlers of one outcome overlap. Any two of the troubles combine (`MaxTroubles`): a death
after a refusal with a top-up, a stall with a failed credit, a lost message with a
repeated one. Two bounds are on interleaving alone, and the theorems do without either:
another actor steps in at `Pausing` points of an activation only (before the owner's wallet is
read, where two activations of one job part, and before a refusal is published), since the
wallet runs check all of them; and a notification is made before anything else happens (`Prompt`), since
nobody reads notifications. The run checks safety; that a job ends in a report is the liveness
of `wallet_serial`, and that a report is then awaited by a booking is `NoPaymentIsStranded`. In the inventory, two requests make every pair of
mutations overlap with each other and with a list request; one hotel with one room is
enough because no statement relates two hotels and a deletion treats all rooms
alike. A second list request would only overwrite one answer put together
by the same steps with another. Three documents with one address are all that
can race for it; the two administration requests give any sequence and overlap on
one user. Two handlers give each overlap that the loading flag is there to
prevent; a second booking makes no new ones, as the wizard holds one.

**What holds and what does not.** Whatever overlaps, fails or runs twice, no
wallet is overdrawn and every report has its transactions. Without failures
each booking is charged once and the worker implements `IdealPayments`, even
with redelivered events. A balance is what the ledger says, whatever overlaps, fails
or is repeated, for every user whom none of three things has hit: a stale save, a movement
made again for one record, a movement that is never recorded. All three happen in the
code, and with any of them left out of `blurred` TLC finds a violation of
`LedgerExplainsBalance`. Whoever was charged and not told has a job that goes on, until as many calls
have failed or activations died as the queue allows; then the money is gone and nobody
is told (`ChargesAreFollowedUp` ends there, as the code does). An outcome once reported
stands as long as no lock expires under a live activation, which is what the run and
the theorem assume.
The four violation runs are disagreements between code and
documents and are explained in `PROJECT.json` ("findings"): a debit repeated by the
job's retry, a top-up credited twice by a retry, a cancelled booking revived by a
payment success that had read it before, and two stays inserted because a create
lock had expired.

In the saga the named cases carry as much as the properties. A confirmed booking has a
recorded debit and a recorded credit, in every history; but when a lock expires under a live
activation, the job's second activation can report success while the first one's credit
fails and it records a refund, so the charge of a confirmed booking may be gone. A
failed booking keeps no charge unless a cancellation or a proceed call ended it while its
payment ran (nothing compensates), or its job reported INSUFFICIENT_BALANCE, died before it
was completed or expired afterwards, and found the money when it ran again: then
the guest is charged for a booking that stays FAILED, and is told both. Both services agree at
rest outside these cases, as long as no message was lost and the job's attempts and stalls
were not used up; when they are, the booking stays PROCESSING for good, charged or
not. `NoPaymentIsStranded` says that a lost message and the limits of the job are the only two
ways there. A paid booking that is cancelled becomes REFUNDED and stays charged, which
`SettledTogether` pins down. How often money moves is a matter of the wallet runs: a debit
whose insert fails is made again (`wallet_double_debit`), in the saga too. A proceed call
that dies between mark-processing and emit leaves its booking PROCESSING as well; the
properties speak of payments that were asked for.

A room lock is kept for somebody: for a request about to insert, a pending booking, or the
operation that is about to release it, among the requests of its key. Otherwise a
request left it behind, which takes a death, a throwing call, or a retry: one that looked for
its key before the first insert takes the lock again after the booking was settled, its
insert is a duplicate, and the dates stay locked for the TTL.

The cached list is that of one instant as soon as no mutation is under way, unless
a fill was overtaken by a mutation, or the mutation is one of those that do not
invalidate (approve, reject, the script, a request that failed after its write);
whatever happened, the list becomes right by the TTL. A room created after its
hotel's rooms were deactivated stays active in a deleted hotel. `NoOrphanRooms` names through
`stray` that case, rooms activated in an inactive hotel by an administrator or the script,
hotels hidden without a deletion (a PATCH of `isActive`, a rejection) and deletions that died
before their rooms, and excludes every other.

An address belongs to who was told so, by the unique index alone. The audit log
explains an account whose changes do not overlap. A block takes effect when the
tokens have aged, not before: `requireUser` never asks for the status.

The client's properties hold up to `strayed`, `unlocked` and `abandoned`, each of
which stands for a handler that finishes in a page it was not started from, or for an
error that resets the wizard, and up to `overwritten`: the revival that
`booking_stale_update` shows turns an announced failure into a confirmation.

**Deadlock.** The wallet runs check it. The other instances come to rest
when their finite sets of requests are served and the bookings are settled, so
these configurations switch the check off.

**Symmetry.** Only activations, proceed calls and operations in flight are permuted, only in runs
without liveness properties.

**Fairness** (`WalletService!Fairness`). A handler that runs goes on: an await
of Node returns or throws (weak fairness of `Handle`, `Serve`). BullMQ's waiting
list is first in first out and a retried job goes to its end, so a job that waits
again and again whenever an activation is free is taken (strong fairness of
`TakeJob`). The stalled check runs every 30 s, so the lock of a dead
activation expires (weak fairness). Nothing is assumed of deliveries, failures,
expiring jobs or live locks.

In the other modules fairness is weak throughout; the saga and the booking service are checked for
safety and have none. `InventoryService`: Redis drops an entry at its TTL, and a
list request that missed goes on; mutations need not finish. `AccountService`: tokens
expire, and a login or refresh that read an account answers. `ClientApp`: `fetch` settles
its promise, so a handler takes its next step; no button has to be pressed.

## 4. Proofs

`WalletServiceProofs` proves, for any users, bookings, amounts, workers and limits, from the
assumptions the modules name (`PaymentAssumption`, `TopUpAssumption`, `OpeningAssumption`):

- `TypeCorrect`: `Spec => []TypeOK`. The part with content is that balances
  stay natural numbers: the debit's filter is evaluated in the statement that
  subtracts, and a stale save writes a non-negative copy plus an amount.
- `SoundInvariant`: `Spec => []Sound`, the inductive invariant. `EventsBacked` and
  `LedgerBehindMoney` are not inductive: an activation at `emitSuccess` could
  publish with nothing on the ledger. `Sound` adds `Knows(w)`, what an activation
  may rely on at each await: its `prior` is still recorded (the ledger only grows),
  behind the debit the DEBIT is recorded, before an insert the movement has happened,
  before a report the transactions exist.
- `ReportsAreBacked`, `LedgerIsBehindMoney`: corollaries.
- `JobsAreFollowed`: `Spec => []Followed`, the inductive invariant behind
  `ChargesAreFollowedUp`, and `ChargesStayFollowed`, its corollary; both without hypotheses.
  That a charged, unanswered booking has a job that goes on is not inductive, since a job also
  ends by its limits. `Followed` counts: the attempts of an unanswered job are no more than
  the failed calls so far, its stalls, with the one it is about to have, no more than the
  deaths and expired locks; a completed job is answered, a failed one has used up a
  limit, a handler that returns has published, and an unanswered job that is not in the queue
  was never charged for and has no activation.

The step lemma has one case per action. Actions fall into three groups with a lemma each:
those that leave ledger and movements alone (`SilentStep`), those that move a
balance (`MovingStep`), and those that record (`RecordingStep`); all use that another
activation's knowledge survives a growing ledger (`KnowsKept`).

`ChargedOnceProofs` builds on `Sound` and proves what holds without failures, from the same
assumptions.

- `AlwaysSteady`: `Spec => []Steady`. Until something fails (`Undisturbed`), the queue
  runs one activation per booking, the job's `holder`; `StandsAt` says which of the
  booking's movements are made and which transactions recorded at each of its awaits; a
  booking without an activation is unpaid or paid, nothing in between (`AtRest`).
- `ChargesOnce`: a corollary, with no hypothesis, since `ChargedOnce` itself speaks of
  undisturbed histories.
- `FollowsIdealPayments` has the hypothesis `NoFailures`, that the bounds `MaxFaults`,
  `MaxCrashes` and `MaxStalls` are 0: the safety part of the refinement of `IdealPayments`.
- `OneActivationPerBooking` has no hypothesis: it speaks of histories in which no lock has expired
  under a live activation; calls may fail and activations may die. Then a booking
  has one activation at most, and what its three reads have found is what the
  ledger says (`Faithful`), so no report contradicts an earlier `PAYMENT_SUCCESS` or
  `CREDIT_FAILED_REFUNDED`: `OutcomesStand`, under `MaxStalls = 0` as in the run.

`LedgerProofs` proves `LedgerExplains`, that `LedgerExplainsBalance` holds for any users,
bookings, amounts, workers, top-ups and failures, whatever overlaps; it has no hypothesis.

- `Sums` are what the library takes with a recursive function over subsets. What such a sum
  is cannot be proved by induction here (see below), so the lemmas on `Total` argue by
  the smallest counterexample, which the library's facts on well-founded orders provide: the
  recursive function exists, the order of the elements does not matter, and one
  transaction more adds its amount. `EntriesAreFinite` makes them applicable.
- `Accounts` says what a step may do: leave the balances alone and move nothing
  (`SilentAccounts`, `RecordAccounts`), or move money for one entry. If the entry is new and the
  copy saved over was current, both sides of the equation change alike (`StepTallies`);
  if not, the step has put the user into `blurred`.

`BookingServiceProofs` proves the properties of `booking_serial` for any requests,
rooms, dates, keys, operations in flight and number of failures, from
`RequestAssumption`. Two hypotheses are used where they are needed: `~Interleave`
(operations on one booking do not overlap) and `MaxSlow = 0` (no create lock
expires under its request).

- `AlwaysCoherent`: `Spec => []Coherent`, without hypotheses; `Coherent` is layered.
  `NoDoubleBooking` alone is not inductive: an insert relies on an overlap check some awaits
  ago. Always: a request has created nothing before its insert (`Fresh`). Until a create lock
  expires under its request: whoever is inside `withRedisLock` holds the lock of the room
  (`LockHeld`). With `~Interleave`: operations in flight are on different bookings (`OneOpEach`),
  and what they read still holds when they write (`ReadHolds`). With both: the nights a request
  checked stay free until its insert (`NightsFree`, kept because only the holder of
  the lock can insert into the room).
- `TypeCorrect`, `OneHandlerPerRoom`, `RoomLocksAreReleased` and `ColumnsAgree` have no hypotheses,
  so they go beyond the run: operations may overlap, calls fail and locks expire. Where operations
  overlap, `PaymentAgrees` allows one disagreement, a late PROCESSING of `markPaymentProcessing`,
  and `ColumnsAgree` proves that the other unconditional writes leave none.
  `RoomsAreBookedOnce` and `Implements` have both hypotheses, and
  the runs `booking_stale_update` and `booking_slow_create` show that double booking is
  possible without either.
- `NightsAreSoldOnce`: the same promise in nights. `ClashIsACommonNight` proves that the two
  comparisons of `hasBookingOverlap` find every night two half-open stays share, and no other.
- `Implements`: the refinement of `IdealBookings`. `NightsFree` gives the guard
  of `Reserve`, `ReadHolds` those of `Confirm`, `Fail` and `Cancel`; every other
  step stutters.

Steps that change no booking share the lemma `CreateMoves`; steps of an operation,
alone on its booking, share `OpMoves`; the insert has its own.

`PaymentSagaProofs` proves all properties of the run `saga` for any bookings, proceed calls,
balances, workers, limits and numbers of failures, and with activations that may be interrupted
at every await, from `SagaAssumption` and those of the wallet service.

- `AlwaysCoherent`: `SagaSpec => []Coherent`, without hypotheses. A booking becomes CONFIRMED by a
  message, so the messages must be true, and they are reports of the worker. The invariants of
  `WalletServiceProofs` and `ChargedOnceProofs` carry over, as what the guest does elsewhere
  changes a balance alone (`WorkerCoherent`): a report is backed by the ledger (`Sound`), and
  until a lock expires an activation has its booking to itself (`Faithful`). What the saga
  needs beyond them: a job has used up no more attempts and stalls than there were failures
  (`Limited`); a handler that returns has told what became of a charge, and a charge that
  nothing is told of has a job (`Answered`); a booking whose payment was refused is not charged
  unless its job runs again (`Refused`). `Carried` has the rest: only what was published is on
  its way, a report is in a queue, a handler or a notification until it has been acted on,
  the columns of a booking say what was reported, and a payment asked for has a next step.
- `SagaTypeCorrect`, `ConfirmedBookingsArePaid`, `FailedBookingsAreUnpaid`,
  `GuestsAreToldTheTruth`, `NobodyWaitsForNothing`, `ServicesAgreeAtRest`: corollaries.

The worker's part and the messages are kept apart: `SagaWorker` shows that every step of the
saga is one of the wallet service, or of a balance, and one lemma per group of actions
(`OperationsStay`, `BusStays`, `HandlersStay`, `WorkStays`, `CallsStay`) that it keeps `Carried`.

`InventoryServiceProofs` proves the safety properties of the run `inventory` for any
hotels, rooms, requests, list requests and number of failures, from
`InventoryAssumption`, `InventoryServiceAssumption` and `CacheAssumption`.

- `AlwaysInv`: `Inv` adds to the properties what a request relies on after its reads
  (`RequestHolds`: the hotel and room it names are there, as nothing is ever
  removed, and at most one request is creating a hotel), that no room is older than its
  hotel (`RoomsBelong`), and that what a list request has read is what the database still
  holds, unless the request is in `late` (`FillHolds`).
- `TypeCorrect`, `CacheCorrect`, `DeletionTakesRooms`: corollaries;
  `DeletedHotelsStay`: the action property, since an update sends only its own fields.

`AccountServiceProofs` proves the safety properties of the run `accounts` for any users,
addresses, requests, devices and limits, from `AccountsAssumption` and
`AccountServiceAssumption`.

- `AlwaysInv`: `Inv` says that a document present is the only one of its address, so
  a request told of success leads there; that an operation in flight has read the
  document it will write (`OpHolds`); and that a user with a clean log has at most one
  change in flight, whose start is where the log ends (`Followed`).
- `TypeCorrect`, `RegistrationsStand`, `AuditLogExplains`: corollaries;
  `DecidedChanges`: the action property, as normalizing a legacy spelling does not
  change what it stands for.
- `TheBlockedStayOut`, the safety half of `BlockTakesEffect`: a device without tokens of a
  blocked user, and without a request that read the account before, stays without.

`ClientAppProofs` proves the safety properties of the run `client` for any accounts, bookings,
handlers in flight and outside events, from `ClientAssumption` and `RolesAssumption`.

- `AlwaysInv`: `Inv` adds to the properties what a handler relies on after an await
  (`TaskHolds`: the profile it has read is its caller's, it pays or cancels a booking
  that is there, the one it announces as paid was confirmed) and what the flag says of
  the handlers (`FlagHolds`: a flag that is clear, and was not cleared under anyone, means
  that no guarded handler runs; a flag that is set means that a handler runs that clears it).
- `TypeCorrect`, `PageShowsItsUser`, `PopupsTellTheTruth`, `UnpaidBookingsStay`,
  `HandlersTakeTurns`, `RefusalsMeanNewRoles`: corollaries.
- `DisabledButtonsHaveAHandler`, the safety half of `LoadingEnds`: the buttons are never
  disabled with nobody left to enable them.

For each part of the state one predicate says what any step may do to it (`MovesBooking`,
`MovesPage`, `MovesTask`, `MovesFlag`, `MovesWizard`, `Kept`); the actions are shown to be
such moves, and the moves to keep the invariant.

Only model-checked: the liveness properties (`EveryJobIsAnswered`, `CacheConverges`,
 `BlockTakesEffect`, `LoadingEnds`, the fairness in `IdealPayments`), which
are out of the prover's reach. For most of them a safety half is a theorem: what has to
happen always has somebody left to do it (`ChargesStayFollowed`, `NobodyWaitsForNothing`,
`DisabledButtonsHaveAHandler`), or is not undone (`TheBlockedStayOut`). Induction over data is out of reach as well, as the
library's induction theorems take an operator; `LedgerProofs` gets around it for its one sum.

## 5. Plan

Done: wallet service; booking service; the payment saga with notifications; inventory and
list cache; accounts; client; the proofs of all six.

Left: a safety half for `CacheConverges`, liveness of the saga as a whole (its parts have theirs),
and the refinement of
`IdealPayments` in histories with failures, whose reports need a wider abstract
specification. What else is not modelled is listed below, with the reason.

## 6. Not modelled

- The gateway's proxying, header rewriting, CORS and rate limits; the client's
  rendering, navigation, lists and forms, its manual refresh button (`loadPrivateData`
  once more), and `loadManagerHotels`, which may fail after the user has been set.
- Seeding, `approve-active-hotels` (it writes a field that nothing reads) and
  `dev.mjs`, which starts processes.
- Payload formatting, serialisation, validation of malformed input, paging, reports
  and lists; prices and capacity (a rejected room is a choice in `FetchRoom`); who owns
  which hotel; password hashing and JWT encoding.
- The reconnect loop of `rabbit.js` at start, and the HTTP, Mongo and configuration
  helpers, which are wiring.

`confirmBookingForUser` writes back the value it has just read and changes nothing;
`userCrudLockedByBooking` is true for users only, who have no inventory page. Mongo
and Redis are single copies without replication lag: the code uses default
connections and no read preference. Amounts are natural numbers: fractional amounts
behave the same in sums and comparisons except for floating-point rounding, which is
not modelled. `releaseRoomLock` deletes the key whoever holds it; the overlap check
and the create lock, not the room lock, keep two stays apart, so a room lock that is
gone early does no harm there.
