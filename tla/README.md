# FlashSeat: a verification project in TLA+

TLA+ models of FlashSeat's concurrent core, the TLC configurations that check them
on small instances, and TLAPS proofs of the main safety properties for instances of
any size. Paths below are relative to the repository (`src/`); `orders.py`,
`event.py`, `admin.py`, `queue.py` are in `backend/app/routers`, `queue_manager.py`,
`seat_lock_cleanup.py`, `redis.py` in `backend/app/core`.

## 1. Inventory

FlashSeat sells the seats of event sessions to many customers at once. One FastAPI
process serves the requests on one event loop; every `await` is a point where another
request, a background task or a loop may run. Shared state lives in PostgreSQL
(asyncpg, READ COMMITTED) and in Redis.

| Component | State | Operations | Hard behaviour | What makes it correct |
|---|---|---|---|---|
| Seat locks (`event.py:453-515`) | key `seat:{session}:{seat}` with the owner, 300 s | `lock_seat` (SET NX EX), background task `_mark_reserved` | the task runs after the answer, at any later time, and its exceptions are swallowed; the key goes by its TTL at any time | at most one sale whoever holds a key; a task ends |
| Order checkout (`orders.py:94-361`) | `orders`, `order_items`, `session_seats`, `event_sessions.available_seats` | `create_order`, `cancel_order` | lock check, row locks, verification, commit and key deletion are separate steps; `cancel_order` reads without locks | zero overselling; a row belongs to a confirmed order; what was verified holds at the commit |
| Cleanup loop (`seat_lock_cleanup.py`) | one transaction per pass | scan, TTL, conditional UPDATE, commit | decides from a TTL that is old when it writes; holds row locks over the pass | never takes a BOOKED seat; gives its locks back; returns abandoned seats |
| Seat blocking (`admin.py:184-224`) | `session_seats.status` | `block_seat` | check and write apart | a BOOKED seat is not blocked |
| Waiting room (`queue_manager.py`, `queue.py`) | Redis set `active_users`, list `waiting_room`, keys `user_session` with TTLs | enter (Lua script), leave, promote, sweep every 5 s | every command is a step of its own; keys expire; a call fails half way | capacity; freed slots are handed on once; dead members lose their slot |
| Event catalog (`event.py:55-276`, `admin.py:110-181`) | `events`, `seats`, `event_sessions`, `session_seats`, counters | create, generate seats, edit, set the status, delete | the check for duplicates and the counters are read, awaited on and written; foreign keys restrict | a session has its event's seats, each once; an order keeps its session; counters promise nothing that is not there |
| Accounts (`auth.py`, `dependencies.py`, `admin_user.py`) | `users`, tokens | register, seed, login, authorise | check, then insert; a token carries an address | a token speaks for one account |
| Browser: cart and seat map (`cartStore.ts`, `useSeatPolling.ts`, `EventPage.tsx`) | cart and its session (in localStorage), map, polled every 5 s | lock, drop, reconcile, change the session, checkout | answers arrive late and out of order, for an old session; callbacks act on what they were created with | the cart holds only what the user locked, and in the end all of it |
| Browser: waiting room page (`useQueuePolling.ts`) | phase of the page | poll every 3 s, leave | polls overlap, leave is fire and forget and sent twice | a waiting user gets in |
| Life cycle (`main.py:18-45`) | the two loops | start, stop | requests and tasks are lost at a stop | nothing depends on their end |

How they interact: `lock_seat` and `create_order` share the Redis keys;
`_mark_reserved`, `create_order`, `cancel_order`, `block_seat` and the cleanup share
the rows of `session_seats`; the cleanup reads the Redis keys; the calls of the waiting
room and its sweeper share three kinds of Redis keys. The waiting room and the booking
path share nothing: no booking endpoint asks whether the user is active. The catalogue
makes the rows the booking path sells; an order refers to its session, and a
cancellation writes a counter of it. No booking endpoint looks at the status of a
session. The page sees the rows through the seat map it polls.

`PROJECT.json` lists every component with its status and the hazards at their lines.

## 2. Modules

| Module | What it is |
|---|---|
| `SeatSale` | abstract: the ledger of seats sold to orders |
| `SeatView` | abstract: the seat map of one session as one customer sees it |
| `SeatBooking` | the booking path of one session, handler by handler; implements `SeatSale` |
| `SeatHistory` | `SeatBooking` with a memory of who ever locked which seat; implements `SeatView` for every customer |
| `MCSeatBooking`, `MCSeatHistory` | symmetry, and the statements of the documentation that the code does not keep |
| `SeatBooking_proofs`, `SeatHistory_proofs` | invariants, safety and both refinements, proved |
| `Turnstile` | abstract: who is let in, who hands a freed place to whom |
| `WaitingRoom` | the waiting room of one event, Redis command by command; implements `Turnstile` |
| `MCWaitingRoom` | symmetry, the documented capacity |
| `WaitingRoom_proofs` | invariant, the bound on the active users and the refinement, proved |
| `Accounts` | registration, seeding, login, and what a token names |
| `SeatPlan` | abstract: which session offers which seats, and what of it was sold |
| `Catalog` | events, seats, sessions and their counters; extends `Accounts`, whose tokens let admins in; implements `SeatPlan` |
| `MCCatalog` | symmetry, and the constraint explained in section 3 |
| `Catalog_proofs` | the invariants of both and the refinement, proved |
| `EventPage` | the booking page in the browser against late, lost and reordered answers; its backend is a `SeatView` per session |
| `MCEventPage` | the instance |
| `EventPage_proofs` | what gets into the cart, and that the backend is a `SeatView`, proved |

The abstract modules are what joins the detailed ones: `SeatHistory` (the server) implements
`SeatView`, and `EventPage` (the browser) assumes of the server exactly a `SeatView`; both
halves are proved, so no property of the page rests on an invented backend.

### SeatBooking and the code

State: `lock` is the Redis key of each seat (its owner, and whether its TTL is below the
5 s the cleanup looks for); `row`, `items`, `orders`, `available` are the committed rows;
`rowLock` says which transaction holds a row lock; `mark`, `call`, `cancel`, `block`,
`cleaner` are the tasks in progress, each with a program counter and the local variables
that survive an `await`.

| Code | Actions |
|---|---|
| `lock_seat`, `_mark_reserved` | `LockSeat`, `MarkRead`, `MarkWrite`, `MarkFails` |
| `create_order` | `PlaceOrder`, `CheckLock` (one GET per seat), `LockRows` (FOR UPDATE NOWAIT), `VerifySeats`, `CommitOrder`, `OrderFails`, `DeleteLocks` |
| `cancel_order` | `CancelRead`, `CancelReadSeats`, `CancelCommit`, `CancelFails` |
| `block_seat` | `BlockRead`, `BlockWrite` |
| cleanup | `CleanupScan`, `CleanupTtl`, `CleanupRelease`, `CleanupCommit`, `CleanupFails` |
| Redis | `LockNearsExpiry`, `LockExpires` |
| stop and start of the process | `Restart` |

Abstractions, and why they are sound for what is checked:

- *Column-wise flush.* SQLAlchemy's UPDATE names only the columns whose value differs
  from the loaded one. A task therefore remembers the set of dirty columns from its read
  (`Dirty`) and its write overwrites those and keeps the others (`OrmWrite`). This
  matters: a task that loaded a RESERVED row of its own user writes nothing.
- *Write and commit in one step.* A transaction whose writes are the last thing before
  its COMMIT does both in one step, guarded by the row being unlocked (`MayWrite`):
  while it holds the row nobody else could have read anything new. The NOWAIT failures
  such a short lock would cause are among those of `OrderFails`, and a deadlock detected
  by PostgreSQL among `CancelFails` and `CleanupFails`.
- *The cleanup* holds the locks of the rows it has released until the end of its pass,
  so its writes and its commit are apart. SCAN is one batch (its COUNT is 500).
- `available_seats` is incremented by a cancellation, decremented nowhere and capped at
  `total_seats`, as in the code: it stays at the total, which the model of the session
  does not have in mind (section 3, finding 6). Here only its domain is stated.
- A member of `Orders` is a call of `POST /orders`, which makes at most one order; a
  PENDING order is never committed, hence never seen.
- The number of tasks in progress at a time is bounded by the size of `MarkTasks`,
  `CancelCalls` and `BlockCalls`; the tasks themselves come again and again.
- `Restart` loses requests, background tasks and open transactions, and keeps Redis and
  the committed rows. It is always enabled, so TLC's deadlock check says nothing here;
  the run `progress` does.

### WaitingRoom and the code

State: `active` and `ttl` are the set and its TTL, `session` the TTL of each user's
session key, `queue` the list; `enter`, `leave`, `promotion` and `sweep` are the calls in
progress; `extra` counts the sweeper's promotions that followed the removal of nobody,
and `failures` the calls that failed.

| Code | Actions |
|---|---|
| `try_enter_booking_page` | `Ask` (SISMEMBER), `Admit` (the Lua script), `Grant` (SETEX), `Enqueue` (RPUSH) |
| `leave_booking_page` | `Leave` (SREM), `Forget` (DEL) |
| `_promote_next_from_queue` | `Pop`, `Add`, `Arm`, `Promote` (LPOP, SADD, EXPIRE, SETEX) |
| `listen_for_expired_sessions` | `SweepScan`, `SweepMembers`, `SweepExists`, `SweepRemove`, `SweepEnd` |
| Redis | `SessionAges`, `ActiveAges`, `QueueExpires` |
| an exception or a stop of the process | `EnterFails`, `LeaveFails`, `SweepFails` |

A TTL is *fresh*, *old* or there is none: enough to tell a key that is refreshed again
and again from one that is left to expire. `SCARD`, `LPOS` and the answers' wording
change nothing and are left out; the EXPIRE of the list shows as `QueueExpires`, which
may happen at any time. Bounds: `MaxQueue` in the guard of `Enqueue`, `MaxFailures` in
the guard of the failures; `extra` counts up to `MaxExtra` and stays there, which blocks
nothing (the bound on the active users is then stated for runs below `MaxExtra`).

### Accounts, Catalog and the code

State: `accounts`, `event`, `seats`, `session`, `sessionSeats` are the committed rows,
`registering`, `gen`, `edit`, `order` the calls in progress with what they have read.
A row of `seats` and its row of `session_seats` are the same record, which carries the
call that made it: two rows for one chair are two records. `overlapped` is a history
variable.

| Code | Actions |
|---|---|
| `register`, `seed_admin_user`, `login` | `Register`, `Seed`, `RegistrationRefused`, `Insert`, `Login` |
| `get_current_user`, `is_admin` | the guard `IsAdmin` of every admin endpoint |
| `create_event` | `CreateEvent` |
| `generate_seats` | `GenEvent`, `GenSeats`, `GenSessions` (one per SELECT), `GenInsert`, `GenLink` (the two flushes, the second with the COMMIT), `GenFails` |
| `update_event`, `update_session_status`, `delete_event` | `EditEvent`, `EditSession`; `UpdateEvent`, `UpdateStatus`, `DeleteEvent` |
| `create_order`, `cancel_order` as far as the catalogue is concerned | `OpenOrder`, `CloseOrder`, `CancelLoad`, `CancelStore`, `CancelFails` |

- `create_event` is one action: every row is new, nobody waits for it or sees it before
  its COMMIT. `generate_seats` is not: it is cut at each statement another call can come
  between, and the INSERT of a position that another call has inserted and not committed
  waits (`MustWait`). PostgreSQL would end a circle of such waits between multi-row
  inserts with an error, which is among `GenFails`.
- The unique constraints and the foreign keys are guards, because the code relies on
  them: an insert that violates one ends in an unhandled exception (a 500). The CHECK
  constraints of `event_sessions` are *not* guards; `ChecksAreKept` shows that no call
  meets them.
- The relationships of the models are not loaded on a delete, so what goes with an event
  is up to the foreign keys: CASCADE for seats, sessions and `session_seats`, RESTRICT
  for orders and their items. An event that was ever sold cannot be deleted, although
  the documentation has the deletion take all associated data (section 3, finding 7).
- `available_seats` never differs from `total_seats`: bookings do not touch it, although
  the model of the session has them decrement it (section 3, finding 6). A cancellation
  therefore loads the counter and finds nothing to write. This is `CountersAgree`,
  proved, and not assumed.
- Two calls of `generate_seats` that overlap lose an update of the counters, which then
  say less than there is; `CapacityIsExactWithoutOverlap` says that nothing else makes
  them differ, neither an edit of the status nor a cancellation nor a deletion.
- `Orders` are places for an order; how its seats are sold is `SeatBooking`.
- `SeatPlan` keeps of all this which event a session belongs to (`home`), the seats it
  offers (`offers`) and the sessions with an order, whatever its state (`sold`). A
  `generate_seats` becomes one step, `Extend`, at its COMMIT.

### EventPage and the code

State: the cart store (`session`, `cart`, `checkoutInProgress`), what the page shows as
available (`offered`), the requests whose answers are under way (`maps`, `locking`,
`loads`, `paying`, `orders`), and the backend as this user sees it (`status`). There are
two history variables: `won`, the seats this user ever locked with their sessions, and
`found`, the seats that are in the cart since the page found them in localStorage.

| Code | Actions |
|---|---|
| `useSeatPolling`, `reconcile` | `Poll`, `MapArrives`, `MapShown` (before the user is known), `MapLost` |
| `handleLockSeat`, `addSeat` | `LockSeat`, `LockAnswered` |
| `removeSeatWithUnlock` | `RemoveSeat` (no endpoint unlocks a seat) |
| `handleSessionChange`, `loadEvent` | `ChooseSession`, `LoadAgain`, `EventLoaded` |
| `handlePay` of the modal, `checkout` | `Pay`, `Checkout`, `OrderAnswered` |
| the backend, and the user's other tabs | `SeatsChange`, `LockedElsewhere` |

A request is served when it is sent and answered whenever the browser likes, in any
order or not at all. What the code does with a late answer is kept as it is: a seat map
is applied to the cart the page has by then, whatever session it was fetched for; a lock
that is granted adds its seat to the cart of the session the user has moved on to; a
second `loadEvent`, made by a callback that remembers no session, takes the page back to
the first session and empties the cart. A cart of another event is the initial state
`Elsewhere`: its polls are 404s until the user picks a session. The backend of each
session is a `SeatView`: any number of seats may change in any way at any time, except
that only this user's lock, given here or in another tab, makes a seat this user's.

Two things are left open rather than kept in a variable, which allows more than the code
does. Whether the render that sent a poll knew the user already: `MapShown` shows an
answer without reconciling the cart at any time, and only fairness says that the user is
fetched in the end. And whether the modal of the checkout is open: its Pay button asks
neither for the cart nor for a checkout in progress, and may be pressed long after the
Checkout button, which does, has opened the modal; so `Pay` has no guard but its bound.
Bounds: `MaxAnswers`, `MaxLocks`, `MaxLoads`, `MaxPayments` on the requests and payments
under way, each in the guard of what starts one. A seat may be clicked again while its
lock is under way, in the same or in another session; equal calls count as one.

## 3. Runs

| Run | Instance | Question and result |
|---|---|---|
| `contention` | `MCSeatHistory`: 2 users, 1 seat, 2 orders, 2 background tasks, 1 cancellation, cleanup | Is a seat sold twice, does a commit confirm something else than what was verified, does a row lose its order otherwise than by a cancellation or a cleanup pass, does a customer see a seat as reserved that this customer never locked? No. The whole implements `SeatSale` and, for each customer, `SeatView`. |
| `orders` | 2 users, 2 seats, 1 order, 1 task, 1 cancellation, cleanup | Do rows and orders agree when cancellations read without locks; does a long pass of the cleanup take a BOOKED seat? Also checks the proofs' invariant. They agree; it does not. |
| `progress` | 1 user, 1 seat with and 1 seat without a row, block endpoint, fairness | Is every row lock given up, does every background task end? Yes. |
| `overshoot` | 2 users, capacity 1, a failure at any command | How far beyond the capacity can the page go, and who gets there? Not beyond the promotions that run at a time, plus the sweeper's that removed nobody; only users who were refused before are promoted, one for each freed slot (`Turnstile`). Can the set of active users come to be without a TTL, and none to come? Only by a promotion that fails between SADD and EXPIRE. |
| `sweep` | 2 users, capacity 1, a failure at any command, fairness | Does a member without a session key lose the slot? Yes, unless the failure leaves the set without a TTL (below). |
| `seats` | 1 event, 2 sessions, 3 positions, 2 calls of `generate_seats`, 1 edit, 1 order, 2 registrations | Do sessions get all seats once, do orders keep their session and its seats, do counters never promise a seat that is not there, does a token name one account? Yes. What is on sale behaves like `SeatPlan`. |
| `cart` | 2 sessions and one of another event, 1 seat, 2 seat maps, 2 lock calls and 2 calls of `loadEvent` under way, 1 payment, fairness | Does a seat get into the cart that was never locked; does the cart agree with the backend in the end? No; yes. |
| `sold`, `abandoned`, `rebook`, `block`, `capacity` | 1-3 users, 1 seat or capacity 1 | Five statements of the documentation that the code does not keep; TLC prints a history for each. Two more are contradicted by properties that hold, in `seats` (below). |

Why these sizes: an interleaving that hurts needs one actor that has read and one that
writes in between. Two users, two orders and two late background tasks on one seat give
every pair of that kind (`contention`); a second seat gives orders of several seats,
partial failure, and a cleanup pass that holds one row while it visits another
(`orders`); capacity 1 with a newcomer, a leaver and the sweeper gives both ways to take
a slot twice. The proofs cover the larger instances. Symmetry is used only where no
liveness is checked. `sweep` has no leave calls, to keep the check of liveness short; a
promotion by the sweeper takes the same four steps. The same property was also found to
hold with one leave call.

`seats`: two overlapping calls of `generate_seats` on three positions can be disjoint,
overlap in part or be equal; two sessions of which one may be gone or created alone make
rows that are missing in one of them visible; one edit and one order race both. One
address and two registrations are the race of a registration with the script. Two events
with two positions were checked once more, with the same result: nothing crosses from
one event to another, which the proofs show for any number. The run has one state
constraint, `RegistrationsFirst`: it leaves out the states in which there is an event and
a registration has checked its address and not yet inserted it. Nothing is lost by it.
An event has been created by an admin, so the one address has an account; the INSERT
fails and changes nothing the catalogue reads, and it does so as well before the event is
created. `cart`: two seat maps under
way can arrive in either order, two lock calls can be a double click or one seat in two
sessions; both sessions share the seat, as in the code, so that a
late answer finds the same seat in another session.

### Fairness

- Weak fairness of the tasks: the event loop runs every task that can go on. Failures,
  requests and restarts are never forced.
- Strong fairness of a write that waits for a row lock: PostgreSQL queues the waiters.
- Weak fairness of the TTLs: time passes in Redis. A key that is refreshed again and
  again does not expire.
- Strong fairness of the sweeper's scan: it wakes every 5 s and a session key lives
  1800 s, so a key that exists again and again is seen.
- On the page, strong fairness of the polls (the interval fires every 5 s while no
  checkout is in progress, and once more when one has ended) and of the answers to seat
  maps that are reconciled (a network that answers now and then, and a user that has been
  fetched: if that fails, the page is left); weak fairness of the timers and of the
  answers to orders, which end one way or the other. Nothing the user does is forced, and
  nothing is asked of the lock calls.

### What disagrees with the documentation

1. `sold`: `create_order` deletes the keys of the seats it sold, `lock_seat` looks only
   at the key, and `_mark_reserved` overwrites any status. A sold seat becomes RESERVED
   for somebody else and then AVAILABLE, while its order stays CONFIRMED. It cannot be
   sold again: the unique constraint of `order_items` holds (`NoOversell`).
2. `abandoned`: the cleanup runs every 60 s, scans the keys that exist and releases at a
   TTL below 5 s. A key that expires between two passes is never seen again; its row
   stays RESERVED until somebody locks the seat anew.
3. `rebook`: `cancel_order` sets the seats AVAILABLE and keeps the order items, whose
   unique constraint refuses every later order of these seats.
4. `block`: the admin's check and write are separated; the booking commits in between.
5. `capacity`: a freed slot is taken by a newcomer through the script and given to the
   promoted user as well, who is added without a look at the capacity.
6. `seats`, `CatalogInv`: no booking writes `available_seats`, so its conjunct
   `CountersAgree` (`available_seats` equals `total_seats`, always) holds. The model of the
   session says that the counter "must be decremented atomically inside the same DB
   transaction that flips a SessionSeat to BOOKED" (`event_session.py:8-10`, and again
   73-77), and `enums.py:18` has a session SOLD_OUT when it hits 0: it never does.
7. `seats`, `SalesAreKept`: `README.md:365` says of `DELETE /admin/events/{event_id}` that
   it "deletes an event and all associated data (cascading)". The foreign keys of orders
   are RESTRICT, so the deletion of an event for which there was ever an order, cancelled
   or not, fails, and nothing of it is deleted. `SalesAreKept` and the clause of `SeatPlan`
   that only sessions never sold are deleted describe the code.

One more behaviour is part of `DeadSlotsAreReclaimed`: a promotion that fails between SADD
and EXPIRE, on a set that had become empty, leaves a set without a TTL. If no session key
of the event lives, the sweeper does not look at it, and the slot is lost until a
newcomer arrives.

## 4. Proofs

`tlapm` checks every proof to its leaves. Assumptions: the seats of a session are
finitely many and among the seats clients may name; NULL and the cleanup task are no
order and no user; users and leave calls are finite sets; capacities are natural
numbers. Nothing is assumed about the number of users, orders, tasks or calls beyond
that.

**SeatBooking.** `NoOversell` alone is inductive only because of the unique constraint.
The other properties need what the handlers know of each other, `BookingInv`:

- `RowLockDiscipline`: a row is locked exactly by the open transactions that asked for
  it, and what the holder has verified (`Bookable`, or RESERVED for the cleanup) stays
  true while it holds the lock. This is where `MayWrite` and FOR UPDATE enter.
- `OrdersFollowCalls`: an order exists only after its call has committed, so an order in
  progress has no items yet.
- `CancelAccounts`: what a cancellation has read without locks is a superset of the rows
  that name its order when it writes, so that no row keeps a cancelled order; and a seat
  it will not set AVAILABLE cannot have become BOOKED since. The argument rests on the
  unique constraint (the seat can have no other order) and on the column-wise flush.
- `TasksAreNamed`: a task in flight names a user and a seat.

The proof has one case per action and under it one step per conjunct the action can
disturb. Theorems: `Invariance`, `TypeCorrectness`, `ZeroOverselling`, `SeatsBelong`,
`ConfirmedSeatsWereReserved`, `CleanupSparesBooked`, `TwoWaysOut` (a row loses its
order only when the order is CANCELLED, or when a cleanup pass frees the row after a
background task has made it RESERVED again; the second way is the one of `sold`, and the
order is CONFIRMED all the time), and `Implementation`: every step of `SeatBooking` is
a step of `SeatSale` or a stutter.

**SeatHistory.** That a seat is shown as a customer's own only after that customer has
locked it is no invariant of `SeatBooking`: the key may be long gone when the background
task writes the row. The history variable `lockedBy` remembers it, and changes no step of
`SeatBooking` (`HistoryNext == Next /\ Remember`). `NamesAreLockers` is inductive: the
owner of a key, the user of a task in flight and the user a row names have locked the
seat. From it follow `HonestViews` and `ViewImplementation` (every customer's view is a
`SeatView`), and `OwnLocksAreSold`: an order sells only seats its buyer has held the keys
of. The last is a theorem and not a property of a run: two checks of `create_order`, that
of the keys and that of the rows, each imply it, and no single change of the code breaks
it.

**WaitingRoom.** `OvershootIsBounded` counts the active users together with the calls
that owe a slot (`Owed`): a leave moves a slot from one to the other, a promotion moves
it back, and the script admits only below the capacity, when at most one slot per
promoter is owed. It is inductive together with the types and `LeaveThenPromote`: a call
deletes its session key before its promotion starts, so that no call owes two slots.
`SetExpiresUnlessFailed` is part of it and needs one fact more, `SweepThenPromote`: the
sweeper's promotion has ended before it removes the next member. A single failed call
makes it say nothing more; `OnlyFailedPromotionsUnarm`, about steps, holds after any
number of failures and names the one that leaves the set without a TTL.

`Implementation` maps the active users to `inside`, the calls that owe a slot to
`tokens`, and those who wait, in the list or taken from it by a promotion, to `line`.
LPOP of an empty list and an exception lose a token; nothing else but SADD spends one,
and only for a user of the line. So a user gets in by the script, which looks at the
capacity, or by one token, which stands for one user who has left or for one of the
sweeper's counted mistakes. The order of the line is not part of it: `Turnstile` promises
none, as one user may stand in the list several times.

Theorems: `Invariance`, `TypeCorrectness`, `BoundedOvershoot`, `SetExpires`,
`OnlyPromotionsUnarm`, `Implementation`.

**Catalog.** Assumptions: positions are finitely many, `create_event` is no call of
`generate_seats`, NULL is no row. The listed properties need, in
`CatalogInv`:

- `CountersAgree`: every counter and every copy a call has loaded has `available` equal
  to `total`; this is what keeps a cancellation from writing an old value.
- `GenDiscipline`: a call that holds counters knows all sessions of its event, its
  copies promise no more than the seats there are (`Informed`), its uncommitted
  positions are free and apart from those of every other call, and if no calls
  overlapped its copies are current (`Apart`). This is where `MustWait` and the unique
  constraint enter.
- `AccountsAreDistinct`: one account per address, from the unique constraint alone.

The proof goes part by part (`AccountsInv`, `RowsInv`, `GenInv`, `EditInv`, `OrderInv`),
with a frame lemma for each part and a lemma per group of actions; that adding seats at
free positions adds that many is the lemma `SeatsGrow`. Theorems: `Invariance`,
`TypeCorrectness`, `OneAccountPerToken`, `NoCheckFails`, `UniqueSeats`,
`CompleteSessions`, `OrdersAreSafe`, `CapacityIsThere`, `CapacityIsExact`,
`SalesStay` (an action property, from `CatalogInv` and the foreign keys),
`BookingTakesOver` (a session whose counters saw no lost update has what `SeatBooking`
starts with: finitely many rows, one for each chair, and `available_seats` their number),
and `PlanImplementation`. The refinement rests on `CatalogInv` at two places: the seats a call has
flushed are new to *every* session of the event (`GenDiscipline`), and an event that was
sold has an order that its sessions' rows cannot lose (`OrdersKeepTheirSession`).

**EventPage.** A cart holds only locked seats because everything that can get into it
does: the rows, the maps and the lock calls under way (`OnlyWonSeatsAreMine`, in
`PageInv`). What the backend does is not tied to `SeatBooking` by hand: `BackendIsASeatView` proves that every
step of the page's specification is, for each session, a step of `SeatView` or a stutter,
and `AnySeatViewWillDo` that every step a `SeatView` can take is one the page is specified
against. With `ViewImplementation` this joins the two ends: the page's safety holds with
the server that `SeatBooking` describes. Theorems: `Invariance`, `TypeCorrectness`,
`OnlyWonSeats`, and the two named.

**Only model-checked:** the liveness properties (`RowLocksAreReleased`, `MarkTasksEnd`,
`DeadSlotsAreReclaimed`, `ReservedSeatsComeBack`, `LostSeatsGoAway`), which are
beyond the prover, and the five counterexamples.

## 5. Not modelled, and the plan

What is left, in this order:

1. The polling client of the waiting room. `WaitingRoom` lets polls and leave calls
   arrive at any time, which covers what the client can do to the server. Not covered is
   how often it does it: after a poll that let the user in, the page loads the event,
   renders, makes a new `onAccessGranted` callback and polls at once, so that a page that
   is open polls without a pause (the documentation has it poll every 3 s until access is
   granted). Rates are in no module.
2. Between the Pay button and `checkout()` lie 1.5 s in which the cart may change, so
   what is ordered need not be what was confirmed. `EventPage` has the delay and the
   change; no document promises otherwise, and no property is stated.

Left out for good: listings and statistics (they change nothing), password hashing and
the signatures and expiry of tokens (library code; an expired token only refuses), rendering, the
WebSocket hook (no endpoint serves it), the load test scripts, and `background_tasks.py` and
`cancel_endpoint.py`, which nothing imports.
