----------------------------- MODULE SeatBooking -----------------------------
(***************************************************************************)
(* The booking path of one event session: the Redis seat locks, the        *)
(* PostgreSQL rows of session_seats, orders and order_items, and the code  *)
(* that moves a seat between them: POST /events/seats/{id}/lock and its    *)
(* background task, POST /orders, POST /orders/{id}/cancel, the admin's    *)
(* block endpoint, the cleanup loop, and a restart of the server process.  *)
(* Every await of the code is a point where other requests interleave.     *)
(* Transactions run READ COMMITTED: a SELECT sees the last commit, an      *)
(* UPDATE waits for the row's lock, writes become visible at commit.  A    *)
(* transaction that writes as the last thing before its commit writes and  *)
(* commits in one step; that it may still fail has an action of its own.   *)
(***************************************************************************)
EXTENDS Integers, FiniteSets

CONSTANTS Users,         \* authenticated customers
          Seats,         \* seat ids a client may name
          SessionSeats,  \* those with a session_seats row in this session
          Orders,        \* calls of POST /orders; a call makes at most one order
          MarkTasks,     \* _mark_reserved background tasks in flight at a time
          CancelCalls,   \* calls of POST /orders/{id}/cancel served at a time
          BlockCalls,    \* calls of the admin's block endpoint served at a time
          Cleanup,       \* the cleanup task as the owner of row locks
          None           \* SQL NULL, or nobody

ASSUME SeatsAssumption == SessionSeats \subseteq Seats /\ IsFiniteSet(SessionSeats)
ASSUME NoneAssumption == None \notin Users \cup Orders \cup {Cleanup}
ASSUME CleanupAssumption == Cleanup \notin Orders

VARIABLES lock,       \* Redis: seat:{session}:{seat} -> owner, and is its TTL below 5 s
          mark,       \* each _mark_reserved background task
          row,        \* committed session_seats rows
          items,      \* order_items: the seats of each order
          orders,     \* committed orders.status; "none": no such row
          available,  \* event_sessions.available_seats
          rowLock,    \* the transaction that holds a session_seats row lock
          call,       \* each call of create_order
          cancel,     \* each call of cancel_order
          block,      \* each call of block_seat
          cleaner     \* the cleanup pass

dbVars == <<row, items, orders, available>>
vars == <<lock, mark, dbVars, rowLock, call, cancel, block, cleaner>>

-----------------------------------------------------------------------------
SeatStatus == {"AVAILABLE", "RESERVED", "BOOKED", "BLOCKED"}

\* PENDING exists only inside create_order's transaction and FAILED is never
\* written, so a committed order is in one of these.
OrderStatus == {"none", "CONFIRMED", "CANCELLED"}

\* booked_at is left out: it is written along with the columns below, and the seat map that
\* returns it is all that reads it.
Row == [status : SeatStatus, bookedBy : Users \cup {None}, order : Orders \cup {None}]
FreeRow == [status |-> "AVAILABLE", bookedBy |-> None, order |-> None]

\* The mapped object is flushed column by column: an UPDATE names only the columns
\* whose new value differs from the value that was loaded, and keeps the others.
Columns == {"status", "bookedBy", "order"}
Dirty(loaded, new) == {c \in Columns : new[c] # loaded[c]}
OrmWrite(current, dirty, new) ==
    [status   |-> IF "status" \in dirty THEN new.status ELSE current.status,
     bookedBy |-> IF "bookedBy" \in dirty THEN new.bookedBy ELSE current.bookedBy,
     order    |-> IF "order" \in dirty THEN new.order ELSE current.order]

\* An UPDATE waits for the row's lock; an object without changes sends no UPDATE.
MayWrite(s, dirty) == dirty # {} => rowLock[s] = None

\* Mutant: a transaction whose rollback or commit is forgotten.
RowLocksLeaked(t) == rowLock

\* COMMIT and ROLLBACK give up every row lock of the transaction.
RowLocksWithout(t) == [s \in SessionSeats |-> IF rowLock[s] = t THEN None ELSE rowLock[s]]

NoLock == [owner |-> None, expiring |-> FALSE]
NoMark == [pc |-> "idle", user |-> None, seat |-> None, dirty |-> {}]
NoCancel == [pc |-> "idle", order |-> None, dirty |-> [s \in SessionSeats |-> {}]]
NoBlock == [pc |-> "idle", seat |-> None, blocked |-> FALSE, dirty |-> {}]
Asleep == [running |-> FALSE, keys |-> {}, due |-> {}, released |-> {}]
NoCall == [pc |-> "idle", user |-> None, seats |-> {}, unchecked |-> {}]
Answered == [NoCall EXCEPT !.pc = "done"]

Init == /\ lock = [s \in Seats |-> NoLock]
        /\ mark = [m \in MarkTasks |-> NoMark]
        /\ row = [s \in SessionSeats |-> FreeRow]
        /\ items = [o \in Orders |-> {}]
        /\ orders = [o \in Orders |-> "none"]
        /\ available = Cardinality(SessionSeats)
        /\ rowLock = [s \in SessionSeats |-> None]
        /\ call = [o \in Orders |-> NoCall]
        /\ cancel = [k \in CancelCalls |-> NoCancel]
        /\ block = [b \in BlockCalls |-> NoBlock]
        /\ cleaner = Asleep

-----------------------------------------------------------------------------
(* POST /events/seats/{seat_id}/lock *)

\* Mutant: the background task is enqueued whether or not SET NX succeeded.
LockSeatAnyway(m, u, s) ==
    /\ mark[m].pc = "idle"
    /\ lock' = IF lock[s].owner = None
               THEN [lock EXCEPT ![s] = [owner |-> u, expiring |-> FALSE]] ELSE lock
    /\ mark' = [mark EXCEPT ![m] = [pc |-> "queued", user |-> u, seat |-> s, dirty |-> {}]]
    /\ UNCHANGED <<dbVars, rowLock, call, cancel, block, cleaner>>

\* SET NX EX 300; when it succeeds the background task is enqueued.
LockSeat(m, u, s) ==
    /\ lock[s].owner = None
    /\ mark[m].pc = "idle"
    /\ lock' = [lock EXCEPT ![s] = [owner |-> u, expiring |-> FALSE]]
    /\ mark' = [mark EXCEPT ![m] = [pc |-> "queued", user |-> u, seat |-> s, dirty |-> {}]]
    /\ UNCHANGED <<dbVars, rowLock, call, cancel, block, cleaner>>

\* Whatever the status was, the object becomes RESERVED for the user.
Marked(r, u) == [r EXCEPT !.status = "RESERVED", !.bookedBy = u]

\* The task's plain SELECT and the assignments; without a row it returns.
MarkRead(m) ==
    LET c == mark[m]
    IN  /\ c.pc = "queued"
        /\ mark' = IF c.seat \in SessionSeats
                   THEN [mark EXCEPT ![m].pc = "loaded",
                                     ![m].dirty = Dirty(row[c.seat], Marked(row[c.seat], c.user))]
                   ELSE [mark EXCEPT ![m] = NoMark]
        /\ UNCHANGED <<lock, dbVars, rowLock, call, cancel, block, cleaner>>

\* The UPDATE and the COMMIT.
MarkWrite(m) ==
    LET c == mark[m]
    IN  /\ c.pc = "loaded"
        /\ MayWrite(c.seat, c.dirty)
        /\ row' = [row EXCEPT ![c.seat] = OrmWrite(@, c.dirty, Marked(@, c.user))]
        /\ mark' = [mark EXCEPT ![m] = NoMark]
        /\ UNCHANGED <<lock, items, orders, available, rowLock, call, cancel, block, cleaner>>

\* "except Exception: pass"
MarkFails(m) ==
    /\ mark[m].pc # "idle"
    /\ mark' = [mark EXCEPT ![m] = NoMark]
    /\ UNCHANGED <<lock, dbVars, rowLock, call, cancel, block, cleaner>>

\* Redis counts the 300 s down; the cleanup tells only the last 5 s apart.
LockNearsExpiry(s) ==
    /\ lock[s].owner # None
    /\ ~lock[s].expiring
    /\ lock' = [lock EXCEPT ![s].expiring = TRUE]
    /\ UNCHANGED <<mark, dbVars, rowLock, call, cancel, block, cleaner>>

LockExpires(s) ==
    /\ lock[s].expiring
    /\ lock' = [lock EXCEPT ![s] = NoLock]
    /\ UNCHANGED <<mark, dbVars, rowLock, call, cancel, block, cleaner>>

-----------------------------------------------------------------------------
(* POST /orders *)

\* The request arrives with its seats, duplicates removed; an empty list is a 400.
PlaceOrder(o, u, S) ==
    /\ call[o].pc = "idle"
    /\ call' = [call EXCEPT ![o] = IF S = {} THEN Answered
                                   ELSE [pc |-> "check", user |-> u, seats |-> S, unchecked |-> S]]
    /\ UNCHANGED <<lock, mark, dbVars, rowLock, cancel, block, cleaner>>

\* One GET per seat; a missing or foreign lock is a 409.
CheckLock(o, s) ==
    /\ call[o].pc = "check"
    /\ s \in call[o].unchecked
    /\ call' = IF lock[s].owner = call[o].user
               THEN [call EXCEPT ![o].unchecked = @ \ {s}]
               ELSE [call EXCEPT ![o] = Answered]
    /\ UNCHANGED <<lock, mark, dbVars, rowLock, cancel, block, cleaner>>

\* Any exception between the first flush and the commit: ROLLBACK, 409 or 500.
RollBackOrder(o) ==
    /\ call' = [call EXCEPT ![o] = Answered]
    /\ rowLock' = RowLocksWithout(o)
    /\ UNCHANGED <<lock, mark, dbVars, cancel, block, cleaner>>

\* Mutant: the rows are read without FOR UPDATE.
PlainSelect(o, wanted) == rowLock

\* The row locks after SELECT ... FOR UPDATE.
ForUpdate(o, wanted) == [s \in SessionSeats |-> IF s \in wanted THEN o ELSE rowLock[s]]

\* INSERT of the PENDING order, seen by nobody else before the commit, and
\* SELECT ... FOR UPDATE NOWAIT of the rows.
LockRows(o) ==
    LET wanted == call[o].seats \cap SessionSeats
    IN  /\ call[o].pc = "check"
        /\ call[o].unchecked = {}
        /\ IF \E s \in wanted : rowLock[s] # None
           THEN RollBackOrder(o)
           ELSE /\ rowLock' = ForUpdate(o, wanted)
                /\ call' = [call EXCEPT ![o].pc = "verify"]
                /\ UNCHANGED <<lock, mark, dbVars, cancel, block, cleaner>>

\* Every seat has a row, RESERVED by this user.
Bookable(o) ==
    /\ call[o].seats \subseteq SessionSeats
    /\ \A s \in call[o].seats : row[s].status = "RESERVED" /\ row[s].bookedBy = call[o].user

VerifySeats(o) ==
    /\ call[o].pc = "verify"
    /\ IF Bookable(o)
       THEN /\ call' = [call EXCEPT ![o].pc = "commit"]
            /\ UNCHANGED <<lock, mark, dbVars, rowLock, cancel, block, cleaner>>
       ELSE RollBackOrder(o)

\* Mutant: the unique constraint is dropped.
WithoutUniqueItems(o) == TRUE

\* uq_order_item_session_seat: a session_seat is in one order_item, ever.
ItemsInsertable(o) == \A p \in Orders : items[p] \cap call[o].seats = {}

\* booked_by was verified to be the user, so the UPDATE leaves that column alone.
Booked(r, o) == [r EXCEPT !.status = "BOOKED", !.order = o]

\* The flush of the seats and items, the order CONFIRMED, COMMIT.
CommitOrder(o) ==
    /\ call[o].pc = "commit"
    /\ IF ItemsInsertable(o)
       THEN /\ row' = [s \in SessionSeats |->
                         IF s \in call[o].seats THEN Booked(row[s], o) ELSE row[s]]
            /\ items' = [items EXCEPT ![o] = call[o].seats]
            /\ orders' = [orders EXCEPT ![o] = "CONFIRMED"]
            /\ rowLock' = RowLocksWithout(o)
            /\ call' = [call EXCEPT ![o].pc = "unlock"]
            /\ UNCHANGED <<lock, mark, available, cancel, block, cleaner>>
       ELSE RollBackOrder(o)

\* A database error inside the transaction; also a row that NOWAIT finds locked by a
\* short transaction, whose UPDATE and COMMIT are one step here.
OrderFails(o) ==
    /\ \/ call[o].pc \in {"verify", "commit"}
       \/ call[o].pc = "check" /\ call[o].unchecked = {}
    /\ RollBackOrder(o)

\* The pipeline of DELs after the commit; it does not look at the owner.
DeleteLocks(o) ==
    /\ call[o].pc = "unlock"
    /\ lock' = [s \in Seats |-> IF s \in call[o].seats THEN NoLock ELSE lock[s]]
    /\ call' = [call EXCEPT ![o] = Answered]
    /\ UNCHANGED <<mark, dbVars, rowLock, cancel, block, cleaner>>

-----------------------------------------------------------------------------
(* POST /orders/{order_id}/cancel *)

\* The buyer's order is loaded; a status other than CONFIRMED is a 400.
CancelRead(k, o) ==
    /\ cancel[k].pc = "idle"
    /\ orders[o] = "CONFIRMED"
    /\ cancel' = [cancel EXCEPT ![k].pc = "seats", ![k].order = o]
    /\ UNCHANGED <<lock, mark, dbVars, rowLock, call, block, cleaner>>

\* Mutant: only the seats that are still BOOKED.
BookedSeatsOf(o) == {s \in SessionSeats : row[s].order = o /\ row[s].status = "BOOKED"}

\* SELECT session_seats WHERE order_id, without FOR UPDATE.
SeatsOf(o) == {s \in SessionSeats : row[s].order = o}

\* Every seat found is to become a free row.
CancelReadSeats(k) ==
    /\ cancel[k].pc = "seats"
    /\ cancel' = [cancel EXCEPT
                    ![k].pc = "write",
                    ![k].dirty = [s \in SessionSeats |->
                                    IF s \in SeatsOf(cancel[k].order)
                                    THEN Dirty(row[s], FreeRow) ELSE {}]]
    /\ UNCHANGED <<lock, mark, dbVars, rowLock, call, block, cleaner>>

\* Mutant: the sum is not capped.
Uncapped(n) == n

\* min(..., session.total_seats)
Capped(n) == IF n < Cardinality(SessionSeats) THEN n ELSE Cardinality(SessionSeats)

CancelSeats(k) == {s \in SessionSeats : cancel[k].dirty[s] # {}}

\* The flush waits for the rows, puts every loaded seat back on sale and caps the
\* session's counter at its size; then the order is CANCELLED and COMMIT.  The SELECT of
\* the session flushes the rows first, so their locks are held over one more await: until
\* the commit others read the old rows, writers wait as they do for MayWrite, and NOWAIT
\* fails as in OrderFails.  No other handler of the booking path writes the counter, so
\* that it is read a moment before it is written makes no difference here.
CancelCommit(k) ==
    LET mine == CancelSeats(k)
    IN  /\ cancel[k].pc = "write"
        /\ \A s \in mine : MayWrite(s, cancel[k].dirty[s])
        /\ row' = [s \in SessionSeats |-> OrmWrite(row[s], cancel[k].dirty[s], FreeRow)]
        /\ available' = Capped(available + Cardinality(mine))
        /\ orders' = [orders EXCEPT ![cancel[k].order] = "CANCELLED"]
        /\ cancel' = [cancel EXCEPT ![k] = NoCancel]
        /\ UNCHANGED <<lock, mark, items, rowLock, call, block, cleaner>>

\* An exception: ROLLBACK, 500.
CancelFails(k) ==
    /\ cancel[k].pc # "idle"
    /\ cancel' = [cancel EXCEPT ![k] = NoCancel]
    /\ UNCHANGED <<lock, mark, dbVars, rowLock, call, block, cleaner>>

-----------------------------------------------------------------------------
(* POST /admin/events/.../seats/{seat_id}/block *)

Blocked(r, on) == [r EXCEPT !.status = IF on THEN "BLOCKED" ELSE "AVAILABLE"]

\* A BOOKED seat is a 409; unblocking anything but a BLOCKED seat changes nothing.
BlockRead(b, s, on) ==
    /\ block[b].pc = "idle"
    /\ IF on THEN row[s].status # "BOOKED" ELSE row[s].status = "BLOCKED"
    /\ block' = [block EXCEPT ![b] = [pc |-> "write", seat |-> s, blocked |-> on,
                                      dirty |-> Dirty(row[s], Blocked(row[s], on))]]
    /\ UNCHANGED <<lock, mark, dbVars, rowLock, call, cancel, cleaner>>

\* The UPDATE and the COMMIT.
BlockWrite(b) ==
    LET c == block[b]
    IN  /\ c.pc = "write"
        /\ MayWrite(c.seat, c.dirty)
        /\ row' = [row EXCEPT ![c.seat] = OrmWrite(@, c.dirty, Blocked(@, c.blocked))]
        /\ block' = [block EXCEPT ![b] = NoBlock]
        /\ UNCHANGED <<lock, mark, items, orders, available, rowLock, call, cancel, cleaner>>

-----------------------------------------------------------------------------
(* seat_lock_cleanup: a pass every 60 s, one transaction for the whole pass *)

\* SCAN seat:* : only keys that still exist are seen.
CleanupScan ==
    /\ ~cleaner.running
    /\ cleaner' = [Asleep EXCEPT !.running = TRUE,
                                 !.keys = {s \in Seats : lock[s].owner # None}]
    /\ UNCHANGED <<lock, mark, dbVars, rowLock, call, cancel, block>>

\* TTL of the next key: gone (-2) or below 5 s means release.
CleanupTtl(s) ==
    /\ s \in cleaner.keys
    /\ cleaner.due = {}
    /\ cleaner' = [cleaner EXCEPT
                     !.keys = @ \ {s},
                     !.due = IF lock[s].owner = None \/ lock[s].expiring THEN {s} ELSE {}]
    /\ UNCHANGED <<lock, mark, dbVars, rowLock, call, cancel, block>>

\* Mutant: the WHERE clause lets BOOKED rows through.
ReleasableUnlessFree(s) == row[s].status # "AVAILABLE"

\* UPDATE ... WHERE status = RESERVED: waits for the row's lock and then holds it;
\* the new values are written out in CleanupCommit.
Releasable(s) == row[s].status = "RESERVED"

CleanupRelease(s) ==
    /\ s \in cleaner.due
    /\ IF s \in SessionSeats /\ Releasable(s)
       THEN /\ rowLock[s] = None
            /\ rowLock' = [rowLock EXCEPT ![s] = Cleanup]
            /\ cleaner' = [cleaner EXCEPT !.due = {}, !.released = @ \cup {s}]
       ELSE /\ cleaner' = [cleaner EXCEPT !.due = {}]
            /\ UNCHANGED rowLock
    /\ UNCHANGED <<lock, mark, dbVars, call, cancel, block>>

CleanupCommit ==
    /\ cleaner.running /\ cleaner.keys = {} /\ cleaner.due = {}
    /\ row' = [s \in SessionSeats |-> IF s \in cleaner.released THEN FreeRow ELSE row[s]]
    /\ rowLock' = RowLocksWithout(Cleanup)
    /\ cleaner' = Asleep
    /\ UNCHANGED <<lock, mark, items, orders, available, call, cancel, block>>

\* The loop logs an exception and goes on; leaving the session rolls back.
CleanupFails ==
    /\ cleaner.running
    /\ rowLock' = RowLocksWithout(Cleanup)
    /\ cleaner' = Asleep
    /\ UNCHANGED <<lock, mark, dbVars, call, cancel, block>>

-----------------------------------------------------------------------------
\* The server process stops and starts again: requests and background tasks are
\* lost, PostgreSQL rolls their transactions back, Redis keeps its keys.
InFlight(o) == call[o].pc \notin {"idle", "done"}

Restart ==
    /\ mark' = [m \in MarkTasks |-> NoMark]
    /\ call' = [o \in Orders |-> IF InFlight(o) THEN Answered ELSE call[o]]
    /\ cancel' = [k \in CancelCalls |-> NoCancel]
    /\ block' = [b \in BlockCalls |-> NoBlock]
    /\ cleaner' = Asleep
    /\ rowLock' = [s \in SessionSeats |-> None]
    /\ UNCHANGED <<lock, dbVars>>

-----------------------------------------------------------------------------
MarkStep(m) == MarkRead(m) \/ MarkWrite(m) \/ MarkFails(m)

OrderStep(o) == \/ \E s \in Seats : CheckLock(o, s)
                \/ LockRows(o) \/ VerifySeats(o) \/ CommitOrder(o) \/ OrderFails(o)
                \/ DeleteLocks(o)

CancelStep(k) == CancelReadSeats(k) \/ CancelCommit(k) \/ CancelFails(k)

CleanupStep == \/ CleanupScan \/ CleanupCommit \/ CleanupFails
               \/ \E s \in Seats : CleanupTtl(s) \/ CleanupRelease(s)

Next == \/ \E m \in MarkTasks, u \in Users, s \in Seats : LockSeat(m, u, s)
        \/ \E m \in MarkTasks : MarkStep(m)
        \/ \E s \in Seats : LockNearsExpiry(s) \/ LockExpires(s)
        \/ \E o \in Orders, u \in Users, S \in SUBSET Seats : PlaceOrder(o, u, S)
        \/ \E o \in Orders : OrderStep(o)
        \/ \E k \in CancelCalls, o \in Orders : CancelRead(k, o)
        \/ \E k \in CancelCalls : CancelStep(k)
        \/ \E b \in BlockCalls, s \in SessionSeats, on \in BOOLEAN : BlockRead(b, s, on)
        \/ \E b \in BlockCalls : BlockWrite(b)
        \/ CleanupStep
        \/ Restart

Spec == Init /\ [][Next]_vars

-----------------------------------------------------------------------------
(* What the scheduling justifies.  The event loop runs every task that can  *)
(* go on, PostgreSQL queues the writers that wait for a row (so one that can *)
(* go on again and again does go on), and time passes in Redis.             *)

Fairness ==
    /\ \A m \in MarkTasks : WF_vars(MarkRead(m)) /\ SF_vars(MarkWrite(m))
    /\ \A s \in Seats : WF_vars(LockNearsExpiry(s) \/ LockExpires(s))
    /\ \A o \in Orders : WF_vars(OrderStep(o))
    /\ \A k \in CancelCalls : WF_vars(CancelReadSeats(k)) /\ SF_vars(CancelCommit(k))
    /\ \A b \in BlockCalls : SF_vars(BlockWrite(b))
    /\ WF_vars(CleanupScan \/ CleanupCommit \/ \E s \in Seats : CleanupTtl(s))
    /\ SF_vars(\E s \in Seats : CleanupRelease(s))

FairSpec == Spec /\ Fairness

-----------------------------------------------------------------------------
(* Correctness *)

LockRecord == [owner : Users \cup {None}, expiring : BOOLEAN]
MarkRecord == [pc : {"idle", "queued", "loaded"}, user : Users \cup {None},
               seat : Seats \cup {None}, dirty : SUBSET Columns]
CallRecord == [pc : {"idle", "check", "verify", "commit", "unlock", "done"},
               user : Users \cup {None}, seats : SUBSET Seats, unchecked : SUBSET Seats]
CancelRecord == [pc : {"idle", "seats", "write"}, order : Orders \cup {None},
                 dirty : [SessionSeats -> SUBSET Columns]]
BlockRecord == [pc : {"idle", "write"}, seat : SessionSeats \cup {None},
                blocked : BOOLEAN, dirty : SUBSET Columns]
CleanerRecord == [running : BOOLEAN, keys : SUBSET Seats, due : SUBSET Seats,
                  released : SUBSET SessionSeats]

\* Every variable stays in its domain; the session's counter respects the CHECK
\* constraints of event_sessions.
TypeOK ==
    /\ lock \in [Seats -> LockRecord]
    /\ mark \in [MarkTasks -> MarkRecord]
    /\ row \in [SessionSeats -> Row]
    /\ items \in [Orders -> SUBSET SessionSeats]
    /\ orders \in [Orders -> OrderStatus]
    /\ available \in 0..Cardinality(SessionSeats)
    /\ rowLock \in [SessionSeats -> Orders \cup {Cleanup, None}]
    /\ call \in [Orders -> CallRecord]
    /\ cancel \in [CancelCalls -> CancelRecord]
    /\ block \in [BlockCalls -> BlockRecord]
    /\ cleaner \in CleanerRecord

\* No seat is in the items of two orders, whatever locks expired, were deleted or
\* were taken twice on the way: "zero seat overselling".
NoOversell == \A o, p \in Orders : o # p => items[o] \cap items[p] = {}

\* A row that names an order is a ticket of that order and the order is CONFIRMED, and
\* a BOOKED row names one: a cancelled order keeps no seat although cancel_order reads
\* the seats without locking them, and no stale write brings an order back.
SeatsBelongToConfirmedOrders ==
    \A s \in SessionSeats :
        /\ row[s].status = "BOOKED" => row[s].order # None
        /\ row[s].order # None => /\ s \in items[row[s].order]
                                  /\ orders[row[s].order] = "CONFIRMED"

\* When an order becomes CONFIRMED each of its seats is, at that moment, RESERVED for
\* the buyer: what was verified still holds at the commit.
ConfirmsOwnReservation ==
    [][\A o \in Orders : orders[o] = "none" /\ orders'[o] = "CONFIRMED" =>
          \A s \in items'[o] : row[s].status = "RESERVED" /\ row[s].bookedBy = call[o].user]_vars

\* A row that has an order, whatever its status, loses it in two ways only: the order is
\* CANCELLED, or a cleanup pass frees a row that a late _mark_reserved has made RESERVED
\* again.  The order of a row is never replaced by another one: neither a second sale, nor
\* a background task, a block or the cancellation of another order takes it.
OrdersLeaveRowsTwoWays ==
    [][\A s \in SessionSeats : row[s].order # None /\ row'[s].order # row[s].order =>
          /\ row'[s].order = None
          /\ \/ orders'[row[s].order] = "CANCELLED"
             \/ CleanupCommit /\ row[s].status = "RESERVED"]_vars

\* The commit of a cleanup pass changes no BOOKED row, however long the pass took.
CleanupKeepsBooked ==
    [][CleanupCommit => \A s \in SessionSeats : row[s].status = "BOOKED" => row'[s] = row[s]]_vars

\* The ledger of sales behaves like SeatSale.
Sale == INSTANCE SeatSale WITH Seats <- SessionSeats, tickets <- items, state <- orders
SaleSpec == Sale!Spec

\* A row lock is given up: every path out of a transaction commits or rolls back.
RowLocksAreReleased ==
    \A s \in SessionSeats, t \in Orders \cup {Cleanup} : rowLock[s] = t ~> rowLock[s] # t

\* A RESERVED mark that was promised to a customer is written or dropped in the end.
MarkTasksEnd == \A m \in MarkTasks : mark[m].pc # "idle" ~> mark[m].pc = "idle"

-----------------------------------------------------------------------------
(* Why it holds: the inductive invariant behind the safety properties *)

InTransaction(o) == call[o].pc \in {"verify", "commit"}

\* A row is locked by an open transaction of create_order that asked for it, or by the
\* cleanup pass that released it; what the holder has checked stays true.
RowLockDiscipline ==
    /\ \A s \in SessionSeats, o \in Orders :
          rowLock[s] = o <=> InTransaction(o) /\ s \in call[o].seats
    /\ \A s \in SessionSeats : rowLock[s] = Cleanup <=> s \in cleaner.released
    /\ \A o \in Orders : call[o].pc = "commit" => Bookable(o)
    /\ \A s \in cleaner.released : Releasable(s)
    /\ cleaner.running \/ cleaner = Asleep

\* A call has an order once it has committed, and an order has items; the call is a
\* customer's.
OrdersFollowCalls ==
    \A o \in Orders :
        /\ call[o].pc \in {"idle", "check", "verify", "commit"} =>
               /\ orders[o] = "none"
               /\ call[o].pc # "idle" => call[o].user \in Users /\ call[o].seats # {}
        /\ orders[o] = "none" => items[o] = {}

\* What a cancellation has read: all the rows of its order, each a ticket of it; one
\* that it will not set AVAILABLE cannot have become BOOKED since.
CancelAccounts ==
    \A k \in CancelCalls : cancel[k].pc # "idle" =>
        /\ cancel[k].order \in Orders
        /\ orders[cancel[k].order] # "none"
        /\ cancel[k].pc = "write" => \A s \in SessionSeats :
              /\ row[s].order = cancel[k].order => s \in CancelSeats(k)
              /\ s \in CancelSeats(k) =>
                    /\ "order" \in cancel[k].dirty[s]
                    /\ s \in items[cancel[k].order]
                    /\ "status" \in cancel[k].dirty[s] \/ row[s].status # "BOOKED"

\* Tasks in flight name a user and a seat.
TasksAreNamed ==
    /\ \A m \in MarkTasks :
          /\ mark[m].pc # "idle" => mark[m].user \in Users /\ mark[m].seat \in Seats
          /\ mark[m].pc = "loaded" => mark[m].seat \in SessionSeats
    /\ \A b \in BlockCalls : block[b].pc = "write" => block[b].seat \in SessionSeats

BookingInv == /\ TypeOK
              /\ NoOversell
              /\ SeatsBelongToConfirmedOrders
              /\ RowLockDiscipline
              /\ OrdersFollowCalls
              /\ CancelAccounts
              /\ TasksAreNamed
=============================================================================
