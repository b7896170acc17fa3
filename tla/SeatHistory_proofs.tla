------------------------- MODULE SeatHistory_proofs -------------------------
(***************************************************************************)
(* Proofs about SeatHistory: who the rows, the keys and the background     *)
(* tasks name has locked the seat; an order sells only seats its buyer has *)
(* locked; and what every customer sees implements SeatView.               *)
(***************************************************************************)
EXTENDS SeatHistory, SeatBooking_proofs

USE SeatsAssumption, NoneAssumption, CleanupAssumption

-----------------------------------------------------------------------------
(* The memory *)

\* What was locked stays remembered, and the owner of a key is remembered at once.
LEMMA MemoryGrows ==
  ASSUME HistoryTypeOK, Remember
  PROVE  /\ HistoryTypeOK'
         /\ \A u \in Users : lockedBy[u] \subseteq lockedBy'[u]
         /\ \A u \in Users, s \in Seats : lock'[s].owner = u => s \in lockedBy'[u]
BY DEF HistoryTypeOK, Remember

\* Only lock_seat gives a key an owner.
LEMMA OwnersGo ==
  ASSUME TypeOK, Next,
         \A m \in MarkTasks, u \in Users, s \in Seats : ~LockSeat(m, u, s)
  PROVE  \A s \in Seats : lock'[s].owner \in {None, lock[s].owner}
<1>. SUFFICES ASSUME NEW s \in Seats PROVE lock'[s].owner \in {None, lock[s].owner}
  OBVIOUS
<1>1. lock[s] \in LockRecord /\ NoLock.owner = None
  BY DEF TypeOK, NoLock
<1>2. ASSUME UNCHANGED lock PROVE lock'[s].owner \in {None, lock[s].owner}
  BY <1>2
<1>3. ASSUME NEW m \in MarkTasks, MarkStep(m) PROVE UNCHANGED lock
  BY <1>3 DEF MarkStep, MarkRead, MarkWrite, MarkFails
<1>4. ASSUME NEW t \in Seats, LockNearsExpiry(t) \/ LockExpires(t)
      PROVE  lock'[s].owner \in {None, lock[s].owner}
  BY <1>1, <1>4 DEF LockNearsExpiry, LockExpires, TypeOK, LockRecord
<1>5. ASSUME NEW o \in Orders, (\E u \in Users, S \in SUBSET Seats : PlaceOrder(o, u, S)) \/ OrderStep(o)
      PROVE  lock'[s].owner \in {None, lock[s].owner}
  <2>1. CASE DeleteLocks(o)
    BY <1>1, <2>1 DEF DeleteLocks
  <2>2. CASE ~DeleteLocks(o)
    BY <1>2, <1>5, <2>2 DEF PlaceOrder, OrderStep, CheckLock, LockRows, VerifySeats, CommitOrder,
                            OrderFails, RollBackOrder
  <2>. QED  BY <2>1, <2>2
<1>6. ASSUME NEW k \in CancelCalls, (\E o \in Orders : CancelRead(k, o)) \/ CancelStep(k)
      PROVE  UNCHANGED lock
  BY <1>6 DEF CancelRead, CancelStep, CancelReadSeats, CancelCommit, CancelFails
<1>7. ASSUME NEW b \in BlockCalls,
             (\E t \in SessionSeats, on \in BOOLEAN : BlockRead(b, t, on)) \/ BlockWrite(b)
      PROVE  UNCHANGED lock
  BY <1>7 DEF BlockRead, BlockWrite
<1>8. CleanupStep \/ Restart => UNCHANGED lock
  BY DEF CleanupStep, CleanupScan, CleanupTtl, CleanupRelease, CleanupCommit, CleanupFails, Restart
<1>. QED  BY <1>2, <1>3, <1>4, <1>5, <1>6, <1>7, <1>8 DEF Next

\* A background task keeps the user and the seat of the lock that started it.
LEMMA TasksKeepNames ==
  ASSUME TypeOK, [Next]_vars, NEW m \in MarkTasks, mark'[m].pc # "idle"
  PROVE  \/ \E u \in Users, s \in Seats : LockSeat(m, u, s)
         \/ /\ mark[m].pc # "idle"
            /\ mark'[m].user = mark[m].user /\ mark'[m].seat = mark[m].seat
<1>. DEFINE Goal == \/ \E u \in Users, s \in Seats : LockSeat(m, u, s)
                    \/ /\ mark[m].pc # "idle"
                       /\ mark'[m].user = mark[m].user /\ mark'[m].seat = mark[m].seat
<1>0. NoMark.pc = "idle" /\ mark \in [MarkTasks -> MarkRecord]
  BY DEF NoMark, TypeOK
<1>1. ASSUME UNCHANGED mark PROVE Goal
  BY <1>1
<1>2. ASSUME NEW n \in MarkTasks, mark' = [mark EXCEPT ![n] = NoMark] PROVE Goal
  BY <1>0, <1>2
<1>3. ASSUME NEW n \in MarkTasks, NEW u \in Users, NEW s \in Seats, LockSeat(n, u, s) PROVE Goal
  BY <1>0, <1>3 DEF LockSeat
<1>4. ASSUME NEW n \in MarkTasks, MarkStep(n) PROVE Goal
  <2>1. CASE MarkRead(n) /\ mark[n].seat \in SessionSeats
    <3>1. PICK d : mark' = [mark EXCEPT ![n] = [@ EXCEPT !.pc = "loaded", !.dirty = d]]
      BY <2>1 DEF MarkRead
    <3>2. CASE n = m
      <4>1. mark[m] \in MarkRecord /\ mark[m].pc # "idle"
        BY <1>0, <2>1, <3>2 DEF MarkRead
      <4>2. mark'[m] = [mark[m] EXCEPT !.pc = "loaded", !.dirty = d]
        BY <1>0, <3>1, <3>2
      <4>. QED  BY <4>1, <4>2 DEF MarkRecord
    <3>3. CASE n # m
      BY <1>0, <3>1, <3>3
    <3>. QED  BY <3>2, <3>3
  <2>2. CASE MarkRead(n) /\ mark[n].seat \notin SessionSeats
    BY <1>2, <2>2 DEF MarkRead
  <2>3. CASE MarkWrite(n) \/ MarkFails(n)
    BY <1>2, <2>3 DEF MarkWrite, MarkFails
  <2>. QED  BY <1>4, <2>1, <2>2, <2>3 DEF MarkStep
<1>5. ASSUME NEW s \in Seats, LockNearsExpiry(s) \/ LockExpires(s) PROVE Goal
  BY <1>1, <1>5 DEF LockNearsExpiry, LockExpires
<1>6. ASSUME NEW o \in Orders, (\E u \in Users, S \in SUBSET Seats : PlaceOrder(o, u, S)) \/ OrderStep(o)
      PROVE  Goal
  BY <1>1, <1>6 DEF PlaceOrder, OrderStep, CheckLock, LockRows, VerifySeats, CommitOrder, OrderFails,
                    DeleteLocks, RollBackOrder
<1>7. ASSUME NEW k \in CancelCalls, (\E o \in Orders : CancelRead(k, o)) \/ CancelStep(k) PROVE Goal
  BY <1>1, <1>7 DEF CancelRead, CancelStep, CancelReadSeats, CancelCommit, CancelFails
<1>8. ASSUME NEW b \in BlockCalls,
             (\E s \in SessionSeats, on \in BOOLEAN : BlockRead(b, s, on)) \/ BlockWrite(b)
      PROVE  Goal
  BY <1>1, <1>8 DEF BlockRead, BlockWrite
<1>9. CASE CleanupStep
  BY <1>1, <1>9 DEF CleanupStep, CleanupScan, CleanupTtl, CleanupRelease, CleanupCommit, CleanupFails
<1>10. CASE Restart
  BY <1>0, <1>10 DEF Restart
<1>11. CASE UNCHANGED vars
  BY <1>1, <1>11 DEF vars
<1>. QED
  BY <1>3, <1>4, <1>5, <1>6, <1>7, <1>8, <1>9, <1>10, <1>11 DEF Next

\* A row gets the name of a user from a background task of that user, and from nothing
\* else.
LEMMA NamesComeFromTasks ==
  ASSUME BookingInv, [Next]_vars, NEW s \in SessionSeats
  PROVE  \/ row'[s].bookedBy \in {None, row[s].bookedBy}
         \/ \E m \in MarkTasks : /\ mark[m].pc = "loaded" /\ mark[m].seat = s
                                 /\ row'[s].bookedBy = mark[m].user
<1>. USE DEF BookingInv, TypeOK
<1>. DEFINE Goal == \/ row'[s].bookedBy \in {None, row[s].bookedBy}
                    \/ \E m \in MarkTasks : /\ mark[m].pc = "loaded" /\ mark[m].seat = s
                                            /\ row'[s].bookedBy = mark[m].user
<1>1. row[s] \in Row
  OBVIOUS
<1>2. ASSUME NEW m \in MarkTasks, MarkWrite(m) PROVE Goal
  <2>1. CASE mark[m].seat = s
    <3>1. row'[s] = OrmWrite(row[s], mark[m].dirty, Marked(row[s], mark[m].user))
      BY <1>2, <2>1 DEF MarkWrite
    <3>2. Marked(row[s], mark[m].user).bookedBy = mark[m].user
      BY <1>1 DEF Marked, Row
    <3>. QED  BY <1>2, <2>1, <3>1, <3>2 DEF OrmWrite, MarkWrite
  <2>2. CASE mark[m].seat # s
    BY <1>2, <2>2 DEF MarkWrite
  <2>. QED  BY <2>1, <2>2
<1>3. ASSUME NEW b \in BlockCalls, BlockWrite(b) PROVE Goal
  <2>1. CASE block[b].seat = s
    <3>1. row'[s] = OrmWrite(row[s], block[b].dirty, Blocked(row[s], block[b].blocked))
      BY <1>3, <2>1 DEF BlockWrite
    <3>2. Blocked(row[s], block[b].blocked).bookedBy = row[s].bookedBy
      BY <1>1 DEF Blocked, Row
    <3>. QED  BY <3>1, <3>2 DEF OrmWrite
  <2>2. CASE block[b].seat # s
    BY <1>3, <2>2 DEF BlockWrite
  <2>. QED  BY <2>1, <2>2
<1>4. ASSUME NEW k \in CancelCalls, CancelCommit(k) PROVE Goal
  <2>1. row'[s] = OrmWrite(row[s], cancel[k].dirty[s], FreeRow)
    BY <1>4 DEF CancelCommit
  <2>. QED  BY <2>1 DEF OrmWrite, FreeRow
<1>5. ASSUME NEW o \in Orders, Commits(o) PROVE Goal
  <2>1. row'[s] = Booked(row[s], o) \/ row'[s] = row[s]
    BY <1>5 DEF Commits, CommitOrder
  <2>2. Booked(row[s], o).bookedBy = row[s].bookedBy
    BY <1>1 DEF Booked, Row
  <2>. QED  BY <2>1, <2>2
<1>6. CASE CleanupCommit
  BY <1>6 DEF CleanupCommit, FreeRow
<1>. QED  BY <1>2, <1>3, <1>4, <1>5, <1>6, RowsChange DEF RowStep

LEMMA NamesStep ==
  ASSUME HistoryInv, HistoryNext, TypeOK'
  PROVE  HistoryTypeOK' /\ NamesAreLockers'
<1>. USE DEF HistoryInv
<1>1. /\ HistoryTypeOK'
      /\ \A u \in Users : lockedBy[u] \subseteq lockedBy'[u]
      /\ \A u \in Users, s \in Seats : lock'[s].owner = u => s \in lockedBy'[u]
  BY MemoryGrows DEF HistoryNext, TypeOK
<1>2. [Next]_vars
  BY DEF HistoryNext
<1>3. ASSUME NEW u \in Users, NEW m \in MarkTasks, mark'[m].pc # "idle", mark'[m].user = u
      PROVE  mark'[m].seat \in lockedBy'[u]
  <2>1. ASSUME NEW v \in Users, NEW s \in Seats, LockSeat(m, v, s)
        PROVE  mark'[m].seat \in lockedBy'[u]
    BY <1>1, <1>3, <2>1 DEF LockSeat, BookingInv, TypeOK
  <2>2. CASE mark[m].pc # "idle" /\ mark'[m].user = mark[m].user /\ mark'[m].seat = mark[m].seat
    BY <1>1, <1>3, <2>2 DEF NamesAreLockers
  <2>. QED  BY <1>2, <1>3, <2>1, <2>2, TasksKeepNames DEF BookingInv
<1>4. ASSUME NEW u \in Users, NEW s \in SessionSeats, row'[s].bookedBy = u
      PROVE  s \in lockedBy'[u]
  <2>1. row[s].bookedBy = u => s \in lockedBy[u]
    BY DEF NamesAreLockers
  <2>2. \A m \in MarkTasks : mark[m].pc = "loaded" /\ mark[m].user = u => mark[m].seat \in lockedBy[u]
    BY DEF NamesAreLockers
  <2>. QED  BY <1>1, <1>2, <1>4, <2>1, <2>2, NamesComeFromTasks
<1>. QED  BY <1>1, <1>3, <1>4 DEF NamesAreLockers

-----------------------------------------------------------------------------
(* The theorems *)

LEMMA HistoryInitInv == HistoryInit => HistoryInv
<1>. SUFFICES ASSUME HistoryInit PROVE HistoryInv
  OBVIOUS
<1>1. HistoryTypeOK
  BY DEF HistoryInit, HistoryTypeOK
<1>2. /\ \A s \in Seats : lock[s].owner = None
      /\ \A m \in MarkTasks : mark[m].pc = "idle"
      /\ \A s \in SessionSeats : row[s].bookedBy = None
  BY DEF HistoryInit, Init, NoLock, NoMark, FreeRow
<1>. QED  BY <1>1, <1>2, InitInv DEF HistoryInit, HistoryInv, NamesAreLockers

LEMMA HistoryNextInv == HistoryInv /\ [HistoryNext]_historyVars => HistoryInv'
<1>. SUFFICES ASSUME HistoryInv, [HistoryNext]_historyVars PROVE HistoryInv'
  OBVIOUS
<1>1. BookingInv'
  BY NextInv DEF HistoryInv, HistoryNext, historyVars
<1>2. CASE HistoryNext
  BY <1>1, <1>2, NamesStep DEF HistoryInv, BookingInv
<1>3. CASE UNCHANGED historyVars
  <2>1. UNCHANGED <<lock, mark, row, lockedBy>>
    BY <1>3 DEF historyVars, vars, dbVars
  <2>. QED  BY <1>1, <2>1 DEF HistoryInv, HistoryTypeOK, NamesAreLockers
<1>. QED  BY <1>2, <1>3

\* Who a key, a background task or a row names has locked the seat, at some time.
THEOREM HistoryInvariance == HistorySpec => []HistoryInv
BY HistoryInitInv, HistoryNextInv, PTL DEF HistorySpec

\* An order sells only seats whose keys its buyer has held: a seat is in a customer's order
\* by that customer's own lock_seat, whatever expired or was written late in between.
THEOREM OwnLocksAreSold == HistorySpec => SoldSeatsWereLocked
<1>. DEFINE Locked == \A o \in Orders : orders[o] = "none" /\ orders'[o] = "CONFIRMED" =>
                        items'[o] \subseteq lockedBy[call[o].user]
<1>1. HistoryInv /\ [HistoryNext]_historyVars => [Locked]_historyVars
  <2>. SUFFICES ASSUME HistoryInv, HistoryNext, NEW o \in Orders,
                       orders[o] = "none", orders'[o] = "CONFIRMED", NEW s \in items'[o]
                PROVE  s \in lockedBy[call[o].user]
    OBVIOUS
  <2>. USE DEF HistoryInv
  <2>1. ~NoSale
    BY DEF NoSale
  <2>2. PICK p \in Orders : Commits(p)
    BY <2>1, SaleOrNoSale DEF HistoryNext
  <2>3. p = o
    BY <2>2, SaleEffect DEF BookingInv, TypeOK
  <2>4. s \in call[o].seats /\ Bookable(o)
    BY <2>2, <2>3, SaleEffect DEF BookingInv, TypeOK
  <2>5. s \in SessionSeats /\ row[s].bookedBy = call[o].user
    BY <2>4 DEF Bookable, BookingInv, TypeOK
  <2>6. call[o].user \in Users
    BY <2>2, <2>3, SaleEffect DEF BookingInv, OrdersFollowCalls
  <2>. QED  BY <2>5, <2>6 DEF NamesAreLockers
<1>. QED  BY <1>1, HistoryInvariance, PTL DEF HistorySpec, SoldSeatsWereLocked

-----------------------------------------------------------------------------
(* What a customer sees *)

\* Seat maps made of honest rows are honest.
LEMMA ViewIsHonest ==
  ASSUME HistoryInv, NEW u \in Users
  PROVE  ViewOf(u) \in View(u)!Honest(lockedBy[u] \cap SessionSeats)
<1>1. ViewOf(u) \in [SessionSeats -> View(u)!SeatStatus]
  BY DEF ViewOf, Shown, View!SeatStatus
<1>2. ASSUME NEW s \in SessionSeats, ViewOf(u)[s] = "mine" PROVE s \in lockedBy[u]
  BY <1>2 DEF ViewOf, Shown, HistoryInv, NamesAreLockers
<1>. QED  BY <1>1, <1>2 DEF View!Honest

\* A granted lock is a Lock of the view of its owner and a stutter for all the others.
LEMMA LockIsALock ==
  ASSUME HistoryInv, HistoryNext, NEW u \in Users,
         NEW m \in MarkTasks, NEW v \in Users, NEW s \in Seats, LockSeat(m, v, s)
  PROVE  [View(u)!Next]_(View(u)!vars)
<1>1. ViewOf(u)' = ViewOf(u)
  BY DEF LockSeat, dbVars, ViewOf
<1>2. lockedBy'[u] = lockedBy[u] \cup (IF u = v THEN {s} ELSE {})
  <2>1. lockedBy'[u] = lockedBy[u] \cup {x \in Seats : lock'[x].owner = u}
    BY DEF HistoryNext, Remember, HistoryInv, HistoryTypeOK
  <2>2. \A x \in Seats : lock'[x].owner = IF x = s THEN v ELSE lock[x].owner
    BY DEF LockSeat, HistoryInv, BookingInv, TypeOK
  <2>3. \A x \in Seats : lock[x].owner = u => x \in lockedBy[u]
    BY DEF HistoryInv, NamesAreLockers
  <2>. QED  BY <2>1, <2>2, <2>3 DEF LockSeat
<1>3. CASE u = v /\ s \in SessionSeats
  BY <1>1, <1>2, <1>3 DEF View!Next, View!Lock
<1>4. CASE ~(u = v /\ s \in SessionSeats)
  BY <1>1, <1>2, <1>4 DEF View!vars
<1>. QED  BY <1>3, <1>4

\* Every other step is a Change, or nothing, to everyone.
LEMMA OthersAreChanges ==
  ASSUME HistoryInv, HistoryInv', HistoryNext, NEW u \in Users,
         \A m \in MarkTasks, v \in Users, s \in Seats : ~LockSeat(m, v, s)
  PROVE  View(u)!Change
<1>1. \A s \in Seats : lock'[s].owner \in {None, lock[s].owner}
  BY OwnersGo DEF HistoryInv, BookingInv, HistoryNext
<1>2. \A s \in Seats : lock[s].owner = u => s \in lockedBy[u]
  BY DEF HistoryInv, NamesAreLockers
<1>3. lockedBy'[u] = lockedBy[u] \cup {s \in Seats : lock'[s].owner = u}
  BY DEF HistoryNext, Remember, HistoryInv, HistoryTypeOK
<1>4. lockedBy'[u] = lockedBy[u]
  BY <1>1, <1>2, <1>3
<1>5. ViewOf(u)' \in [SessionSeats -> View(u)!SeatStatus]
  BY DEF ViewOf, Shown, View!SeatStatus
<1>6. ASSUME NEW s \in SessionSeats, ViewOf(u)'[s] = "mine" PROVE s \in lockedBy[u]
  <2>1. row'[s].bookedBy = u
    BY <1>6 DEF ViewOf, Shown
  <2>2. s \in lockedBy'[u]
    BY <2>1 DEF HistoryInv, NamesAreLockers
  <2>. QED  BY <1>4, <2>2
<1>7. ViewOf(u)' \in View(u)!Honest(lockedBy[u] \cap SessionSeats)
  BY <1>5, <1>6 DEF View!Honest
<1>. QED  BY <1>4, <1>7 DEF View!Change

LEMMA ViewInit == ASSUME HistoryInit, NEW u \in Users PROVE View(u)!Init
<1>1. ViewOf(u) \in View(u)!Honest(lockedBy[u] \cap SessionSeats)
  BY HistoryInitInv, ViewIsHonest
<1>. QED  BY <1>1 DEF View!Init

LEMMA ViewStep ==
  ASSUME HistoryInv, HistoryInv', [HistoryNext]_historyVars, NEW u \in Users
  PROVE  [View(u)!Next]_(View(u)!vars)
<1>1. CASE UNCHANGED historyVars
  BY <1>1 DEF historyVars, vars, dbVars, ViewOf, View!vars
<1>2. CASE HistoryNext
  BY <1>2, LockIsALock, OthersAreChanges DEF View!Next
<1>. QED  BY <1>1, <1>2

\* Every customer sees a SeatView: nobody's late task, sale, cancellation or block, and no
\* cleanup pass, makes a seat the customer's own unless the customer has locked it.
THEOREM HonestViews == HistorySpec => ViewsAreHonest
<1>1. HistoryInit => \A u \in Users : View(u)!Init
  BY ViewInit
<1>2. HistoryInv /\ HistoryInv' /\ [HistoryNext]_historyVars =>
        [\A u \in Users : [View(u)!Next]_(View(u)!vars)]_historyVars
  BY ViewStep
<1>. QED  BY <1>1, <1>2, HistoryInvariance, PTL DEF HistorySpec, ViewsAreHonest

\* The same for one customer: SeatHistory implements SeatView.
THEOREM ViewImplementation == ASSUME NEW u \in Users PROVE HistorySpec => View(u)!Spec
<1>1. HistoryInit => View(u)!Init
  BY ViewInit
<1>2. HistoryInv /\ HistoryInv' /\ [HistoryNext]_historyVars => [View(u)!Next]_(View(u)!vars)
  BY ViewStep
<1>. QED  BY <1>1, <1>2, HistoryInvariance, PTL DEF HistorySpec, View!Spec
=============================================================================
