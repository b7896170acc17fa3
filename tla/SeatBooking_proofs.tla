------------------------- MODULE SeatBooking_proofs -------------------------
(***************************************************************************)
(* Proofs about SeatBooking, for any number of users, seats, orders and    *)
(* calls: type correctness, the inductive invariant BookingInv and the safety     *)
(* properties that follow from it, and the refinement of SeatSale.         *)
(***************************************************************************)
EXTENDS SeatBooking, FiniteSetTheorems, TLAPS

USE SeatsAssumption, NoneAssumption, CleanupAssumption

-----------------------------------------------------------------------------
(* Lemmas about the operators *)

\* A column-wise UPDATE of a row with values of a row is a row (OrmWrite, database.py).
LEMMA OrmWriteType ==
  ASSUME NEW r \in Row, NEW new \in Row, NEW dirty
  PROVE  OrmWrite(r, dirty, new) \in Row
BY DEF OrmWrite, Row

\* The rows the handlers build are rows.
LEMMA TargetTypes ==
  /\ FreeRow \in Row
  /\ \A r \in Row, u \in Users \cup {None} : Marked(r, u) \in Row
  /\ \A r \in Row, on \in BOOLEAN : Blocked(r, on) \in Row
  /\ \A r \in Row, o \in Orders : Booked(r, o) \in Row
BY DEF Row, FreeRow, Marked, Blocked, Booked, SeatStatus

\* The dirty columns of an object are columns.
LEMMA DirtyType == \A r, new : Dirty(r, new) \subseteq Columns
BY DEF Dirty

\* Ending a transaction takes row locks away and gives none.
LEMMA RowLocksWithoutType ==
  ASSUME TypeOK, NEW t
  PROVE  RowLocksWithout(t) \in [SessionSeats -> Orders \cup {Cleanup, None}]
BY DEF TypeOK, RowLocksWithout

\* The capped counter respects the CHECK constraints of event_sessions.
LEMMA CappedType ==
  ASSUME TypeOK, NEW S \in SUBSET SessionSeats
  PROVE  Capped(available + Cardinality(S)) \in 0..Cardinality(SessionSeats)
<1>1. Cardinality(SessionSeats) \in Nat
  BY FS_CardinalityType
<1>2. Cardinality(S) \in Nat
  BY FS_CardinalityType, FS_Subset
<1>. QED  BY <1>1, <1>2 DEF Capped, TypeOK

\* The records of tasks and calls at rest have their types.
LEMMA RestTypes ==
  /\ NoLock \in LockRecord /\ Asleep \in CleanerRecord
  /\ NoMark \in MarkRecord /\ NoCall \in CallRecord
  /\ Answered \in CallRecord /\ Answered.pc = "done"
  /\ NoCancel \in CancelRecord /\ NoBlock \in BlockRecord
<1>1. NoMark \in MarkRecord
  BY DEF NoMark, MarkRecord
<1>2. NoCall \in CallRecord
  BY DEF NoCall, CallRecord
<1>3. Answered \in CallRecord /\ Answered.pc = "done"
  BY DEF Answered, NoCall, CallRecord
<1>4. NoCancel \in CancelRecord
  BY DEF NoCancel, CancelRecord
<1>5. NoBlock \in BlockRecord
  BY DEF NoBlock, BlockRecord
<1>6. NoLock \in LockRecord
  BY DEF NoLock, LockRecord
<1>7. Asleep \in CleanerRecord
  BY DEF Asleep, CleanerRecord
<1>. QED  BY <1>1, <1>2, <1>3, <1>4, <1>5, <1>6, <1>7

-----------------------------------------------------------------------------
(* Type correctness *)

LEMMA InitType == Init => TypeOK
<1>. SUFFICES ASSUME Init PROVE TypeOK
  OBVIOUS
<1>1. Cardinality(SessionSeats) \in Nat
  BY FS_CardinalityType
<1>. QED
  BY <1>1, TargetTypes, RestTypes DEF Init, TypeOK, OrderStatus

LEMMA RollBackType ==
  ASSUME TypeOK, NEW o \in Orders, RollBackOrder(o)
  PROVE  TypeOK'
BY RowLocksWithoutType, RestTypes DEF RollBackOrder, TypeOK, dbVars

\* Only a verified call commits, so items are seats of the session.
LEMMA NextType == TypeOK /\ RowLockDiscipline /\ [Next]_vars => TypeOK'
<1>. SUFFICES ASSUME TypeOK, RowLockDiscipline, [Next]_vars PROVE TypeOK'
  OBVIOUS
<1>. USE DEF dbVars
<1>1. ASSUME NEW m \in MarkTasks, NEW u \in Users, NEW s \in Seats, LockSeat(m, u, s)
      PROVE  TypeOK'
  <2>1. [pc |-> "queued", user |-> u, seat |-> s, dirty |-> {}] \in MarkRecord
    BY DEF MarkRecord
  <2>2. [owner |-> u, expiring |-> FALSE] \in LockRecord
    BY DEF LockRecord
  <2>. QED  BY <1>1, <2>1, <2>2 DEF LockSeat, TypeOK
<1>2. ASSUME NEW m \in MarkTasks, MarkRead(m) PROVE TypeOK'
  <2>1. mark[m] \in MarkRecord
    BY DEF TypeOK
  <2>2. \A d \in SUBSET Columns :
          [mark[m] EXCEPT !.pc = "loaded", !.dirty = d] \in MarkRecord
    BY <2>1 DEF MarkRecord
  <2>3. mark' \in [MarkTasks -> MarkRecord]
    <3>1. CASE mark[m].seat \in SessionSeats
      <4>. DEFINE d == Dirty(row[mark[m].seat], Marked(row[mark[m].seat], mark[m].user))
      <4>1. d \in SUBSET Columns
        BY DirtyType
      <4>2. mark' = [mark EXCEPT ![m] = [mark[m] EXCEPT !.pc = "loaded", !.dirty = d]]
        BY <1>2, <3>1 DEF MarkRead, TypeOK
      <4>. QED  BY <2>2, <4>1, <4>2 DEF TypeOK
    <3>2. CASE mark[m].seat \notin SessionSeats
      BY <1>2, <3>2, RestTypes DEF MarkRead, TypeOK
    <3>. QED  BY <3>1, <3>2
  <2>. QED  BY <1>2, <2>3 DEF MarkRead, TypeOK
<1>3. ASSUME NEW m \in MarkTasks, MarkWrite(m) PROVE TypeOK'
  <2>. DEFINE c == mark[m]
  <2>1. c \in MarkRecord
    BY DEF TypeOK
  <2>2. row' \in [SessionSeats -> Row]
    <3>1. CASE c.seat \in SessionSeats
      <4>1. row[c.seat] \in Row /\ Marked(row[c.seat], c.user) \in Row
        BY <2>1, <3>1, TargetTypes DEF TypeOK, MarkRecord
      <4>2. OrmWrite(row[c.seat], c.dirty, Marked(row[c.seat], c.user)) \in Row
        BY <4>1, OrmWriteType
      <4>. QED  BY <1>3, <4>2 DEF MarkWrite, TypeOK
    <3>2. CASE c.seat \notin SessionSeats
      BY <1>3, <3>2 DEF MarkWrite, TypeOK
    <3>. QED  BY <3>1, <3>2
  <2>3. mark' \in [MarkTasks -> MarkRecord]
    BY <1>3, RestTypes DEF MarkWrite, TypeOK
  <2>. QED  BY <1>3, <2>2, <2>3 DEF MarkWrite, TypeOK
<1>4. ASSUME NEW m \in MarkTasks, MarkFails(m) PROVE TypeOK'
  BY <1>4, RestTypes DEF MarkFails, TypeOK
<1>5. ASSUME NEW s \in Seats, LockNearsExpiry(s) \/ LockExpires(s) PROVE TypeOK'
  <2>1. lock[s] \in LockRecord
    BY DEF TypeOK
  <2>2. [lock[s] EXCEPT !.expiring = TRUE] \in LockRecord
    BY <2>1 DEF LockRecord
  <2>3. lock' \in [Seats -> LockRecord]
    BY <1>5, <2>2, RestTypes DEF LockNearsExpiry, LockExpires, TypeOK
  <2>. QED  BY <1>5, <2>3 DEF LockNearsExpiry, LockExpires, TypeOK
<1>6. ASSUME NEW o \in Orders, NEW u \in Users, NEW S \in SUBSET Seats, PlaceOrder(o, u, S)
      PROVE  TypeOK'
  <2>1. [pc |-> "check", user |-> u, seats |-> S, unchecked |-> S] \in CallRecord
    BY DEF CallRecord
  <2>. QED  BY <1>6, <2>1, RestTypes DEF PlaceOrder, TypeOK
<1>7. ASSUME NEW o \in Orders, NEW s \in Seats, CheckLock(o, s) PROVE TypeOK'
  <2>1. call[o] \in CallRecord
    BY DEF TypeOK
  <2>2. [call[o] EXCEPT !.unchecked = @ \ {s}] \in CallRecord
    BY <2>1 DEF CallRecord
  <2>3. call' \in [Orders -> CallRecord]
    BY <1>7, <2>2, RestTypes DEF CheckLock, TypeOK
  <2>. QED  BY <1>7, <2>3 DEF CheckLock, TypeOK
<1>8. ASSUME NEW o \in Orders, NEW p \in {"verify", "commit", "unlock"},
             call' = [call EXCEPT ![o].pc = p]
      PROVE  call' \in [Orders -> CallRecord]
  <2>1. call[o] \in CallRecord
    BY DEF TypeOK
  <2>2. [call[o] EXCEPT !.pc = p] \in CallRecord
    BY <2>1 DEF CallRecord
  <2>. QED  BY <1>8, <2>2 DEF TypeOK
<1>9. ASSUME NEW o \in Orders, LockRows(o) PROVE TypeOK'
  <2>1. CASE RollBackOrder(o)
    BY <2>1, RollBackType
  <2>2. CASE ~RollBackOrder(o)
    <3>1. call' \in [Orders -> CallRecord]
      BY <1>8, <1>9, <2>2 DEF LockRows
    <3>2. rowLock' \in [SessionSeats -> Orders \cup {Cleanup, None}]
      BY <1>9, <2>2 DEF LockRows, ForUpdate, TypeOK
    <3>. QED  BY <1>9, <2>2, <3>1, <3>2 DEF LockRows, TypeOK
  <2>. QED  BY <2>1, <2>2
<1>10. ASSUME NEW o \in Orders, VerifySeats(o) PROVE TypeOK'
  <2>1. CASE RollBackOrder(o)
    BY <2>1, RollBackType
  <2>2. CASE ~RollBackOrder(o)
    BY <1>8, <1>10, <2>2 DEF VerifySeats, TypeOK
  <2>. QED  BY <2>1, <2>2
<1>11. ASSUME NEW o \in Orders, CommitOrder(o) PROVE TypeOK'
  <2>1. CASE RollBackOrder(o)
    BY <2>1, RollBackType
  <2>2. CASE ~RollBackOrder(o)
    <3>0. call[o].seats \subseteq SessionSeats
      BY <1>11 DEF CommitOrder, RowLockDiscipline, Bookable
    <3>1. row' \in [SessionSeats -> Row]
      <4>1. \A s \in SessionSeats : row[s] \in Row /\ Booked(row[s], o) \in Row
        BY TargetTypes DEF TypeOK
      <4>. QED  BY <1>11, <2>2, <4>1 DEF CommitOrder
    <3>2. rowLock' \in [SessionSeats -> Orders \cup {Cleanup, None}]
      BY <1>11, <2>2, RowLocksWithoutType DEF CommitOrder
    <3>3. call' \in [Orders -> CallRecord]
      BY <1>8, <1>11, <2>2 DEF CommitOrder
    <3>4. items' \in [Orders -> SUBSET SessionSeats]
      BY <1>11, <2>2, <3>0 DEF CommitOrder, TypeOK
    <3>5. orders' \in [Orders -> OrderStatus]
      BY <1>11, <2>2 DEF CommitOrder, TypeOK, OrderStatus
    <3>. QED  BY <1>11, <2>2, <3>1, <3>2, <3>3, <3>4, <3>5 DEF CommitOrder, TypeOK
  <2>. QED  BY <2>1, <2>2
<1>12. ASSUME NEW o \in Orders, OrderFails(o) PROVE TypeOK'
  BY <1>12, RollBackType DEF OrderFails
<1>13. ASSUME NEW o \in Orders, DeleteLocks(o) PROVE TypeOK'
  BY <1>13, RestTypes DEF DeleteLocks, TypeOK
<1>14. ASSUME NEW k \in CancelCalls, NEW o \in Orders, CancelRead(k, o) PROVE TypeOK'
  <2>1. cancel[k] \in CancelRecord
    BY DEF TypeOK
  <2>2. [cancel[k] EXCEPT !.pc = "seats", !.order = o] \in CancelRecord
    BY <2>1 DEF CancelRecord
  <2>. QED  BY <1>14, <2>2 DEF CancelRead, TypeOK
<1>15. ASSUME NEW k \in CancelCalls, CancelReadSeats(k) PROVE TypeOK'
  <2>. DEFINE d == [s \in SessionSeats |->
                      IF s \in SeatsOf(cancel[k].order) THEN Dirty(row[s], FreeRow) ELSE {}]
  <2>1. cancel[k] \in CancelRecord
    BY DEF TypeOK
  <2>2. d \in [SessionSeats -> SUBSET Columns]
    BY DirtyType
  <2>3. [cancel[k] EXCEPT !.pc = "write", !.dirty = d] \in CancelRecord
    BY <2>1, <2>2 DEF CancelRecord
  <2>4. cancel' = [cancel EXCEPT ![k] = [cancel[k] EXCEPT !.pc = "write", !.dirty = d]]
    BY <1>15 DEF CancelReadSeats, TypeOK
  <2>5. cancel' \in [CancelCalls -> CancelRecord]
    BY <2>3, <2>4 DEF TypeOK
  <2>. QED  BY <1>15, <2>5 DEF CancelReadSeats, TypeOK
<1>16. ASSUME NEW k \in CancelCalls, CancelCommit(k) PROVE TypeOK'
  <2>1. row' \in [SessionSeats -> Row]
    BY <1>16, OrmWriteType, TargetTypes DEF CancelCommit, TypeOK
  <2>2. available' \in 0..Cardinality(SessionSeats)
    BY <1>16, CappedType DEF CancelCommit, CancelSeats
  <2>3. orders' \in [Orders -> OrderStatus]
    BY <1>16 DEF CancelCommit, TypeOK, OrderStatus
  <2>. QED  BY <1>16, <2>1, <2>2, <2>3, RestTypes DEF CancelCommit, TypeOK
<1>17. ASSUME NEW k \in CancelCalls, CancelFails(k) PROVE TypeOK'
  BY <1>17, RestTypes DEF CancelFails, TypeOK
<1>18. ASSUME NEW b \in BlockCalls, NEW s \in SessionSeats, NEW on \in BOOLEAN, BlockRead(b, s, on)
       PROVE  TypeOK'
  <2>1. \A d \in SUBSET Columns :
          [pc |-> "write", seat |-> s, blocked |-> on, dirty |-> d] \in BlockRecord
    BY DEF BlockRecord
  <2>. QED  BY <1>18, <2>1, DirtyType DEF BlockRead, TypeOK
<1>19. ASSUME NEW b \in BlockCalls, BlockWrite(b) PROVE TypeOK'
  <2>. DEFINE c == block[b]
  <2>1. c \in BlockRecord
    BY DEF TypeOK
  <2>2. row' \in [SessionSeats -> Row]
    <3>1. CASE c.seat \in SessionSeats
      <4>1. row[c.seat] \in Row /\ Blocked(row[c.seat], c.blocked) \in Row
        BY <2>1, <3>1, TargetTypes DEF TypeOK, BlockRecord
      <4>2. OrmWrite(row[c.seat], c.dirty, Blocked(row[c.seat], c.blocked)) \in Row
        BY <4>1, OrmWriteType
      <4>. QED  BY <1>19, <4>2 DEF BlockWrite, TypeOK
    <3>2. CASE c.seat \notin SessionSeats
      BY <1>19, <3>2 DEF BlockWrite, TypeOK
    <3>. QED  BY <3>1, <3>2
  <2>. QED  BY <1>19, <2>2, RestTypes DEF BlockWrite, TypeOK
<1>20. ASSUME CleanupScan PROVE TypeOK'
  BY <1>20 DEF CleanupScan, TypeOK, Asleep, CleanerRecord
<1>21. ASSUME NEW s \in Seats, CleanupTtl(s) PROVE TypeOK'
  BY <1>21 DEF CleanupTtl, TypeOK, CleanerRecord
<1>22. ASSUME NEW s \in Seats, CleanupRelease(s) PROVE TypeOK'
  <2>1. CASE s \in SessionSeats /\ Releasable(s)
    <3>1. [cleaner EXCEPT !.due = {}, !.released = @ \cup {s}] \in CleanerRecord
      BY <2>1 DEF TypeOK, CleanerRecord
    <3>2. rowLock' \in [SessionSeats -> Orders \cup {Cleanup, None}]
      BY <1>22, <2>1 DEF CleanupRelease, TypeOK
    <3>. QED  BY <1>22, <2>1, <3>1, <3>2 DEF CleanupRelease, TypeOK
  <2>2. CASE ~(s \in SessionSeats /\ Releasable(s))
    <3>1. [cleaner EXCEPT !.due = {}] \in CleanerRecord
      BY DEF TypeOK, CleanerRecord
    <3>. QED  BY <1>22, <2>2, <3>1 DEF CleanupRelease, TypeOK
  <2>. QED  BY <2>1, <2>2
<1>23. ASSUME CleanupCommit PROVE TypeOK'
  BY <1>23, RowLocksWithoutType, TargetTypes, RestTypes DEF CleanupCommit, TypeOK
<1>24. ASSUME CleanupFails PROVE TypeOK'
  BY <1>24, RowLocksWithoutType, RestTypes DEF CleanupFails, TypeOK
<1>25. ASSUME Restart PROVE TypeOK'
  BY <1>25, RestTypes DEF Restart, TypeOK
<1>26. CASE UNCHANGED vars
  BY <1>26 DEF vars, TypeOK
<1>. QED
  BY <1>1, <1>2, <1>3, <1>4, <1>5, <1>6, <1>7, <1>9, <1>10, <1>11, <1>12, <1>13, <1>14,
     <1>15, <1>16, <1>17, <1>18, <1>19, <1>20, <1>21, <1>22, <1>23, <1>24, <1>25, <1>26
  DEF Next, MarkStep, OrderStep, CancelStep, CleanupStep

-----------------------------------------------------------------------------
(* The steps, grouped by what they do to rows, transactions and orders *)

\* Locking a seat, a task's read or failure, an ageing lock, the admin's read.
QuietStep == UNCHANGED <<row, items, orders, rowLock, call, cancel, cleaner>>

\* An ORM write of one row by a background task or the admin.
RowStep == (\E m \in MarkTasks : MarkWrite(m)) \/ (\E b \in BlockCalls : BlockWrite(b))

\* A call of create_order outside of its transaction.
OutsideStep(o) == \/ \E u \in Users, S \in SUBSET Seats : PlaceOrder(o, u, S)
                  \/ \E s \in Seats : CheckLock(o, s)
                  \/ DeleteLocks(o)

\* The steps of create_order that do not roll back.
Grants(o) == LockRows(o) /\ ~RollBackOrder(o)
Verifies(o) == VerifySeats(o) /\ Bookable(o)
Commits(o) == CommitOrder(o) /\ ItemsInsertable(o)

LEMMA StepCases ==
  ASSUME Next
  PROVE  \/ QuietStep
         \/ RowStep
         \/ \E o \in Orders : \/ OutsideStep(o) \/ RollBackOrder(o)
                             \/ Grants(o) \/ Verifies(o) \/ Commits(o)
         \/ \E k \in CancelCalls : \/ \E o \in Orders : CancelRead(k, o)
                                  \/ CancelReadSeats(k) \/ CancelCommit(k) \/ CancelFails(k)
         \/ CleanupStep
         \/ Restart
<1>1. ASSUME NEW m \in MarkTasks, NEW u \in Users, NEW s \in Seats, LockSeat(m, u, s)
      PROVE  QuietStep
  BY <1>1 DEF LockSeat, QuietStep, dbVars
<1>2. ASSUME NEW m \in MarkTasks, MarkStep(m) PROVE QuietStep \/ RowStep
  BY <1>2 DEF MarkStep, MarkRead, MarkFails, QuietStep, RowStep, dbVars
<1>3. ASSUME NEW s \in Seats, LockNearsExpiry(s) \/ LockExpires(s) PROVE QuietStep
  BY <1>3 DEF LockNearsExpiry, LockExpires, QuietStep, dbVars
<1>4. ASSUME NEW o \in Orders, OrderStep(o)
      PROVE  OutsideStep(o) \/ RollBackOrder(o) \/ Grants(o) \/ Verifies(o) \/ Commits(o)
  BY <1>4 DEF OrderStep, OutsideStep, Grants, Verifies, Commits, VerifySeats, CommitOrder,
              OrderFails
<1>5. ASSUME NEW b \in BlockCalls, NEW s \in SessionSeats, NEW on \in BOOLEAN, BlockRead(b, s, on)
      PROVE  QuietStep
  BY <1>5 DEF BlockRead, QuietStep, dbVars
<1>. QED  BY <1>1, <1>2, <1>3, <1>4, <1>5 DEF Next, OutsideStep, RowStep, CancelStep

\* What a write other than a sale can do to a row: its order stays or goes, and it does
\* not become BOOKED.
RowsFade == \A s \in SessionSeats :
               /\ row'[s].order \in {None, row[s].order}
               /\ row'[s].status = "BOOKED" =>
                     row[s].status = "BOOKED" /\ row'[s].order = row[s].order

\* A write leaves the rows alone that somebody has locked.
LockedRowsKept == \A s \in SessionSeats : rowLock[s] # None => row'[s] = row[s]

\* An UPDATE without columns leaves the row as it is.
LEMMA NoColumns == \A r \in Row : \A new : OrmWrite(r, {}, new) = r
BY DEF OrmWrite, Row

\* The writes of the background task and of the admin: the order column is kept too.
LEMMA RowStepEffect ==
  ASSUME BookingInv, RowStep
  PROVE  /\ UNCHANGED <<items, orders, rowLock, call, cancel, cleaner>>
         /\ RowsFade /\ LockedRowsKept
         /\ \A s \in SessionSeats : row'[s].order = row[s].order
<1>. USE DEF BookingInv, TypeOK
<1>1. ASSUME NEW m \in MarkTasks, MarkWrite(m)
      PROVE  /\ UNCHANGED <<items, orders, rowLock, call, cancel, cleaner>>
             /\ RowsFade /\ LockedRowsKept
             /\ \A s \in SessionSeats : row'[s].order = row[s].order
  <2>. DEFINE c == mark[m]
              new == OrmWrite(row[c.seat], c.dirty, Marked(row[c.seat], c.user))
  <2>1. row' = [row EXCEPT ![c.seat] = new] /\ MayWrite(c.seat, c.dirty)
    BY <1>1 DEF MarkWrite
  <2>2. c.seat \in SessionSeats
    BY <1>1 DEF MarkWrite, TasksAreNamed
  <2>3. row[c.seat] \in Row
    BY <2>2
  <2>4. new.order = row[c.seat].order /\ new.status \in {row[c.seat].status, "RESERVED"}
    BY <2>3 DEF OrmWrite, Marked, Row
  <2>5. new = row[c.seat] \/ rowLock[c.seat] = None
    BY <2>1, <2>3, NoColumns DEF MayWrite
  <2>. HIDE DEF new
  <2>. QED  BY <1>1, <2>1, <2>2, <2>4, <2>5 DEF MarkWrite, RowsFade, LockedRowsKept
<1>2. ASSUME NEW b \in BlockCalls, BlockWrite(b)
      PROVE  /\ UNCHANGED <<items, orders, rowLock, call, cancel, cleaner>>
             /\ RowsFade /\ LockedRowsKept
             /\ \A s \in SessionSeats : row'[s].order = row[s].order
  <2>. DEFINE c == block[b]
              new == OrmWrite(row[c.seat], c.dirty, Blocked(row[c.seat], c.blocked))
  <2>1. row' = [row EXCEPT ![c.seat] = new] /\ MayWrite(c.seat, c.dirty)
    BY <1>2 DEF BlockWrite
  <2>2. c.seat \in SessionSeats
    BY <1>2 DEF BlockWrite, TasksAreNamed
  <2>3. row[c.seat] \in Row
    BY <2>2
  <2>4. /\ new.order = row[c.seat].order
        /\ new.status \in {row[c.seat].status, "BLOCKED", "AVAILABLE"}
    BY <2>3 DEF OrmWrite, Blocked, Row
  <2>5. new = row[c.seat] \/ rowLock[c.seat] = None
    BY <2>1, <2>3, NoColumns DEF MayWrite
  <2>. HIDE DEF new
  <2>. QED  BY <1>2, <2>1, <2>2, <2>4, <2>5 DEF BlockWrite, RowsFade, LockedRowsKept
<1>. QED  BY <1>1, <1>2 DEF RowStep

\* The commit of a cancellation frees the seats it has read and touches no other.
LEMMA CancelCommitEffect ==
  ASSUME BookingInv, NEW k \in CancelCalls, CancelCommit(k)
  PROVE  /\ RowsFade /\ LockedRowsKept
         /\ \A s \in SessionSeats :
               IF s \in CancelSeats(k)
               THEN row'[s].order = None /\ row'[s].status # "BOOKED"
               ELSE row'[s] = row[s]
<1>. USE DEF BookingInv
<1>. SUFFICES ASSUME NEW s \in SessionSeats
              PROVE  /\ rowLock[s] # None => row'[s] = row[s]
                     /\ IF s \in CancelSeats(k)
                        THEN row'[s].order = None /\ row'[s].status # "BOOKED"
                        ELSE row'[s] = row[s]
  BY DEF RowsFade, LockedRowsKept
<1>1. row[s] \in Row
  BY DEF TypeOK
<1>2. row'[s] = OrmWrite(row[s], cancel[k].dirty[s], FreeRow)
  BY DEF CancelCommit
<1>3. CASE s \in CancelSeats(k)
  <2>1. "order" \in cancel[k].dirty[s]
        /\ ("status" \in cancel[k].dirty[s] \/ row[s].status # "BOOKED")
    BY <1>3 DEF CancelCommit, CancelAccounts
  <2>2. row'[s].order = None /\ row'[s].status # "BOOKED"
    BY <1>2, <2>1 DEF OrmWrite, FreeRow
  <2>. QED  BY <1>3, <2>2 DEF CancelCommit, CancelSeats, MayWrite
<1>4. CASE s \notin CancelSeats(k)
  BY <1>1, <1>2, <1>4, NoColumns DEF CancelSeats
<1>. QED  BY <1>3, <1>4

-----------------------------------------------------------------------------
(* Row locks *)

\* A step that leaves locks and lock holders alone, and the rows that are locked.
LEMMA DisciplineFrame ==
  ASSUME BookingInv, UNCHANGED <<rowLock, call, cleaner>>, LockedRowsKept
  PROVE  RowLockDiscipline'
<1>. USE DEF BookingInv
<1>1. ASSUME NEW o \in Orders, call[o].pc = "commit" PROVE Bookable(o)'
  <2>1. /\ call[o].seats \subseteq SessionSeats
        /\ \A s \in call[o].seats : row[s].status = "RESERVED" /\ row[s].bookedBy = call[o].user
        /\ \A s \in call[o].seats : rowLock[s] = o
    BY <1>1 DEF RowLockDiscipline, Bookable, InTransaction
  <2>2. \A s \in call[o].seats : row'[s] = row[s]
    BY <2>1 DEF LockedRowsKept
  <2>. QED  BY <2>1, <2>2 DEF Bookable
<1>2. ASSUME NEW s \in cleaner.released PROVE row'[s].status = "RESERVED"
  <2>1. s \in SessionSeats
    BY DEF TypeOK, CleanerRecord
  <2>2. rowLock[s] = Cleanup /\ row[s].status = "RESERVED"
    BY <2>1 DEF RowLockDiscipline, Releasable
  <2>. QED  BY <2>1, <2>2 DEF LockedRowsKept
<1>. QED  BY <1>1, <1>2 DEF RowLockDiscipline, InTransaction, Releasable

\* Rows locked by one holder are not locked by another, so what each has verified
\* survives the steps of all the others.
LEMMA RowLocksStep == BookingInv /\ [Next]_vars => RowLockDiscipline'
<1>. SUFFICES ASSUME BookingInv, [Next]_vars PROVE RowLockDiscipline'
  OBVIOUS
<1>. USE DEF BookingInv
<1>1. CASE QuietStep \/ UNCHANGED vars
  BY <1>1, DisciplineFrame DEF QuietStep, vars, dbVars, LockedRowsKept
<1>2. CASE RowStep
  BY <1>2, RowStepEffect, DisciplineFrame
<1>3. ASSUME NEW o \in Orders, OutsideStep(o) PROVE RowLockDiscipline'
  <2>1. /\ row' = row /\ rowLock' = rowLock /\ cleaner' = cleaner
        /\ call[o].pc \in {"idle", "check", "unlock"}
        /\ \E c \in CallRecord : c.pc \in {"check", "done"} /\ call' = [call EXCEPT ![o] = c]
    <3>1. ASSUME NEW u \in Users, NEW S \in SUBSET Seats, PlaceOrder(o, u, S)
          PROVE  \E c \in CallRecord : c.pc \in {"check", "done"} /\ call' = [call EXCEPT ![o] = c]
      <4>1. [pc |-> "check", user |-> u, seats |-> S, unchecked |-> S] \in CallRecord
        BY DEF CallRecord
      <4>. QED  BY <3>1, <4>1, RestTypes DEF PlaceOrder
    <3>2. ASSUME NEW s \in Seats, CheckLock(o, s)
          PROVE  \E c \in CallRecord : c.pc \in {"check", "done"} /\ call' = [call EXCEPT ![o] = c]
      <4>1. call[o] \in CallRecord /\ call[o].pc = "check"
        BY <3>2 DEF CheckLock, TypeOK
      <4>2. /\ [call[o] EXCEPT !.unchecked = @ \ {s}] \in CallRecord
            /\ [call[o] EXCEPT !.unchecked = @ \ {s}].pc = "check"
        BY <4>1 DEF CallRecord
      <4>. QED  BY <3>2, <4>2, RestTypes DEF CheckLock
    <3>. QED
      BY <1>3, <3>1, <3>2, RestTypes
      DEF OutsideStep, PlaceOrder, CheckLock, DeleteLocks, dbVars
  <2>2. \A p \in Orders \ {o} : call'[p] = call[p]
    BY <2>1 DEF TypeOK
  <2>3. ~InTransaction(o) /\ call'[o].pc \in {"check", "done"}
    BY <2>1 DEF InTransaction, TypeOK
  <2>. QED  BY <2>1, <2>2, <2>3 DEF RowLockDiscipline, InTransaction, Bookable, Releasable
<1>4. ASSUME NEW o \in Orders, RollBackOrder(o) PROVE RowLockDiscipline'
  <2>1. /\ UNCHANGED <<row, cleaner>> /\ rowLock' = RowLocksWithout(o)
        /\ ~InTransaction(o)'
        /\ \A p \in Orders \ {o} : call'[p] = call[p]
    BY <1>4, RestTypes DEF RollBackOrder, InTransaction, TypeOK, dbVars
  <2>. QED  BY <2>1 DEF RowLockDiscipline, InTransaction, Bookable, Releasable, RowLocksWithout
<1>5. ASSUME NEW o \in Orders, Grants(o) PROVE RowLockDiscipline'
  <2>. DEFINE wanted == call[o].seats \cap SessionSeats
  <2>1. /\ row' = row /\ cleaner' = cleaner
        /\ rowLock' = [s \in SessionSeats |-> IF s \in wanted THEN o ELSE rowLock[s]]
        /\ \A s \in wanted : rowLock[s] = None
        /\ call[o].pc = "check"
        /\ call' = [call EXCEPT ![o].pc = "verify"]
    BY <1>5 DEF Grants, LockRows, ForUpdate, dbVars
  <2>2. /\ call'[o].pc = "verify" /\ call'[o].seats = call[o].seats
        /\ \A p \in Orders \ {o} : call'[p] = call[p]
    BY <2>1 DEF TypeOK, CallRecord
  <2>. QED  BY <2>1, <2>2 DEF RowLockDiscipline, InTransaction, Bookable, Releasable
<1>6. ASSUME NEW o \in Orders, Verifies(o) PROVE RowLockDiscipline'
  <2>1. /\ UNCHANGED <<row, rowLock, cleaner>> /\ Bookable(o)
        /\ InTransaction(o) /\ call' = [call EXCEPT ![o].pc = "commit"]
    BY <1>6 DEF Verifies, VerifySeats, InTransaction, TypeOK, dbVars
  <2>2. /\ call'[o].pc = "commit" /\ call'[o].seats = call[o].seats
        /\ call'[o].user = call[o].user
        /\ \A p \in Orders \ {o} : call'[p] = call[p]
    BY <2>1 DEF TypeOK, CallRecord
  <2>. QED  BY <2>1, <2>2 DEF RowLockDiscipline, InTransaction, Bookable, Releasable
<1>7. ASSUME NEW o \in Orders, Commits(o) PROVE RowLockDiscipline'
  <2>1. /\ cleaner' = cleaner /\ rowLock' = RowLocksWithout(o)
        /\ call[o].pc = "commit" /\ call' = [call EXCEPT ![o].pc = "unlock"]
        /\ \A s \in SessionSeats : s \notin call[o].seats => row'[s] = row[s]
    BY <1>7 DEF Commits, CommitOrder
  <2>2. /\ call'[o].pc = "unlock" /\ \A p \in Orders \ {o} : call'[p] = call[p]
    BY <2>1 DEF TypeOK, CallRecord
  <2>3. \A s \in SessionSeats : rowLock[s] = o <=> s \in call[o].seats
    BY <2>1 DEF RowLockDiscipline, InTransaction
  <2>4. \A s \in SessionSeats : rowLock[s] # o => row'[s] = row[s] /\ rowLock'[s] = rowLock[s]
    BY <2>1, <2>3 DEF RowLocksWithout
  <2>5. ASSUME NEW p \in Orders, call'[p].pc = "commit" PROVE Bookable(p)'
    <3>1. p # o /\ call'[p] = call[p] /\ Bookable(p) /\ InTransaction(p)
      BY <2>2, <2>5 DEF RowLockDiscipline, InTransaction
    <3>2. call[p].seats \subseteq SessionSeats /\ \A s \in call[p].seats : rowLock[s] = p
      BY <3>1 DEF RowLockDiscipline, Bookable
    <3>. QED  BY <2>4, <3>1, <3>2 DEF Bookable
  <2>6. ASSUME NEW s \in cleaner'.released PROVE Releasable(s)'
    BY <2>1, <2>4 DEF RowLockDiscipline, Releasable, TypeOK, CleanerRecord
  <2>7. \A s \in SessionSeats, p \in Orders :
           rowLock'[s] = p <=> InTransaction(p)' /\ s \in call'[p].seats
    BY <2>1, <2>2, <2>3 DEF RowLockDiscipline, InTransaction, RowLocksWithout
  <2>8. \A s \in SessionSeats : rowLock'[s] = Cleanup <=> s \in cleaner'.released
    BY <2>1 DEF RowLockDiscipline, RowLocksWithout
  <2>. QED  BY <2>1, <2>5, <2>6, <2>7, <2>8 DEF RowLockDiscipline
<1>8. ASSUME NEW k \in CancelCalls, CancelCommit(k) PROVE RowLockDiscipline'
  BY <1>8, CancelCommitEffect, DisciplineFrame DEF CancelCommit
<1>9. ASSUME NEW k \in CancelCalls,
             (\E o \in Orders : CancelRead(k, o)) \/ CancelReadSeats(k) \/ CancelFails(k)
      PROVE  RowLockDiscipline'
  BY <1>9, DisciplineFrame DEF CancelRead, CancelReadSeats, CancelFails, dbVars, LockedRowsKept
<1>10. CASE CleanupScan
  BY <1>10 DEF CleanupScan, Asleep, RowLockDiscipline, InTransaction, Bookable, Releasable,
               dbVars, TypeOK, CleanerRecord
<1>11. ASSUME NEW s \in Seats, CleanupTtl(s) PROVE RowLockDiscipline'
  <2>1. cleaner.running
    BY <1>11 DEF CleanupTtl, RowLockDiscipline, Asleep
  <2>2. cleaner \in CleanerRecord
    BY DEF TypeOK
  <2>3. /\ UNCHANGED <<row, rowLock, call>>
        /\ cleaner'.running = cleaner.running /\ cleaner'.released = cleaner.released
    BY <1>11, <2>2 DEF CleanupTtl, dbVars, CleanerRecord
  <2>. QED  BY <2>1, <2>3 DEF RowLockDiscipline, InTransaction, Bookable, Releasable
<1>12. ASSUME NEW s \in Seats, CleanupRelease(s) PROVE RowLockDiscipline'
  <2>1. UNCHANGED <<row, call>> /\ cleaner'.running = cleaner.running
    BY <1>12 DEF CleanupRelease, dbVars, TypeOK, CleanerRecord
  <2>2. CASE s \in SessionSeats /\ Releasable(s)
    <3>1. /\ rowLock[s] = None /\ rowLock' = [rowLock EXCEPT ![s] = Cleanup]
          /\ cleaner'.released = cleaner.released \cup {s}
      BY <1>12, <2>2 DEF CleanupRelease, TypeOK, CleanerRecord
    <3>2. \A x \in SessionSeats : rowLock'[x] = IF x = s THEN Cleanup ELSE rowLock[x]
      BY <3>1 DEF TypeOK
    <3>3. cleaner.running
      BY <1>12, <2>2 DEF CleanupRelease, RowLockDiscipline, Asleep
    <3>4. \A x \in cleaner'.released : Releasable(x)'
      BY <2>1, <2>2, <3>1 DEF RowLockDiscipline, Releasable
    <3>5. \A x \in SessionSeats, o \in Orders :
             rowLock'[x] = o <=> InTransaction(o)' /\ x \in call'[o].seats
      BY <2>1, <3>1, <3>2 DEF RowLockDiscipline, InTransaction
    <3>6. \A x \in SessionSeats : rowLock'[x] = Cleanup <=> x \in cleaner'.released
      BY <3>1, <3>2 DEF RowLockDiscipline
    <3>7. \A o \in Orders : call'[o].pc = "commit" => Bookable(o)'
      BY <2>1 DEF RowLockDiscipline, Bookable
    <3>. QED  BY <2>1, <3>3, <3>4, <3>5, <3>6, <3>7 DEF RowLockDiscipline
  <2>3. CASE ~(s \in SessionSeats /\ Releasable(s))
    <3>1. UNCHANGED rowLock /\ cleaner'.released = cleaner.released
      BY <1>12, <2>3 DEF CleanupRelease, TypeOK, CleanerRecord
    <3>2. cleaner.running
      BY <1>12 DEF CleanupRelease, RowLockDiscipline, Asleep
    <3>. QED  BY <2>1, <3>1, <3>2 DEF RowLockDiscipline, InTransaction, Bookable, Releasable
  <2>. QED  BY <2>2, <2>3
<1>13. CASE CleanupCommit
  <2>1. /\ UNCHANGED call /\ rowLock' = RowLocksWithout(Cleanup)
        /\ cleaner' = Asleep /\ cleaner'.released = {}
        /\ \A s \in SessionSeats : s \notin cleaner.released => row'[s] = row[s]
    BY <1>13 DEF CleanupCommit, Asleep
  <2>. QED  BY <2>1 DEF RowLockDiscipline, InTransaction, Bookable, RowLocksWithout
<1>14. CASE CleanupFails
  <2>1. /\ UNCHANGED <<row, call>> /\ rowLock' = RowLocksWithout(Cleanup)
        /\ cleaner' = Asleep /\ cleaner'.released = {}
    BY <1>14 DEF CleanupFails, Asleep, dbVars
  <2>. QED  BY <2>1 DEF RowLockDiscipline, InTransaction, Bookable, RowLocksWithout
<1>15. CASE Restart
  <2>1. /\ rowLock' = [s \in SessionSeats |-> None]
        /\ cleaner' = Asleep /\ cleaner'.released = {}
        /\ \A o \in Orders : ~InTransaction(o)'
    BY <1>15 DEF Restart, InTransaction, InFlight, Answered, NoCall, Asleep
  <2>. QED  BY <2>1 DEF RowLockDiscipline, InTransaction
<1>. QED
  BY StepCases, <1>1, <1>2, <1>3, <1>4, <1>5, <1>6, <1>7, <1>8, <1>9, <1>10, <1>11, <1>12,
     <1>13, <1>14, <1>15 DEF CleanupStep

-----------------------------------------------------------------------------
(* Orders, items and the rows that name them *)

\* Apart from a sale, no step adds items, an order goes no further than CANCELLED, and
\* rows fade.
NoSale == /\ UNCHANGED items
          /\ \A o \in Orders : \/ orders'[o] = orders[o]
                               \/ orders[o] # "none" /\ orders'[o] = "CANCELLED"
          /\ RowsFade

\* Only the commits of a sale and of a cancellation write orders.
LEMMA OrdersChange ==
  ASSUME [Next]_vars
  PROVE  \/ orders' = orders \/ (\E o \in Orders : Commits(o))
         \/ \E k \in CancelCalls : CancelCommit(k)
<1>1. ASSUME NEW o \in Orders, OutsideStep(o) \/ RollBackOrder(o) \/ Grants(o) \/ Verifies(o)
      PROVE  orders' = orders
  BY <1>1 DEF OutsideStep, PlaceOrder, CheckLock, DeleteLocks, RollBackOrder, Grants,
              LockRows, Verifies, VerifySeats, dbVars
<1>2. RowStep => orders' = orders
  BY DEF RowStep, MarkWrite, BlockWrite
<1>3. ASSUME NEW k \in CancelCalls,
             (\E o \in Orders : CancelRead(k, o)) \/ CancelReadSeats(k) \/ CancelFails(k)
      PROVE  orders' = orders
  BY <1>3 DEF CancelRead, CancelReadSeats, CancelFails, dbVars
<1>4. CleanupStep => orders' = orders
  BY DEF CleanupStep, CleanupScan, CleanupTtl, CleanupRelease, CleanupCommit, CleanupFails, dbVars
<1>. QED
  BY StepCases, <1>1, <1>2, <1>3, <1>4 DEF QuietStep, Restart, vars, dbVars

\* Four kinds of commits write rows.
LEMMA RowsChange ==
  ASSUME [Next]_vars
  PROVE  \/ row' = row \/ RowStep \/ CleanupCommit
         \/ (\E o \in Orders : Commits(o)) \/ (\E k \in CancelCalls : CancelCommit(k))
<1>1. ASSUME NEW o \in Orders, OutsideStep(o) \/ RollBackOrder(o) \/ Grants(o) \/ Verifies(o)
      PROVE  row' = row
  BY <1>1 DEF OutsideStep, PlaceOrder, CheckLock, DeleteLocks, RollBackOrder, Grants,
              LockRows, Verifies, VerifySeats, dbVars
<1>2. ASSUME NEW k \in CancelCalls,
             (\E o \in Orders : CancelRead(k, o)) \/ CancelReadSeats(k) \/ CancelFails(k)
      PROVE  row' = row
  BY <1>2 DEF CancelRead, CancelReadSeats, CancelFails, dbVars
<1>3. CASE CleanupScan \/ CleanupFails \/ \E s \in Seats : CleanupTtl(s) \/ CleanupRelease(s)
  BY <1>3 DEF CleanupScan, CleanupFails, CleanupTtl, CleanupRelease, dbVars
<1>. QED
  BY StepCases, <1>1, <1>2, <1>3 DEF QuietStep, Restart, CleanupStep, vars, dbVars

LEMMA SaleOrNoSale == BookingInv /\ [Next]_vars => NoSale \/ \E o \in Orders : Commits(o)
<1>. SUFFICES ASSUME BookingInv, [Next]_vars, \A o \in Orders : ~Commits(o) PROVE NoSale
  OBVIOUS
<1>1. ASSUME UNCHANGED <<row, items, orders>> PROVE NoSale
  BY <1>1 DEF NoSale, RowsFade
<1>2. CASE QuietStep \/ UNCHANGED vars
  BY <1>1, <1>2 DEF QuietStep, vars, dbVars
<1>3. CASE RowStep
  BY <1>3, RowStepEffect DEF NoSale
<1>4. ASSUME NEW o \in Orders, OutsideStep(o) \/ RollBackOrder(o) \/ Grants(o) \/ Verifies(o)
      PROVE  NoSale
  BY <1>1, <1>4 DEF OutsideStep, PlaceOrder, CheckLock, DeleteLocks, RollBackOrder, Grants,
                    LockRows, Verifies, VerifySeats, dbVars
<1>5. ASSUME NEW k \in CancelCalls, CancelCommit(k) PROVE NoSale
  <2>1. orders[cancel[k].order] # "none"
    BY <1>5 DEF CancelCommit, BookingInv, CancelAccounts
  <2>2. \A o \in Orders : orders'[o] = IF o = cancel[k].order THEN "CANCELLED" ELSE orders[o]
    BY <1>5 DEF CancelCommit, BookingInv, TypeOK
  <2>. QED  BY <1>5, <2>1, <2>2, CancelCommitEffect DEF CancelCommit, NoSale
<1>6. ASSUME NEW k \in CancelCalls,
             (\E o \in Orders : CancelRead(k, o)) \/ CancelReadSeats(k) \/ CancelFails(k)
      PROVE  NoSale
  BY <1>1, <1>6 DEF CancelRead, CancelReadSeats, CancelFails, dbVars
<1>7. CASE CleanupCommit
  BY <1>7 DEF CleanupCommit, NoSale, RowsFade, FreeRow
<1>8. CASE CleanupScan \/ CleanupFails \/ \E s \in Seats : CleanupTtl(s) \/ CleanupRelease(s)
  BY <1>1, <1>8 DEF CleanupScan, CleanupFails, CleanupTtl, CleanupRelease, dbVars
<1>9. CASE Restart
  BY <1>1, <1>9 DEF Restart, dbVars
<1>. QED
  BY StepCases, <1>2, <1>3, <1>4, <1>5, <1>6, <1>7, <1>8, <1>9 DEF CleanupStep

\* What a sale does, spelled out.
LEMMA SaleEffect ==
  ASSUME BookingInv, NEW o \in Orders, Commits(o)
  PROVE  /\ call[o].pc = "commit" /\ call'[o].pc = "unlock" /\ orders[o] = "none"
         /\ call[o].seats \subseteq SessionSeats /\ call[o].seats # {} /\ Bookable(o)
         /\ \A p \in Orders : items[p] \cap call[o].seats = {}
         /\ items' = [items EXCEPT ![o] = call[o].seats]
         /\ orders' = [orders EXCEPT ![o] = "CONFIRMED"]
         /\ \A s \in SessionSeats :
               IF s \in call[o].seats
               THEN row'[s].status = "BOOKED" /\ row'[s].order = o ELSE row'[s] = row[s]
         /\ \A p \in Orders \ {o} : call'[p] = call[p]
         /\ UNCHANGED cancel
<1>. USE DEF BookingInv
<1>1. call[o].pc = "commit" /\ ItemsInsertable(o)
  BY DEF Commits, CommitOrder
<1>2. Bookable(o) /\ call[o].seats \subseteq SessionSeats
  BY <1>1 DEF RowLockDiscipline, Bookable
<1>3. orders[o] = "none" /\ call[o].seats # {}
  BY <1>1 DEF OrdersFollowCalls
<1>4. \A s \in SessionSeats : row[s] \in Row
  BY DEF TypeOK
<1>5. \A r \in Row : Booked(r, o).status = "BOOKED" /\ Booked(r, o).order = o
  BY DEF Booked, Row
<1>6. \A s \in SessionSeats : row'[s] = IF s \in call[o].seats THEN Booked(row[s], o) ELSE row[s]
  BY <1>1 DEF Commits, CommitOrder
<1>7. /\ call'[o].pc = "unlock" /\ \A p \in Orders \ {o} : call'[p] = call[p]
  BY <1>1 DEF Commits, CommitOrder, TypeOK, CallRecord
<1>. QED  BY <1>1, <1>2, <1>3, <1>4, <1>5, <1>6, <1>7 DEF Commits, CommitOrder, ItemsInsertable

\* The unique constraint on order_items keeps the items of two orders apart.
LEMMA NoOversellStep == BookingInv /\ [Next]_vars => NoOversell'
<1>. SUFFICES ASSUME BookingInv, [Next]_vars PROVE NoOversell'
  OBVIOUS
<1>1. CASE NoSale
  BY <1>1 DEF NoSale, BookingInv, NoOversell
<1>2. ASSUME NEW o \in Orders, Commits(o) PROVE NoOversell'
  BY <1>2, SaleEffect DEF BookingInv, TypeOK, NoOversell
<1>. QED  BY <1>1, <1>2, SaleOrNoSale

\* A row names a CONFIRMED order with a ticket for it, through sales, cancellations and
\* stale writes.
LEMMA SeatsBelongStep == BookingInv /\ [Next]_vars => SeatsBelongToConfirmedOrders'
<1>. SUFFICES ASSUME BookingInv, [Next]_vars PROVE SeatsBelongToConfirmedOrders'
  OBVIOUS
<1>. USE DEF BookingInv
<1>1. ASSUME NEW o \in Orders, Commits(o) PROVE SeatsBelongToConfirmedOrders'
  <2>. SUFFICES ASSUME NEW s \in SessionSeats
                PROVE  /\ row'[s].status = "BOOKED" => row'[s].order # None
                       /\ row'[s].order # None => /\ s \in items'[row'[s].order]
                                                  /\ orders'[row'[s].order] = "CONFIRMED"
    BY DEF SeatsBelongToConfirmedOrders
  <2>1. CASE s \in call[o].seats
    BY <1>1, <2>1, SaleEffect DEF TypeOK
  <2>2. CASE s \notin call[o].seats
    <3>1. row'[s] = row[s] /\ row[s].order \in Orders \cup {None}
      BY <1>1, <2>2, SaleEffect DEF TypeOK, Row
    <3>2. row[s].order # o
      BY <1>1, SaleEffect DEF SeatsBelongToConfirmedOrders
    <3>. QED  BY <1>1, <3>1, <3>2, SaleEffect DEF SeatsBelongToConfirmedOrders, TypeOK
  <2>. QED  BY <2>1, <2>2
<1>2. CASE NoSale
  <2>. SUFFICES ASSUME NEW s \in SessionSeats
                PROVE  /\ row'[s].status = "BOOKED" => row'[s].order # None
                       /\ row'[s].order # None => /\ s \in items'[row'[s].order]
                                                  /\ orders'[row'[s].order] = "CONFIRMED"
    BY DEF SeatsBelongToConfirmedOrders
  <2>0. row[s].order \in Orders \cup {None}
    BY DEF TypeOK, Row
  <2>1. ASSUME NEW k \in CancelCalls, CancelCommit(k)
        PROVE  /\ row'[s].status = "BOOKED" => row'[s].order # None
               /\ row'[s].order # None => orders'[row'[s].order] = orders[row'[s].order]
    <3>1. CASE s \in CancelSeats(k)
      BY <2>1, <3>1, CancelCommitEffect
    <3>2. CASE s \notin CancelSeats(k)
      <4>1. row'[s] = row[s]
        BY <2>1, <3>2, CancelCommitEffect
      <4>2. row[s].order # cancel[k].order
        BY <2>1, <3>2 DEF CancelCommit, CancelAccounts
      <4>. QED
        BY <2>0, <2>1, <4>1, <4>2 DEF CancelCommit, SeatsBelongToConfirmedOrders, TypeOK
    <3>. QED  BY <3>1, <3>2
  <2>2. ASSUME \A k \in CancelCalls : ~CancelCommit(k)
        PROVE  /\ row'[s].status = "BOOKED" => row'[s].order # None
               /\ row'[s].order # None => orders'[row'[s].order] = orders[row'[s].order]
    <3>1. CASE orders' = orders
      BY <1>2, <2>0, <3>1 DEF NoSale, RowsFade, SeatsBelongToConfirmedOrders
    <3>2. CASE \E o \in Orders : Commits(o)
      <4>1. PICK o \in Orders : Commits(o)
        BY <3>2
      <4>2. orders[o] = "none" /\ orders'[o] = "CONFIRMED"
        BY <4>1, SaleEffect DEF TypeOK
      <4>. QED  BY <1>2, <4>2 DEF NoSale
    <3>. QED  BY <2>2, <3>1, <3>2, OrdersChange
  <2>3. row'[s].order \in {None, row[s].order}
    BY <1>2 DEF NoSale, RowsFade
  <2>. QED
    BY <1>2, <2>0, <2>1, <2>2, <2>3 DEF NoSale, SeatsBelongToConfirmedOrders
<1>. QED  BY <1>1, <1>2, SaleOrNoSale

\* A call changes by its own steps or by a restart.
LEMMA CallChange ==
  ASSUME BookingInv, [Next]_vars, NEW o \in Orders
  PROVE  \/ call'[o] = call[o] \/ OutsideStep(o) \/ RollBackOrder(o)
         \/ Grants(o) \/ Verifies(o) \/ Commits(o) \/ Restart
<1>1. ASSUME NEW p \in Orders,
             OutsideStep(p) \/ RollBackOrder(p) \/ Grants(p) \/ Verifies(p) \/ Commits(p)
      PROVE  p # o => call'[o] = call[o]
  BY <1>1 DEF BookingInv, TypeOK, OutsideStep, PlaceOrder, CheckLock, DeleteLocks, RollBackOrder, Grants,
              LockRows, Verifies, VerifySeats, Commits, CommitOrder
<1>2. RowStep => call' = call
  BY DEF RowStep, MarkWrite, BlockWrite
<1>3. ASSUME NEW k \in CancelCalls,
             \/ \E p \in Orders : CancelRead(k, p)
             \/ CancelReadSeats(k) \/ CancelCommit(k) \/ CancelFails(k)
      PROVE  call' = call
  BY <1>3 DEF CancelRead, CancelReadSeats, CancelCommit, CancelFails
<1>4. CleanupStep => call' = call
  BY DEF CleanupStep, CleanupScan, CleanupTtl, CleanupRelease, CleanupCommit, CleanupFails
<1>. QED  BY StepCases, <1>1, <1>2, <1>3, <1>4 DEF QuietStep, vars

\* A call has no order before its commit, and its order keeps its items.
LEMMA OrdersFollowStep == BookingInv /\ [Next]_vars => OrdersFollowCalls'
<1>. SUFFICES ASSUME BookingInv, [Next]_vars, NEW o \in Orders
              PROVE  /\ call'[o].pc \in {"idle", "check", "verify", "commit"} =>
                            /\ orders'[o] = "none"
                            /\ call'[o].pc # "idle" => call'[o].user \in Users /\ call'[o].seats # {}
                     /\ orders'[o] = "none" => items'[o] = {}
  BY DEF OrdersFollowCalls
<1>. USE DEF BookingInv
<1>1. ASSUME NEW p \in Orders, Commits(p)
      PROVE  /\ call'[o].pc \in {"idle", "check", "verify", "commit"} =>
                    /\ orders'[o] = "none"
                    /\ call'[o].pc # "idle" => call'[o].user \in Users /\ call'[o].seats # {}
             /\ orders'[o] = "none" => items'[o] = {}
  BY <1>1, SaleEffect DEF OrdersFollowCalls, TypeOK
<1>2. CASE NoSale
  <2>1. orders'[o] = "none" => orders[o] = "none" /\ items'[o] = items[o]
    BY <1>2 DEF NoSale
  <2>2. orders[o] = "none" => orders'[o] = "none"
    BY <1>2 DEF NoSale
  <2>3. call'[o].pc \in {"idle", "check", "verify", "commit"} =>
           /\ call[o].pc \in {"idle", "check", "verify", "commit"}
           /\ call'[o].pc # "idle" => call'[o].user \in Users /\ call'[o].seats # {}
    <3>1. CASE call'[o] = call[o]
      BY <3>1 DEF OrdersFollowCalls
    <3>2. ASSUME NEW u \in Users, NEW S \in SUBSET Seats, PlaceOrder(o, u, S)
          PROVE  /\ call[o].pc = "idle"
                 /\ \/ call'[o].pc = "done"
                    \/ call'[o].user \in Users /\ call'[o].seats # {}
      BY <3>2, RestTypes DEF PlaceOrder, TypeOK
    <3>3. ASSUME NEW s \in Seats, CheckLock(o, s)
          PROVE  /\ call[o].pc = "check"
                 /\ \/ call'[o].pc = "done"
                    \/ call'[o].user = call[o].user /\ call'[o].seats = call[o].seats
      BY <3>3, RestTypes DEF CheckLock, TypeOK, CallRecord
    <3>4. ASSUME DeleteLocks(o) \/ RollBackOrder(o) PROVE call'[o].pc = "done"
      BY <3>4, RestTypes DEF DeleteLocks, RollBackOrder, TypeOK
    <3>5. ASSUME Grants(o) \/ Verifies(o)
          PROVE  /\ call[o].pc \in {"check", "verify"}
                 /\ call'[o].user = call[o].user /\ call'[o].seats = call[o].seats
      BY <3>5 DEF Grants, LockRows, Verifies, VerifySeats, TypeOK, CallRecord
    <3>6. CASE Restart
      BY <3>6, RestTypes DEF Restart, InFlight, OrdersFollowCalls
    <3>7. CASE Commits(o)
      BY <3>7, <1>1, SaleEffect
    <3>8. CASE OutsideStep(o)
      <4>1. CASE \E s \in Seats : CheckLock(o, s)
        BY <3>3, <4>1 DEF OrdersFollowCalls
      <4>. QED  BY <3>2, <3>4, <3>8, <4>1 DEF OutsideStep
    <3>9. CASE Grants(o) \/ Verifies(o)
      BY <3>5, <3>9 DEF OrdersFollowCalls
    <3>. QED
      BY <3>1, <3>4, <3>6, <3>7, <3>8, <3>9, CallChange
  <2>. QED  BY <2>1, <2>2, <2>3 DEF OrdersFollowCalls
<1>. QED  BY <1>1, <1>2, SaleOrNoSale

\* The record of a cancellation changes by its own steps or by a restart.
LEMMA CancelChange ==
  ASSUME BookingInv, [Next]_vars, NEW k \in CancelCalls
  PROVE  \/ cancel'[k] = cancel[k] \/ cancel'[k] = NoCancel
         \/ (\E o \in Orders : CancelRead(k, o)) \/ CancelReadSeats(k)
<1>1. ASSUME NEW o \in Orders,
             OutsideStep(o) \/ RollBackOrder(o) \/ Grants(o) \/ Verifies(o) \/ Commits(o)
      PROVE  cancel' = cancel
  BY <1>1 DEF OutsideStep, PlaceOrder, CheckLock, DeleteLocks, RollBackOrder, Grants,
              LockRows, Verifies, VerifySeats, Commits, CommitOrder
<1>2. RowStep => cancel' = cancel
  BY DEF RowStep, MarkWrite, BlockWrite
<1>3. CleanupStep => cancel' = cancel
  BY DEF CleanupStep, CleanupScan, CleanupTtl, CleanupRelease, CleanupCommit, CleanupFails
<1>4. ASSUME NEW j \in CancelCalls, CancelCommit(j) \/ CancelFails(j)
      PROVE  cancel'[k] = cancel[k] \/ cancel'[k] = NoCancel
  BY <1>4 DEF CancelCommit, CancelFails, BookingInv, TypeOK
<1>5. ASSUME NEW j \in CancelCalls \ {k}, (\E o \in Orders : CancelRead(j, o)) \/ CancelReadSeats(j)
      PROVE  cancel'[k] = cancel[k]
  BY <1>5 DEF CancelRead, CancelReadSeats, BookingInv, TypeOK
<1>6. Restart => cancel'[k] = NoCancel
  BY DEF Restart
<1>. QED  BY StepCases, <1>1, <1>2, <1>3, <1>4, <1>5, <1>6 DEF QuietStep, vars

\* What a cancellation has read stays all there is of its order, however late it writes:
\* rows only leave an order that is already in the database, and do not become BOOKED.
LEMMA CancelAccountsStep == BookingInv /\ [Next]_vars => CancelAccounts'
<1>. DEFINE Accounted(k) ==
       /\ cancel[k].order \in Orders
       /\ orders[cancel[k].order] # "none"
       /\ cancel[k].pc = "write" => \A s \in SessionSeats :
             /\ row[s].order = cancel[k].order => s \in CancelSeats(k)
             /\ s \in CancelSeats(k) =>
                   /\ "order" \in cancel[k].dirty[s]
                   /\ s \in items[cancel[k].order]
                   /\ "status" \in cancel[k].dirty[s] \/ row[s].status # "BOOKED"
<1>. SUFFICES ASSUME BookingInv, [Next]_vars, NEW k \in CancelCalls, cancel'[k].pc # "idle"
              PROVE  Accounted(k)'
  BY DEF CancelAccounts
<1>. USE DEF BookingInv
<1>1. CASE cancel'[k] = cancel[k]
  <2>. DEFINE b == cancel[k].order
  <2>1. Accounted(k) /\ b \in Orders /\ orders[b] # "none"
    BY <1>1 DEF CancelAccounts
  <2>2. CancelSeats(k)' = CancelSeats(k)
    BY <1>1 DEF CancelSeats
  <2>3. CASE NoSale
    <3>1. orders'[b] # "none" /\ items' = items
      BY <2>1, <2>3 DEF NoSale
    <3>2. \A s \in SessionSeats :
             /\ row'[s].order = b => row[s].order = b
             /\ row'[s].status = "BOOKED" => row[s].status = "BOOKED"
      BY <2>1, <2>3 DEF NoSale, RowsFade
    <3>. QED  BY <1>1, <2>1, <2>2, <3>1, <3>2
  <2>4. ASSUME NEW o \in Orders, Commits(o) PROVE Accounted(k)'
    <3>1. /\ orders[o] = "none" /\ o # b
          /\ items[b] \cap call[o].seats = {}
      BY <2>1, <2>4, SaleEffect
    <3>2. orders'[b] = orders[b] /\ items'[b] = items[b]
      BY <2>1, <2>4, <3>1, SaleEffect DEF TypeOK
    <3>3. \A s \in SessionSeats :
             \/ row'[s] = row[s]
             \/ row'[s].order = o /\ s \notin items[b]
      BY <2>4, <3>1, SaleEffect
    <3>. QED  BY <1>1, <2>1, <2>2, <3>1, <3>2, <3>3
  <2>. QED  BY <2>3, <2>4, SaleOrNoSale
<1>2. CASE cancel'[k] = NoCancel
  BY <1>2 DEF NoCancel
<1>3. ASSUME NEW o \in Orders, CancelRead(k, o) PROVE Accounted(k)'
  <2>1. cancel[k] \in CancelRecord
    BY DEF TypeOK
  <2>2. orders' = orders /\ orders[o] = "CONFIRMED"
        /\ cancel' = [cancel EXCEPT ![k] = [cancel[k] EXCEPT !.pc = "seats", !.order = o]]
    BY <1>3 DEF CancelRead, dbVars, TypeOK
  <2>3. cancel'[k].order = o /\ cancel'[k].pc = "seats"
    BY <2>1, <2>2 DEF TypeOK, CancelRecord
  <2>. QED  BY <2>2, <2>3
<1>4. CASE CancelReadSeats(k)
  <2>. DEFINE b == cancel[k].order
              d == [s \in SessionSeats |-> IF s \in SeatsOf(b) THEN Dirty(row[s], FreeRow) ELSE {}]
  <2>1. cancel[k] \in CancelRecord /\ cancel[k].pc = "seats"
    BY <1>4 DEF CancelReadSeats, TypeOK
  <2>2. b \in Orders /\ orders[b] # "none"
    BY <2>1 DEF CancelAccounts
  <2>3. UNCHANGED <<row, items, orders>>
    BY <1>4 DEF CancelReadSeats, dbVars
  <2>4. cancel'[k] = [cancel[k] EXCEPT !.pc = "write", !.dirty = d]
    BY <1>4 DEF CancelReadSeats, TypeOK
  <2>5. cancel'[k].order = b /\ cancel'[k].pc = "write" /\ cancel'[k].dirty = d
    BY <2>1, <2>4 DEF CancelRecord
  <2>6. ASSUME NEW s \in SessionSeats
        PROVE  /\ row[s].order = b <=> d[s] # {}
               /\ d[s] # {} => /\ "order" \in d[s] /\ s \in items[b]
                               /\ "status" \in d[s] \/ row[s].status # "BOOKED"
    <3>1. CASE row[s].order = b
      <4>1. d[s] = Dirty(row[s], FreeRow) /\ b # None
        BY <2>2, <3>1 DEF SeatsOf
      <4>2. "order" \in d[s]
        BY <3>1, <4>1 DEF Dirty, Columns, FreeRow
      <4>3. row[s].status = "BOOKED" => "status" \in d[s]
        BY <4>1 DEF Dirty, Columns, FreeRow
      <4>4. s \in items[b]
        BY <3>1, <4>1 DEF SeatsBelongToConfirmedOrders
      <4>. QED  BY <3>1, <4>2, <4>3, <4>4
    <3>2. CASE row[s].order # b
      BY <3>2 DEF SeatsOf
    <3>. QED  BY <3>1, <3>2
  <2>. HIDE DEF d
  <2>. QED  BY <2>2, <2>3, <2>5, <2>6 DEF CancelSeats
<1>. QED  BY <1>1, <1>2, <1>3, <1>4, CancelChange

-----------------------------------------------------------------------------
(* Tasks in flight *)

LEMMA TasksAreNamedStep == BookingInv /\ [Next]_vars => TasksAreNamed'
<1>. SUFFICES ASSUME BookingInv, [Next]_vars PROVE TasksAreNamed'
  OBVIOUS
<1>. USE DEF BookingInv
<1>1. ASSUME UNCHANGED <<mark, block>> PROVE TasksAreNamed'
  BY <1>1 DEF TasksAreNamed
<1>2. ASSUME NEW m \in MarkTasks, mark' = [mark EXCEPT ![m] = NoMark], UNCHANGED block
      PROVE  TasksAreNamed'
  BY <1>2 DEF TasksAreNamed, TypeOK, NoMark
<1>3. ASSUME NEW m \in MarkTasks, NEW u \in Users, NEW s \in Seats, LockSeat(m, u, s)
      PROVE  TasksAreNamed'
  BY <1>3 DEF LockSeat, TasksAreNamed, TypeOK
<1>4. ASSUME NEW m \in MarkTasks, MarkStep(m) PROVE TasksAreNamed'
  <2>1. CASE MarkRead(m) /\ mark[m].seat \in SessionSeats
    <3>1. mark[m] \in MarkRecord /\ mark[m].pc = "queued" /\ UNCHANGED block
      BY <2>1 DEF MarkRead, TypeOK
    <3>2. \A d : /\ [mark[m] EXCEPT !.pc = "loaded", !.dirty = d].user = mark[m].user
                 /\ [mark[m] EXCEPT !.pc = "loaded", !.dirty = d].seat = mark[m].seat
      BY <3>1 DEF MarkRecord
    <3>3. /\ mark'[m].user = mark[m].user /\ mark'[m].seat = mark[m].seat
          /\ \A n \in MarkTasks \ {m} : mark'[n] = mark[n]
      BY <2>1, <3>2 DEF MarkRead, TypeOK
    <3>. QED  BY <2>1, <3>1, <3>3 DEF TasksAreNamed
  <2>2. CASE MarkRead(m) /\ mark[m].seat \notin SessionSeats
    BY <1>2, <2>2 DEF MarkRead
  <2>3. CASE MarkWrite(m) \/ MarkFails(m)
    BY <1>2, <2>3 DEF MarkWrite, MarkFails
  <2>. QED  BY <1>4, <2>1, <2>2, <2>3 DEF MarkStep
<1>5. ASSUME NEW s \in Seats, LockNearsExpiry(s) \/ LockExpires(s) PROVE TasksAreNamed'
  BY <1>1, <1>5 DEF LockNearsExpiry, LockExpires
<1>6. ASSUME NEW o \in Orders, (\E u \in Users, S \in SUBSET Seats : PlaceOrder(o, u, S)) \/ OrderStep(o)
      PROVE  TasksAreNamed'
  BY <1>1, <1>6 DEF PlaceOrder, OrderStep, CheckLock, LockRows, VerifySeats, CommitOrder, OrderFails,
                    DeleteLocks, RollBackOrder
<1>7. ASSUME NEW k \in CancelCalls, (\E o \in Orders : CancelRead(k, o)) \/ CancelStep(k)
      PROVE  TasksAreNamed'
  BY <1>1, <1>7 DEF CancelRead, CancelStep, CancelReadSeats, CancelCommit, CancelFails
<1>8. ASSUME NEW b \in BlockCalls, NEW s \in SessionSeats, NEW on \in BOOLEAN, BlockRead(b, s, on)
      PROVE  TasksAreNamed'
  BY <1>8 DEF BlockRead, TasksAreNamed, TypeOK
<1>9. ASSUME NEW b \in BlockCalls, BlockWrite(b) PROVE TasksAreNamed'
  BY <1>9 DEF BlockWrite, TasksAreNamed, TypeOK, NoBlock
<1>10. CASE CleanupStep
  BY <1>1, <1>10 DEF CleanupStep, CleanupScan, CleanupTtl, CleanupRelease, CleanupCommit, CleanupFails
<1>11. CASE Restart
  BY <1>11 DEF Restart, TasksAreNamed, NoMark, NoBlock
<1>12. CASE UNCHANGED vars
  BY <1>1, <1>12 DEF vars
<1>. QED
  BY <1>3, <1>4, <1>5, <1>6, <1>7, <1>8, <1>9, <1>10, <1>11, <1>12 DEF Next

-----------------------------------------------------------------------------
(* The theorems *)

LEMMA InitInv == Init => BookingInv
<1>. SUFFICES ASSUME Init PROVE BookingInv
  OBVIOUS
<1>1. /\ \A s \in SessionSeats : row[s].status = "AVAILABLE" /\ row[s].order = None /\ rowLock[s] = None
      /\ \A o \in Orders : items[o] = {} /\ orders[o] = "none" /\ call[o].pc = "idle"
      /\ \A m \in MarkTasks : mark[m].pc = "idle"
      /\ \A k \in CancelCalls : cancel[k].pc = "idle"
      /\ \A b \in BlockCalls : block[b].pc = "idle"
      /\ cleaner = Asleep /\ cleaner.released = {}
  BY DEF Init, FreeRow, NoCall, NoMark, NoCancel, NoBlock, Asleep
<1>2. NoOversell /\ SeatsBelongToConfirmedOrders
  BY <1>1 DEF NoOversell, SeatsBelongToConfirmedOrders
<1>3. RowLockDiscipline
  BY <1>1 DEF RowLockDiscipline, InTransaction
<1>4. OrdersFollowCalls /\ CancelAccounts /\ TasksAreNamed
  BY <1>1 DEF OrdersFollowCalls, CancelAccounts, TasksAreNamed
<1>. QED  BY <1>2, <1>3, <1>4, InitType DEF BookingInv

\* Every step keeps the invariant.
LEMMA NextInv == BookingInv /\ [Next]_vars => BookingInv'
<1>. SUFFICES ASSUME BookingInv, [Next]_vars PROVE BookingInv'
  OBVIOUS
<1>1. TypeOK'
  BY NextType DEF BookingInv
<1>. QED
  BY <1>1, NoOversellStep, SeatsBelongStep, RowLocksStep, OrdersFollowStep,
     CancelAccountsStep, TasksAreNamedStep DEF BookingInv

\* The inductive invariant: no interleaving of requests, background tasks, cleanup passes,
\* expiring locks and restarts breaks the bookkeeping of the booking path.
THEOREM Invariance == Spec => []BookingInv
BY InitInv, NextInv, PTL DEF Spec

\* Every variable keeps its type; available_seats respects the table's CHECK constraints.
THEOREM TypeCorrectness == Spec => []TypeOK
<1>1. BookingInv => TypeOK
  BY DEF BookingInv
<1>. QED  BY <1>1, Invariance, PTL

\* Zero overselling: two orders never share a seat, for any number of customers, seats
\* and orders.
THEOREM ZeroOverselling == Spec => []NoOversell
<1>1. BookingInv => NoOversell
  BY DEF BookingInv
<1>. QED  BY <1>1, Invariance, PTL

\* A row of session_seats names only a CONFIRMED order, which has the seat as an item,
\* and every BOOKED row names one.
THEOREM SeatsBelong == Spec => []SeatsBelongToConfirmedOrders
<1>1. BookingInv => SeatsBelongToConfirmedOrders
  BY DEF BookingInv
<1>. QED  BY <1>1, Invariance, PTL

\* create_order confirms only what its buyer has reserved: the verification is still true
\* at the commit.
THEOREM ConfirmedSeatsWereReserved == Spec => ConfirmsOwnReservation
<1>1. BookingInv /\ [Next]_vars =>
        [\A o \in Orders : orders[o] = "none" /\ orders'[o] = "CONFIRMED" =>
           \A s \in items'[o] : row[s].status = "RESERVED" /\ row[s].bookedBy = call[o].user]_vars
  <2>. SUFFICES ASSUME BookingInv, [Next]_vars, NEW o \in Orders,
                       orders[o] = "none", orders'[o] = "CONFIRMED",
                       NEW s \in items'[o]
                PROVE  row[s].status = "RESERVED" /\ row[s].bookedBy = call[o].user
    OBVIOUS
  <2>1. ~NoSale
    BY DEF NoSale
  <2>2. PICK p \in Orders : Commits(p)
    BY <2>1, SaleOrNoSale
  <2>3. p = o
    BY <2>2, SaleEffect DEF BookingInv, TypeOK
  <2>4. s \in call[o].seats /\ Bookable(o)
    BY <2>2, <2>3, SaleEffect DEF BookingInv, TypeOK
  <2>. QED  BY <2>4 DEF Bookable
<1>. QED  BY <1>1, Invariance, PTL DEF Spec, ConfirmsOwnReservation

\* seat_lock_cleanup "never reverts BOOKED seats": a row it releases stays locked, and
\* RESERVED, until the commit of the pass.
THEOREM CleanupSparesBooked == Spec => CleanupKeepsBooked
<1>1. BookingInv /\ [Next]_vars =>
        [CleanupCommit => \A s \in SessionSeats : row[s].status = "BOOKED" => row'[s] = row[s]]_vars
  <2>. SUFFICES ASSUME BookingInv, CleanupCommit, NEW s \in SessionSeats, row[s].status = "BOOKED"
                PROVE  row'[s] = row[s]
    OBVIOUS
  <2>1. s \notin cleaner.released
    BY DEF BookingInv, RowLockDiscipline, Releasable
  <2>. QED  BY <2>1 DEF CleanupCommit
<1>. QED  BY <1>1, Invariance, PTL DEF Spec, CleanupKeepsBooked

\* A row loses its order when that is CANCELLED, or to a cleanup pass that finds the row
\* RESERVED again; no sale, late background task, block or other cancellation takes it.
THEOREM TwoWaysOut == Spec => OrdersLeaveRowsTwoWays
<1>. DEFINE Leaves == \A s \in SessionSeats :
                        row[s].order # None /\ row'[s].order # row[s].order =>
                          /\ row'[s].order = None
                          /\ \/ orders'[row[s].order] = "CANCELLED"
                             \/ CleanupCommit /\ row[s].status = "RESERVED"
<1>1. BookingInv /\ [Next]_vars => [Leaves]_vars
  <2>. SUFFICES ASSUME BookingInv, [Next]_vars, NEW s \in SessionSeats,
                       row[s].order # None, row'[s].order # row[s].order
                PROVE  /\ row'[s].order = None
                       /\ \/ orders'[row[s].order] = "CANCELLED"
                          \/ CleanupCommit /\ row[s].status = "RESERVED"
    OBVIOUS
  <2>. DEFINE p == row[s].order
  <2>1. p \in Orders /\ s \in items[p]
    BY DEF BookingInv, TypeOK, Row, SeatsBelongToConfirmedOrders
  <2>2. ASSUME NEW o \in Orders, Commits(o) PROVE FALSE
    BY <2>1, <2>2, SaleEffect
  <2>3. ASSUME NEW k \in CancelCalls, CancelCommit(k)
        PROVE  row'[s].order = None /\ orders'[p] = "CANCELLED"
    <3>1. s \in CancelSeats(k) /\ row'[s].order = None
      BY <2>3, CancelCommitEffect
    <3>2. cancel[k].order \in Orders /\ s \in items[cancel[k].order]
      BY <2>3, <3>1 DEF CancelCommit, BookingInv, CancelAccounts
    <3>3. cancel[k].order = p
      BY <2>1, <3>2 DEF BookingInv, NoOversell
    <3>. QED  BY <2>1, <2>3, <3>1, <3>3 DEF CancelCommit, BookingInv, TypeOK
  <2>4. CASE CleanupCommit
    <3>1. s \in cleaner.released /\ row'[s] = FreeRow
      BY <2>4 DEF CleanupCommit
    <3>2. row[s].status = "RESERVED"
      BY <3>1 DEF BookingInv, RowLockDiscipline, Releasable
    <3>. QED  BY <2>4, <3>1, <3>2 DEF FreeRow
  <2>5. ~RowStep
    BY RowStepEffect
  <2>. QED  BY <2>2, <2>3, <2>4, <2>5, RowsChange
<1>. QED  BY <1>1, Invariance, PTL DEF Spec, OrdersLeaveRowsTwoWays

\* The booking path implements the ledger of sales SeatSale: all the seats of an order are
\* sold in one step, each once in its life, and a sale is at most cancelled.
THEOREM Implementation == Spec => SaleSpec
<1>1. Init => Sale!Init
  BY DEF Init, Sale!Init
<1>2. BookingInv /\ [Next]_vars => [Sale!Next]_Sale!vars
  <2>. SUFFICES ASSUME BookingInv, [Next]_vars PROVE [Sale!Next]_Sale!vars
    OBVIOUS
  <2>1. ASSUME NEW o \in Orders, Commits(o) PROVE Sale!Next
    <3>1. Sale!Sell(o, call[o].seats) /\ call[o].seats \in SUBSET SessionSeats
      BY <2>1, SaleEffect DEF Sale!Sell
    <3>. QED  BY <3>1 DEF Sale!Next
  <2>2. ASSUME NEW k \in CancelCalls, CancelCommit(k) PROVE [Sale!Next]_Sale!vars
    <3>. DEFINE b == cancel[k].order
    <3>1. /\ b \in Orders /\ orders[b] \in {"CONFIRMED", "CANCELLED"}
          /\ orders' = [orders EXCEPT ![b] = "CANCELLED"] /\ items' = items
      BY <2>2 DEF CancelCommit, BookingInv, CancelAccounts, TypeOK, OrderStatus
    <3>2. CASE orders[b] = "CONFIRMED"
      BY <3>1, <3>2 DEF Sale!Next, Sale!Cancel
    <3>3. CASE orders[b] = "CANCELLED"
      BY <3>1, <3>3 DEF Sale!vars, BookingInv, TypeOK
    <3>. QED  BY <3>1, <3>2, <3>3
  <2>3. CASE orders' = orders
    <3>1. ASSUME NEW o \in Orders, Commits(o) PROVE FALSE
      BY <2>3, <3>1, SaleEffect DEF BookingInv, TypeOK
    <3>2. NoSale
      BY <3>1, SaleOrNoSale
    <3>. QED  BY <2>3, <3>2 DEF NoSale, Sale!vars
  <2>. QED  BY <2>1, <2>2, <2>3, OrdersChange
<1>. QED  BY <1>1, <1>2, Invariance, PTL DEF Spec, SaleSpec, Sale!Spec
=============================================================================
