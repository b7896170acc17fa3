------------------------------- MODULE Catalog -------------------------------
(***************************************************************************)
(* The catalogue behind the booking path: events, their physical seats,    *)
(* their sessions, the session_seats that join the two, and the counters   *)
(* of a session.  Admins create events, add seats, edit and delete;        *)
(* customers' orders refer to a session and a cancellation writes one of   *)
(* its counters.  Every await of a handler is a point where other calls    *)
(* interleave; transactions run READ COMMITTED.  The CHECK constraints of  *)
(* event_sessions are not guards here: the invariants show that no call    *)
(* ever runs into them.                                                    *)
(***************************************************************************)
EXTENDS Accounts, Integers, FiniteSets

CONSTANTS Events,       \* identities of events
          Sessions,     \* identities of sessions
          Positions,    \* row (in upper case) and number of a physical seat
          GenCalls,     \* calls of POST /events/{id}/generate-seats at a time
          Edits,        \* calls of the admin's edit and delete endpoints at a time
          Orders,       \* orders; each is for one session
          Statuses,     \* values of SessionStatus, "draft" among them
          MaxTickets,   \* bound on the seats of an order
          Titles,       \* what an admin may put into the columns of an event
          Creation,     \* create_event as the maker of seats
          None          \* no event, no session, nobody

ASSUME CatalogAssumption ==
    /\ IsFiniteSet(Positions)
    /\ Creation \notin GenCalls
    /\ None \notin Events \cup Sessions \cup Registrations
    /\ MaxTickets \in Nat
    /\ "draft" \in Statuses /\ "first" \in Titles

VARIABLES event,         \* rows of events
          seats,         \* rows of seats, per event
          session,       \* rows of event_sessions
          sessionSeats,  \* rows of session_seats, per session
          gen,           \* each call of generate_seats
          edit,          \* each call of an edit endpoint
          order,         \* each order, with the cancellation that may be under way
          overlapped     \* history: events for which two calls of generate_seats overlapped

rows == <<event, seats, session, sessionSeats>>
catalogVars == <<rows, gen, edit, order, overlapped>>
vars == <<accountVars, catalogVars>>

-----------------------------------------------------------------------------
\* A row of seats: where it is, and the call that made the row.
SeatRow == [at : Positions, by : GenCalls \cup {Creation}]
NewSeats(P, maker) == {[at |-> p, by |-> maker] : p \in P}
TakenPositions(e) == {x.at : x \in seats[e]}

NoEvent == [state |-> "none", by |-> None, title |-> "first"]
NoSession == [state |-> "none", event |-> None, total |-> 0, available |-> 0,
              status |-> "draft"]
Gone == [NoSession EXCEPT !.state = "deleted"]
NoCounters == [total |-> 0, available |-> 0]
Counters(s) == [total |-> session[s].total, available |-> session[s].available]
NoGen == [pc |-> "idle", event |-> None, at |-> {},
          loaded |-> [s \in Sessions |-> NoCounters]]
NoEdit == [pc |-> "idle", event |-> None, session |-> None, status |-> "draft"]
NoOrder == [pc |-> "idle", session |-> None, seats |-> 0, loaded |-> NoCounters]

Live(e) == event[e].state = "live"
Exists(s) == session[s].state = "live"
SessionsOf(e) == {s \in Sessions : Exists(s) /\ session[s].event = e}

Init == /\ AccountsInit
        /\ event = [e \in Events |-> NoEvent]
        /\ seats = [e \in Events |-> {}]
        /\ session = [s \in Sessions |-> NoSession]
        /\ sessionSeats = [s \in Sessions |-> {}]
        /\ gen = [g \in GenCalls |-> NoGen]
        /\ edit = [d \in Edits |-> NoEdit]
        /\ order = [o \in Orders |-> NoOrder]
        /\ overlapped = {}

-----------------------------------------------------------------------------
(* POST /events/ *)

\* One transaction, in which everything is new: nobody waits for it or sees it before
\* its COMMIT.  The schemas want at least one seat and one session, a seat named twice
\* is a 400, and any exception rolls everything back.
CreateEvent(t, a, e, P, S) ==
    /\ IsAdmin(t, a)
    /\ event[e].state = "none"
    /\ P # {} /\ S # {}
    /\ \A s \in S : session[s].state = "none"
    /\ event' = [event EXCEPT ![e] = [state |-> "live", by |-> a.id, title |-> "first"]]
    /\ seats' = [seats EXCEPT ![e] = NewSeats(P, Creation)]
    /\ session' = [s \in Sessions |->
                     IF s \in S
                     THEN [state |-> "live", event |-> e, total |-> Cardinality(P),
                           available |-> Cardinality(P), status |-> "draft"]
                     ELSE session[s]]
    /\ sessionSeats' = [s \in Sessions |->
                          IF s \in S THEN NewSeats(P, Creation) ELSE sessionSeats[s]]
    /\ UNCHANGED <<accountVars, gen, edit, order, overlapped>>

-----------------------------------------------------------------------------
(* POST /events/{event_id}/generate-seats *)

\* The SELECT of the event; an unknown one is a 404.
GenEvent(g, t, a, e, P) ==
    /\ IsAdmin(t, a)
    /\ gen[g].pc = "idle"
    /\ Live(e)
    /\ P # {}
    /\ gen' = [gen EXCEPT ![g] = [NoGen EXCEPT !.pc = "seats", !.event = e, !.at = P]]
    /\ UNCHANGED <<accountVars, rows, edit, order, overlapped>>

\* The SELECT of the seats: one that exists already is a 409.  A payload that names a seat
\* twice is refused here as well, with a 400; it is among the failures.
GenSeats(g) ==
    LET c == gen[g]
    IN  /\ c.pc = "seats"
        /\ gen' = IF c.at \cap TakenPositions(c.event) # {}
                  THEN [gen EXCEPT ![g] = NoGen]
                  ELSE [gen EXCEPT ![g].pc = "sessions"]
        /\ UNCHANGED <<accountVars, rows, edit, order, overlapped>>

\* A call that has loaded the counters of the event and not written them yet.
HasCounters(g, e) == gen[g].event = e /\ gen[g].pc \in {"insert", "link"}

\* The SELECT of the sessions: their counters are loaded.
GenSessions(g) ==
    LET e == gen[g].event
    IN  /\ gen[g].pc = "sessions"
        /\ gen' = [gen EXCEPT
                     ![g] = [@ EXCEPT !.pc = "insert",
                                      !.loaded = [s \in Sessions |-> IF s \in SessionsOf(e)
                                                                     THEN Counters(s)
                                                                     ELSE NoCounters]]]
        /\ overlapped' = IF \E h \in GenCalls : HasCounters(h, e)
                         THEN overlapped \cup {e} ELSE overlapped
        /\ UNCHANGED <<accountVars, rows, edit, order>>

\* An uncommitted row of another call has one of the positions: the INSERT waits.
MustWait(g) ==
    \E h \in GenCalls : /\ gen[h].pc = "link"
                        /\ gen[h].event = gen[g].event
                        /\ gen[h].at \cap gen[g].at # {}

\* Mutant: there is no uq_seat_event_row_number.
AnySeats(g) == Live(gen[g].event)

\* The foreign key to events, and uq_seat_event_row_number.
SeatsInsertable(g) ==
    /\ Live(gen[g].event)
    /\ gen[g].at \cap TakenPositions(gen[g].event) = {}

\* The flush of the new seats; a violated constraint is an exception nobody handles.
GenInsert(g) ==
    /\ gen[g].pc = "insert"
    /\ ~MustWait(g)
    /\ gen' = IF SeatsInsertable(g)
              THEN [gen EXCEPT ![g].pc = "link"]
              ELSE [gen EXCEPT ![g] = NoGen]
    /\ UNCHANGED <<accountVars, rows, edit, order, overlapped>>

\* Mutant: only the sessions that are still drafts get the new seats.
DraftSessions(g) ==
    {s \in Sessions : gen[g].loaded[s] # NoCounters /\ session[s].status = "draft"}

\* The sessions that were found; no session has no seats.
LoadedSessions(g) == {s \in Sessions : gen[g].loaded[s] # NoCounters}

\* Mutant: the running count of created session_seats is added instead.
GrownByAll(g, s) ==
    LET n == Cardinality(gen[g].at) * Cardinality(LoadedSessions(g))
    IN  [total |-> gen[g].loaded[s].total + n, available |-> gen[g].loaded[s].available + n]

\* Mutant: only the available seats are counted up.
GrownHalf(g, s) ==
    [gen[g].loaded[s] EXCEPT !.available = @ + Cardinality(gen[g].at)]

\* len(new_seats) is added to both counters, as they were loaded.
Grown(g, s) ==
    LET n == Cardinality(gen[g].at)
    IN  [total |-> gen[g].loaded[s].total + n, available |-> gen[g].loaded[s].available + n]

\* The flush of the session_seats and of the sessions, and the COMMIT.  The mapped
\* session writes both counters, computed from what was loaded, and no other column.
GenLink(g) ==
    LET c == gen[g]
        new == NewSeats(c.at, g)
    IN  /\ c.pc = "link"
        /\ seats' = [seats EXCEPT ![c.event] = @ \cup new]
        /\ sessionSeats' = [s \in Sessions |->
                              IF s \in LoadedSessions(g)
                              THEN sessionSeats[s] \cup new ELSE sessionSeats[s]]
        /\ session' = [s \in Sessions |->
                         IF s \in LoadedSessions(g)
                         THEN [session[s] EXCEPT !.total = Grown(g, s).total,
                                                 !.available = Grown(g, s).available]
                         ELSE session[s]]
        /\ gen' = [gen EXCEPT ![g] = NoGen]
        /\ UNCHANGED <<accountVars, event, edit, order, overlapped>>

\* An exception, or the end of the process: ROLLBACK.
GenFails(g) ==
    /\ gen[g].pc # "idle"
    /\ gen' = [gen EXCEPT ![g] = NoGen]
    /\ UNCHANGED <<accountVars, rows, edit, order, overlapped>>

-----------------------------------------------------------------------------
(* PUT and DELETE /admin/events/{event_id}, PATCH .../sessions/{session_id}/status *)

\* The SELECT of the row to edit; an unknown one is a 404.
EditEvent(d, t, a, e) ==
    /\ IsAdmin(t, a)
    /\ edit[d].pc = "idle" /\ Live(e)
    /\ edit' = [edit EXCEPT ![d] = [NoEdit EXCEPT !.pc = "event", !.event = e]]
    /\ UNCHANGED <<accountVars, rows, gen, order, overlapped>>

EditSession(d, t, a, s) ==
    /\ IsAdmin(t, a)
    /\ edit[d].pc = "idle" /\ Exists(s)
    /\ edit' = [edit EXCEPT ![d] = [NoEdit EXCEPT !.pc = "session", !.session = s,
                                                  !.status = session[s].status]]
    /\ UNCHANGED <<accountVars, rows, gen, order, overlapped>>

\* update_event writes the columns of the event and commits; a row that is gone by then
\* is an exception of the flush.
UpdateEvent(d, x) ==
    LET e == edit[d].event
    IN  /\ edit[d].pc = "event"
        /\ event' = IF Live(e) THEN [event EXCEPT ![e].title = x] ELSE event
        /\ edit' = [edit EXCEPT ![d] = NoEdit]
        /\ UNCHANGED <<accountVars, seats, session, sessionSeats, gen, order, overlapped>>

\* update_session_status: the UPDATE names the status only, and there is none when the
\* status is the one that was loaded; a session that is gone by then is an exception.
UpdateStatus(d, x) ==
    LET s == edit[d].session
    IN  /\ edit[d].pc = "session"
        /\ session' = IF Exists(s) /\ x # edit[d].status
                      THEN [session EXCEPT ![s].status = x]
                      ELSE session
        /\ edit' = [edit EXCEPT ![d] = NoEdit]
        /\ UNCHANGED <<accountVars, event, seats, sessionSeats, gen, order, overlapped>>

\* Uncommitted rows that refer to the event or to one of its sessions keep them from
\* being deleted: the DELETE waits.
Referenced(e) ==
    \/ \E g \in GenCalls : gen[g].pc = "link" /\ gen[g].event = e
    \/ \E o \in Orders : order[o].pc = "open" /\ order[o].session \in SessionsOf(e)

\* orders.session_id and order_items.session_seat_id are RESTRICT: an event that was ever
\* sold, whatever has become of the order, cannot be deleted.
Deletable(e) == \A o \in Orders : order[o].session \notin SessionsOf(e)

\* Mutant: the orders of the event go with it, as a cascade over all associated data would.
DeleteEventCascading(d) ==
    LET e == edit[d].event
        gone == SessionsOf(e)
    IN  /\ edit[d].pc = "event"
        /\ ~Referenced(e)
        /\ IF Live(e)
           THEN /\ event' = [event EXCEPT ![e].state = "deleted"]
                /\ seats' = [seats EXCEPT ![e] = {}]
                /\ session' = [s \in Sessions |-> IF s \in gone THEN Gone ELSE session[s]]
                /\ sessionSeats' = [s \in Sessions |-> IF s \in gone THEN {} ELSE sessionSeats[s]]
                /\ order' = [o \in Orders |-> IF order[o].session \in gone THEN NoOrder ELSE order[o]]
           ELSE UNCHANGED <<rows, order>>
        /\ edit' = [edit EXCEPT ![d] = NoEdit]
        /\ UNCHANGED <<accountVars, gen, overlapped>>

\* delete_event: the relationships are not loaded, so that what goes with the event is up
\* to the foreign keys: CASCADE for seats, sessions and session_seats.
DeleteEvent(d) ==
    LET e == edit[d].event
        gone == SessionsOf(e)
    IN  /\ edit[d].pc = "event"
        /\ ~Referenced(e)
        /\ IF Live(e) /\ Deletable(e)
           THEN /\ event' = [event EXCEPT ![e].state = "deleted"]
                /\ seats' = [seats EXCEPT ![e] = {}]
                /\ session' = [s \in Sessions |-> IF s \in gone THEN Gone ELSE session[s]]
                /\ sessionSeats' = [s \in Sessions |-> IF s \in gone THEN {} ELSE sessionSeats[s]]
           ELSE UNCHANGED rows
        /\ edit' = [edit EXCEPT ![d] = NoEdit]
        /\ UNCHANGED <<accountVars, gen, order, overlapped>>

-----------------------------------------------------------------------------
(* What orders have to do with the catalogue; their seats are SeatBooking's *)

\* INSERT of an order of n seats; the foreign key wants the session to exist.
OpenOrder(o, s, n) ==
    /\ order[o].pc = "idle"
    /\ Exists(s)
    /\ n <= Cardinality(sessionSeats[s])
    /\ order' = [order EXCEPT ![o] = [NoOrder EXCEPT !.pc = "open", !.session = s, !.seats = n]]
    /\ UNCHANGED <<accountVars, rows, gen, edit, overlapped>>

\* COMMIT, or ROLLBACK.
CloseOrder(o) ==
    /\ order[o].pc = "open"
    /\ \/ order' = [order EXCEPT ![o].pc = "placed"]
       \/ order' = [order EXCEPT ![o] = NoOrder]
    /\ UNCHANGED <<accountVars, rows, gen, edit, overlapped>>

\* cancel_order loads the session of the seats it releases.
CancelLoad(o) ==
    /\ order[o].pc = "placed"
    /\ order' = [order EXCEPT ![o] = [@ EXCEPT !.pc = "cancelling",
                                               !.loaded = Counters(order[o].session)]]
    /\ UNCHANGED <<accountVars, rows, gen, edit, overlapped>>

\* Mutant: the released seats are added without a cap.
UncappedSum(loaded, n) == loaded.available + n

\* min(session.available_seats + count, session.total_seats)
Released(loaded, n) ==
    IF loaded.available + n < loaded.total THEN loaded.available + n ELSE loaded.total

\* The counter is written if it differs from what was loaded; COMMIT.
CancelStore(o) ==
    LET c == order[o]
        value == Released(c.loaded, c.seats)
    IN  /\ c.pc = "cancelling"
        /\ session' = IF value = c.loaded.available THEN session
                      ELSE [session EXCEPT ![c.session].available = value]
        /\ order' = [order EXCEPT ![o] = [@ EXCEPT !.pc = "cancelled", !.loaded = NoCounters]]
        /\ UNCHANGED <<accountVars, event, seats, sessionSeats, gen, edit, overlapped>>

\* An exception: ROLLBACK, 500; the order stays as it was.
CancelFails(o) ==
    /\ order[o].pc = "cancelling"
    /\ order' = [order EXCEPT ![o] = [@ EXCEPT !.pc = "placed", !.loaded = NoCounters]]
    /\ UNCHANGED <<accountVars, rows, gen, edit, overlapped>>

-----------------------------------------------------------------------------
GenStep(g) == GenSeats(g) \/ GenSessions(g) \/ GenInsert(g) \/ GenLink(g) \/ GenFails(g)

\* What an admin may ask for.
Requests(t, a) ==
    \/ \E e \in Events, P \in SUBSET Positions, S \in SUBSET Sessions : CreateEvent(t, a, e, P, S)
    \/ \E g \in GenCalls, e \in Events, P \in SUBSET Positions : GenEvent(g, t, a, e, P)
    \/ \E d \in Edits : \/ \E e \in Events : EditEvent(d, t, a, e)
                        \/ \E s \in Sessions : EditSession(d, t, a, s)

EditStep(d) == \/ \E x \in Titles : UpdateEvent(d, x)
               \/ \E x \in Statuses : UpdateStatus(d, x)
               \/ DeleteEvent(d)

OrderStep(o) == \/ \E s \in Sessions, n \in 1..MaxTickets : OpenOrder(o, s, n)
                \/ CloseOrder(o) \/ CancelLoad(o) \/ CancelStore(o) \/ CancelFails(o)

Next == \/ AccountsNext /\ UNCHANGED catalogVars
        \/ \E t \in tokens, a \in accounts : Requests(t, a)
        \/ \E g \in GenCalls : GenStep(g)
        \/ \E d \in Edits : EditStep(d)
        \/ \E o \in Orders : OrderStep(o)

Spec == Init /\ [][Next]_vars

-----------------------------------------------------------------------------
(* Correctness *)

EventRecord == [state : {"none", "live", "deleted"}, by : Registrations \cup {None}, title : Titles]
SessionRecord == [state : {"none", "live", "deleted"}, event : Events \cup {None},
                  total : Nat, available : Nat, status : Statuses]
CounterRecord == [total : Nat, available : Nat]
GenRecord == [pc : {"idle", "seats", "sessions", "insert", "link"}, event : Events \cup {None},
              at : SUBSET Positions, loaded : [Sessions -> CounterRecord]]
EditRecord == [pc : {"idle", "event", "session"}, event : Events \cup {None},
               session : Sessions \cup {None}, status : Statuses]
OrderRecord == [pc : {"idle", "open", "placed", "cancelling", "cancelled"},
                session : Sessions \cup {None}, seats : Nat, loaded : CounterRecord]

\* Every variable stays in its domain.
TypeOK ==
    /\ AccountsTypeOK
    /\ event \in [Events -> EventRecord]
    /\ seats \in [Events -> SUBSET SeatRow]
    /\ session \in [Sessions -> SessionRecord]
    /\ sessionSeats \in [Sessions -> SUBSET SeatRow]
    /\ gen \in [GenCalls -> GenRecord]
    /\ edit \in [Edits -> EditRecord]
    /\ order \in [Orders -> OrderRecord]
    /\ overlapped \in SUBSET Events

\* No call ever fails on a CHECK constraint of event_sessions, although the counters are
\* computed from what was read some awaits earlier: 0 <= available <= total and total > 0.
ChecksAreKept ==
    \A s \in Sessions : Exists(s) =>
        /\ session[s].total > 0
        /\ session[s].available \in 0..session[s].total

\* No chair is in the catalogue twice, although the check for it is made long before the
\* insert: two rows of one event are at different positions.
SeatsAreUnique == \A e \in Events : \A x, y \in seats[e] : x.at = y.at => x = y

\* A session has a row for each seat of its event and for no other, whoever added seats
\* or deleted events meanwhile: nothing is on sale in one session and missing in another.
SessionsHaveAllSeats ==
    \A s \in Sessions :
        Exists(s) => /\ session[s].event \in Events /\ Live(session[s].event)
                     /\ sessionSeats[s] = seats[session[s].event]

\* The session of an order exists.
OrdersKeepTheirSession ==
    \A o \in Orders : order[o].pc # "idle" => Exists(order[o].session)

\* What is sold stays, whatever admins add, edit or delete at the same time: a committed
\* order, cancelled or not, is never deleted and never moves to another session, and from
\* its INSERT on its session neither goes nor loses a seat.  The foreign keys do this,
\* although the documentation says of the deletion of an event that it takes all associated
\* data with it (README.md:365): the code refuses to delete an event that was ever sold.
SalesAreKept ==
    [][\A o \in Orders : order[o].pc # "idle" =>
          LET s == order[o].session
          IN  /\ order[o].pc # "open" =>
                    /\ order'[o].pc \in {"placed", "cancelling", "cancelled"}
                    /\ order'[o].session = s
              /\ session'[s].state = "live"
              /\ sessionSeats[s] \subseteq sessionSeats'[s]]_vars

\* total_seats never promises a seat that does not exist, whatever update was lost.
CapacityIsNotOverstated ==
    \A s \in Sessions : session[s].total <= Cardinality(sessionSeats[s])

\* total_seats is the number of seats unless two calls of generate_seats overlapped: the
\* edits of the status and the cancellations that write the same row do not spoil it.
CapacityIsExactWithoutOverlap ==
    \A s \in Sessions :
        Exists(s) /\ session[s].event \notin overlapped => session[s].total = Cardinality(sessionSeats[s])

\* What SeatBooking starts with and assumes: finitely many rows, each for a chair of its
\* own, and available_seats the number of them.  Sales never show in that counter.
BookingMayStart ==
    \A s \in Sessions :
        Exists(s) /\ session[s].event \notin overlapped =>
            /\ IsFiniteSet(sessionSeats[s])
            /\ \A x, y \in sessionSeats[s] : x.at = y.at => x = y
            /\ session[s].available = Cardinality(sessionSeats[s])

-----------------------------------------------------------------------------
(* What it implements *)

\* The sessions for which an order has ever been committed.
SoldSessions == {s \in Sessions :
                   \E o \in Orders : /\ order[o].pc \in {"placed", "cancelling", "cancelled"}
                                     /\ order[o].session = s}

Plan == INSTANCE SeatPlan WITH
            home <- [s \in Sessions |-> IF Exists(s) THEN session[s].event ELSE None],
            offers <- [s \in Sessions |-> {x.at : x \in sessionSeats[s]}],
            sold <- SoldSessions

\* The catalogue is a SeatPlan: as far as anybody sees, events appear, grow and go whole,
\* in all of their sessions at once, however the calls that do it overlap.
PlanSpec == Plan!Spec

-----------------------------------------------------------------------------
(* Why it holds: the inductive invariant *)

\* Every seat is at a position once, and rows exist only for what exists.
RowsAreFinite ==
    /\ \A e \in Events : IsFiniteSet(seats[e])
    /\ \A s \in Sessions : ~Exists(s) => sessionSeats[s] = {} /\ session[s].total = 0

\* create_order writes no counter, although the model of the session has it decremented
\* with every booking (event_session.py:8-10): available_seats never differs from
\* total_seats, so that a cancellation finds nothing to write.
CountersAgree ==
    /\ \A s \in Sessions : session[s].available = session[s].total
    /\ \A o \in Orders : order[o].loaded.available = order[o].loaded.total
    /\ \A g \in GenCalls, s \in Sessions :
          gen[g].loaded[s].available = gen[g].loaded[s].total

\* What call g of generate_seats has read of event e and is about to write.
Informed(g, e) ==
    /\ event[e].state # "none"
    /\ gen[g].pc \in {"insert", "link"} /\ Live(e) =>
          /\ LoadedSessions(g) = SessionsOf(e)
          /\ \A s \in SessionsOf(e) : gen[g].loaded[s].total <= Cardinality(seats[e])
    /\ gen[g].pc = "link" => Live(e) /\ gen[g].at \cap TakenPositions(e) = {}

\* Uncommitted seats of two calls are at different positions, and a call that is alone
\* with the counters of e has the current ones.
Apart(g, e) ==
    /\ \A h \in GenCalls :
          gen[g].pc = "link" /\ gen[h].pc = "link" /\ g # h /\ gen[h].event = e =>
              gen[g].at \cap gen[h].at = {}
    /\ gen[g].pc \in {"insert", "link"} /\ Live(e) /\ e \notin overlapped =>
          /\ \A h \in GenCalls : HasCounters(h, e) => h = g
          /\ \A s \in SessionsOf(e) : gen[g].loaded[s].total = session[s].total

GenDiscipline ==
    \A g \in GenCalls :
        gen[g].pc # "idle" => /\ gen[g].event \in Events /\ gen[g].at # {}
                              /\ \A e \in Events : gen[g].event = e => Informed(g, e) /\ Apart(g, e)

\* Calls in progress name a row that was there when they read it.
CallsAreNamed ==
    /\ \A d \in Edits : /\ edit[d].pc = "event" => edit[d].event \in Events
                        /\ edit[d].pc = "session" => edit[d].session \in Sessions
    /\ \A o \in Orders : order[o].pc # "idle" => order[o].session \in Sessions

CatalogInv == /\ TypeOK /\ TokensNameOneAccount /\ AccountsAreDistinct
              /\ ChecksAreKept /\ SeatsAreUnique /\ SessionsHaveAllSeats
              /\ OrdersKeepTheirSession
              /\ CapacityIsNotOverstated /\ CapacityIsExactWithoutOverlap
              /\ RowsAreFinite /\ CountersAgree /\ GenDiscipline /\ CallsAreNamed
=============================================================================
