------------------------------ MODULE EventPage ------------------------------
(***************************************************************************)
(* The booking page in the browser: the cart store, the seat map and the   *)
(* poller that keeps both up to date, against requests that are answered   *)
(* late, out of order or not at all.  Callbacks run to completion; between *)
(* two of them anything may arrive.  A handler that was created earlier    *)
(* acts on the session it was created with.                                *)
(*                                                                         *)
(* A request is served when it is sent and its answer is under way for as  *)
(* long as it likes.  Equal answers under way count as one.  The backend   *)
(* is each session's SeatView: it may do to seats whatever it likes, a     *)
(* sale, a block or a task of another user among it, except that only this *)
(* user's lock, given here or in another tab, makes a seat this user's.    *)
(* The WebSocket is left out: no endpoint serves it, and the page always   *)
(* polls.                                                                  *)
(***************************************************************************)
EXTENDS Integers, FiniteSets

CONSTANTS Sessions,   \* the sessions of the event
          First,      \* the first of them in the answer of GET /events/{event_id}
          Elsewhere,  \* a session of another event
          None,       \* no session
          Seats,      \* the physical seats of the event; all sessions share them
          MaxAnswers, \* bound on the seat maps under way
          MaxLocks,   \* bound on the lock calls under way
          MaxLoads,   \* bound on the calls of loadEvent under way
          MaxPayments \* bound on the payments under way

ASSUME PageAssumption ==
    /\ First \in Sessions
    /\ Elsewhere \notin Sessions /\ None \notin Sessions \cup {Elsewhere}
    /\ IsFiniteSet(Seats)
    /\ MaxAnswers \in Nat \ {0} /\ MaxLocks \in Nat \ {0}
    /\ MaxLoads \in Nat \ {0} /\ MaxPayments \in Nat \ {0}

VARIABLES status,     \* backend: each seat of each session, as this user sees it
          won,        \* history: the seats this user ever locked, with their sessions
          session,    \* sessionId of the cart store
          cart,       \* seatIds of the cart store
          found,      \* history: seats that are in the cart since localStorage held them
          offered,    \* the seats the page shows as available
          maps,       \* seat maps under way
          locking,    \* calls that lock a seat, until they are answered
          loads,      \* calls of loadEvent under way that began without a session
          paying,     \* payments that wait for their 1.5 s
          orders,     \* answers of POST /orders under way
          checkoutInProgress

backend == <<status, won>>
held == <<cart, found>>
vars == <<backend, session, held, offered, maps, locking, loads, paying, orders,
          checkoutInProgress>>

-----------------------------------------------------------------------------
\* "mine" is RESERVED by this user; "taken" is everything else that is not AVAILABLE,
\* this user's BOOKED seats among it.
SeatStatus == {"available", "mine", "taken"}
SeatMaps == [Seats -> SeatStatus]

\* The seat maps the backend may come to show for session s.
Shows(s) == {m \in SeatMaps : \A x \in Seats : m[x] = "mine" => <<s, x>> \in won}

\* A handler remembers the session and, as quiet, checkoutInProgress of the render it was
\* created in.
LockCall == [seat : Seats, session : Sessions, granted : BOOLEAN, quiet : BOOLEAN]

\* The cart and its session are kept in localStorage: what the page starts with may stem
\* from another event, from a session that has moved on, or from another account.
\* The user may have locked seats before.
Init == /\ won \in SUBSET (Sessions \X Seats)
        /\ status \in {f \in [Sessions -> SeatMaps] : \A s \in Sessions : f[s] \in Shows(s)}
        /\ session \in Sessions \cup {Elsewhere, None}
        /\ cart \in IF session = None THEN {{}} ELSE SUBSET Seats
        /\ found = cart
        /\ offered = {}
        /\ maps = {}
        /\ locking = {}
        /\ loads = IF session = None THEN 1 ELSE 0
        /\ paying = 0
        /\ orders = {}
        /\ checkoutInProgress = FALSE

-----------------------------------------------------------------------------
(* What the backend does meanwhile *)

\* Background tasks, early or late, sales, cancellations, blocks and the cleanup of
\* expired locks.
SeatsChange(s) ==
    /\ \E m \in Shows(s) : status' = [status EXCEPT ![s] = m]
    /\ UNCHANGED <<won, session, held, offered, maps, locking, loads, paying, orders,
                   checkoutInProgress>>

\* The user's lock in another tab.
LockedElsewhere(s, x) ==
    /\ won' = won \cup {<<s, x>>}
    /\ UNCHANGED <<status, session, held, offered, maps, locking, loads, paying, orders,
                   checkoutInProgress>>

-----------------------------------------------------------------------------
(* The seat map *)

\* GET /events/{event_id}/seats: the committed rows of the session.
SeatMap(s) == status[s]

\* fetchSeats, from the interval and from the effect that runs it when the session, the
\* user or checkoutInProgress has changed.  For a session of another event the answer is a 404.
Poll ==
    /\ session \in Sessions
    /\ ~checkoutInProgress
    /\ Cardinality(maps) < MaxAnswers
    /\ maps' = maps \cup {SeatMap(session)}
    /\ UNCHANGED <<backend, session, held, offered, locking, loads, paying, orders,
                   checkoutInProgress>>

\* Mutant: a seat stays in the cart until the user removes it.
ReconciledUnion(m) == cart \cup {x \in Seats : m[x] = "mine"}

\* Mutant: booked_by is not looked at.
ReconciledAnyone(m) == {x \in Seats : m[x] # "available"}

\* reconcile: status is reserved and booked_by is the current user.
Reconciled(m) == {x \in Seats : m[x] = "mine"}

\* The answer is applied to the cart the page has by now: nobody asks which session it
\* is for, or whether a later answer has come before it, or whether a checkout has begun.
MapArrives(m) ==
    /\ m \in maps
    /\ offered' = {x \in Seats : m[x] = "available"}
    /\ cart' = Reconciled(m)
    /\ found' = {}
    /\ maps' = maps \ {m}
    /\ UNCHANGED <<backend, session, locking, loads, paying, orders, checkoutInProgress>>

\* A poll of a render that did not know the user yet does not reconcile.  Which answers
\* are for such a render is left open; fetchUser ends that, or takes the user away from
\* the page.
MapShown(m) ==
    /\ m \in maps
    /\ offered' = {x \in Seats : m[x] = "available"}
    /\ maps' = maps \ {m}
    /\ UNCHANGED <<backend, session, held, locking, loads, paying, orders, checkoutInProgress>>

\* The request fails: an entry in the console.
MapLost(m) ==
    /\ m \in maps
    /\ maps' = maps \ {m}
    /\ UNCHANGED <<backend, session, held, offered, locking, loads, paying, orders,
                   checkoutInProgress>>

-----------------------------------------------------------------------------
(* Locking and removing a seat *)

\* A seat that is shown as available and is not in the cart is clickable, also while its
\* lock is under way.  The backend grants the lock or does not (a seat it shows as sold can
\* be locked, too); the answer of a lock that was granted may get lost.
LockSeat(x) ==
    /\ session \in Sessions
    /\ x \in offered \ cart
    /\ Cardinality(locking) < MaxLocks
    /\ \E granted, heard \in BOOLEAN :
          /\ heard => granted
          /\ locking' = locking \cup
                {[seat |-> x, session |-> session, granted |-> heard,
                  quiet |-> checkoutInProgress]}
          /\ won' = IF granted THEN won \cup {<<session, x>>} ELSE won
    /\ UNCHANGED <<status, session, held, offered, maps, loads, paying, orders, checkoutInProgress>>

\* Mutant: the seat is added whatever the answer is.
AddedAnyway(c) == cart \cup {c.seat}

\* addSeat, only when the lock was granted.
Added(c) == IF c.granted THEN cart \cup {c.seat} ELSE cart

\* handleLockSeat goes on with the session it was created with: the seat is added to the
\* cart of the session the page has by now, and the seat map of the old one is fetched.
LockAnswered(c) ==
    /\ c \in locking
    /\ c.quiet \/ Cardinality(maps) < MaxAnswers
    /\ cart' = Added(c)
    /\ maps' = IF c.quiet THEN maps
               ELSE maps \cup {SeatMap(c.session)}
    /\ locking' = locking \ {c}
    /\ UNCHANGED <<backend, session, found, offered, loads, paying, orders, checkoutInProgress>>

\* removeSeatWithUnlock: no endpoint unlocks a seat, so the 404 leaves the lock alone.
RemoveSeat(x) ==
    /\ x \in cart
    /\ cart' = cart \ {x}
    /\ found' = found \ {x}
    /\ UNCHANGED <<backend, session, offered, maps, locking, loads, paying, orders,
                   checkoutInProgress>>

-----------------------------------------------------------------------------
(* The session *)

\* setSession: another session starts with an empty cart.
SetSession(s) ==
    /\ session' = s
    /\ IF s # session THEN cart' = {} /\ found' = {} ELSE UNCHANGED held

\* handleSessionChange; the sessions are shown once the event is loaded.
ChooseSession(s) ==
    /\ session \notin {None, s}
    /\ SetSession(s)
    /\ offered' = {}
    /\ UNCHANGED <<backend, maps, locking, loads, paying, orders, checkoutInProgress>>

\* loadEvent again, when the queue lets the page in: the callback is the one of the render
\* that sent the poll of the queue, which knew no session either.
LoadAgain ==
    /\ session = None
    /\ loads < MaxLoads
    /\ loads' = loads + 1
    /\ UNCHANGED <<backend, session, held, offered, maps, locking, paying, orders,
                   checkoutInProgress>>

\* Its answer: the handler remembers that there was no session, although the user may
\* have chosen one since.  Or its failure.
EventLoaded ==
    /\ loads > 0
    /\ loads' = loads - 1
    /\ SetSession(First) \/ UNCHANGED <<session, held>>
    /\ UNCHANGED <<backend, offered, maps, locking, paying, orders, checkoutInProgress>>

-----------------------------------------------------------------------------
(* Checkout *)

\* The Pay button of the modal.  The button that opened the modal asked for a cart and for
\* no checkout in progress; by now the cart may have been emptied, and another payment,
\* behind which the modal was closed and opened again, may have got to its checkout.
\* When the modal was opened is left open.
Pay ==
    /\ paying + Cardinality(orders) < MaxPayments
    /\ paying' = paying + 1
    /\ UNCHANGED <<backend, session, held, offered, maps, locking, loads, orders,
                   checkoutInProgress>>

\* 1.5 s later: checkout() orders what is in the cart by then, and nothing if it is empty.
\* Whether it is sold is up to the backend, and so is the moment at which its seats change;
\* the answer of a sale may get lost.
Checkout ==
    /\ paying > 0
    /\ paying' = paying - 1
    /\ IF cart = {}
       THEN UNCHANGED <<orders, checkoutInProgress>>
       ELSE \E ok \in BOOLEAN : orders' = orders \cup {ok} /\ checkoutInProgress' = TRUE
    /\ UNCHANGED <<backend, session, held, offered, maps, locking, loads>>

\* Mutant: a failed checkout forgets to reset the flag.
StillInProgress(ok) == ~ok

\* Reset by both branches, also while another payment is on its way.
InProgress(ok) == FALSE

\* A sale empties the cart, of whatever was added meanwhile, too; an error keeps it.
OrderAnswered(ok) ==
    /\ ok \in orders
    /\ orders' = orders \ {ok}
    /\ IF ok THEN cart' = {} /\ found' = {} ELSE UNCHANGED held
    /\ checkoutInProgress' = InProgress(ok)
    /\ UNCHANGED <<backend, session, offered, maps, locking, loads, paying>>

-----------------------------------------------------------------------------
Backend(s) == SeatsChange(s) \/ \E x \in Seats : LockedElsewhere(s, x)

SeatStep(x) == LockSeat(x) \/ RemoveSeat(x)

Next == \/ \E s \in Sessions : Backend(s)
        \/ Poll
        \/ \E m \in maps : MapArrives(m) \/ MapShown(m) \/ MapLost(m)
        \/ \E x \in Seats : SeatStep(x)
        \/ \E c \in locking : LockAnswered(c)
        \/ \E s \in Sessions : ChooseSession(s)
        \/ LoadAgain \/ EventLoaded
        \/ Pay \/ Checkout
        \/ \E ok \in orders : OrderAnswered(ok)

\* The browser answers or fails every request, and runs its timers.  Polls go on: the
\* interval every 5 s, and the effect once more after every checkout, which is why a page
\* that is checking out again and again polls as well.  A network that answers a seat map
\* now and then answers it infinitely often, and the user is known by then.  Nothing is
\* asked of the lock calls.
Fairness == /\ SF_vars(Poll)
            /\ \A m \in SeatMaps : SF_vars(MapArrives(m))
            /\ WF_vars(Checkout)
            /\ \A ok \in BOOLEAN : WF_vars(OrderAnswered(ok))

Spec == Init /\ [][Next]_vars /\ Fairness

-----------------------------------------------------------------------------
(* Correctness *)

\* Every variable stays in its domain.
TypeOK ==
    /\ status \in [Sessions -> SeatMaps]
    /\ won \in SUBSET (Sessions \X Seats)
    /\ session \in Sessions \cup {Elsewhere, None}
    /\ cart \in SUBSET Seats
    /\ found \in SUBSET Seats
    /\ offered \in SUBSET Seats
    /\ maps \in SUBSET SeatMaps
    /\ locking \in SUBSET LockCall
    /\ loads \in 0..MaxLoads
    /\ paying \in 0..MaxPayments
    /\ orders \in SUBSET BOOLEAN
    /\ checkoutInProgress \in BOOLEAN

\* The seats this user has locked, in whatever session.
EverLocked == {x \in Seats : \E s \in Sessions : <<s, x>> \in won}

\* Whatever answers arrive in whatever order, for whatever session: a seat gets into the
\* cart only if this user has locked it, in some session of the event, and what an earlier
\* visit or another account left there does not come back once it is out.
CartHoldsOnlyWonSeats == cart \subseteq found \cup EverLocked

\* A seat that stays reserved for the user in the session the page shows is in the cart
\* again and again: a seat map read before the background task wrote, a removal, a sale
\* that emptied the cart or a late answer for another session hide it for a while only.
ReservedSeatsComeBack ==
    \A s \in Sessions, x \in Seats :
        <>[](session = s /\ status[s][x] = "mine") => []<>(x \in cart)

\* A seat that others have for good leaves the cart for good, although answers from before
\* are still under way, and although its lock can be had: the page offers it no longer.
LostSeatsGoAway ==
    \A s \in Sessions, x \in Seats :
        <>[](session = s /\ status[s][x] = "taken") => <>[](x \notin cart)

\* To the page the backend of session s is a SeatView, and any SeatView would do.
View(s) == INSTANCE SeatView WITH status <- status[s],
                                  locked <- {x \in Seats : <<s, x>> \in won}

-----------------------------------------------------------------------------
(* Why the cart holds only won seats: the inductive invariant *)

\* So does everything that may get into it.
OnlyWonSeatsAreMine ==
    /\ \A s \in Sessions : status[s] \in Shows(s)
    /\ \A m \in maps, x \in Seats : m[x] = "mine" => x \in EverLocked
    /\ \A c \in locking : c.granted => c.seat \in EverLocked

PageInv == TypeOK /\ CartHoldsOnlyWonSeats /\ OnlyWonSeatsAreMine
=============================================================================
