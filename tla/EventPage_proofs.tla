--------------------------- MODULE EventPage_proofs ---------------------------
(***************************************************************************)
(* Proofs about EventPage: the cart never holds a seat that this user has  *)
(* not locked, for any number of sessions, seats and answers under way.    *)
(***************************************************************************)
EXTENDS EventPage, TLAPS, FiniteSetTheorems

\* What was locked stays locked in the memory.
LEMMA EverLockedGrows == won \subseteq won' => EverLocked \subseteq EverLocked'
BY DEF EverLocked

\* What an answer with a seat map does to the cart stays within what it reports as the
\* user's.
LEMMA ReconciledIsMine ==
    ASSUME PageInv, NEW m \in maps
    PROVE  Reconciled(m) \in SUBSET Seats /\ Reconciled(m) \subseteq EverLocked
BY DEF Reconciled, PageInv, OnlyWonSeatsAreMine

\* A new seat map is a row of the backend.
LEMMA SeatMapIsMine ==
    ASSUME PageInv, NEW s \in Sessions
    PROVE  /\ SeatMap(s) \in SeatMaps
           /\ \A x \in Seats : SeatMap(s)[x] = "mine" => x \in EverLocked
BY DEF SeatMap, Shows, EverLocked, PageInv, OnlyWonSeatsAreMine

\* Where the backend does not move, what it shows stays allowed; a lock allows more.
LEMMA ShowsGrows ==
    ASSUME PageInv, UNCHANGED status, won \subseteq won'
    PROVE  \A s \in Sessions : status'[s] \in Shows(s)'
BY DEF Shows, PageInv, OnlyWonSeatsAreMine

\* A step of the page alone keeps the invariant if what gets into the cart, into an answer
\* or into a lock call stems from the backend.
LEMMA PageStep ==
    ASSUME PageInv, UNCHANGED backend, TypeOK',
           cart' \subseteq found' \cup EverLocked,
           \A m \in maps' : m \in maps \/ \E s \in Sessions : m = SeatMap(s),
           locking' \subseteq locking
    PROVE  PageInv'
<1>1. UNCHANGED <<status, won>>
    BY DEF backend
<1>2. EverLocked' = EverLocked /\ \A s : Shows(s)' = Shows(s)
    BY <1>1 DEF EverLocked, Shows
<1>3. CartHoldsOnlyWonSeats'
    BY <1>2 DEF CartHoldsOnlyWonSeats
<1>4. \A m \in maps', x \in Seats : m[x] = "mine" => x \in EverLocked
    BY SeatMapIsMine DEF PageInv, OnlyWonSeatsAreMine
<1>5. OnlyWonSeatsAreMine'
    BY <1>1, <1>2, <1>4 DEF PageInv, OnlyWonSeatsAreMine
<1> QED BY <1>3, <1>5 DEF PageInv

\* The page starts with the cart it finds and no answer under way.
LEMMA InitInv == Init => PageInv
<1> SUFFICES ASSUME Init PROVE PageInv
    OBVIOUS
<1> USE DEF Init
<1>1. cart \in SUBSET Seats /\ loads \in {0, 1}
    <2>1. CASE session = None
        BY <2>1
    <2>2. CASE session # None
        BY <2>2
    <2> QED BY <2>1, <2>2
<1>2. TypeOK
    <2>1. status \in [Sessions -> SeatMaps]
        OBVIOUS
    <2>2. /\ won \in SUBSET (Sessions \X Seats)
          /\ found \in SUBSET Seats
          /\ orders \in SUBSET BOOLEAN
          /\ maps \in SUBSET SeatMaps
        OBVIOUS
    <2>3. locking \in SUBSET LockCall
        OBVIOUS
    <2>4. loads \in 0..MaxLoads
        BY <1>1, PageAssumption
    <2>5. paying \in 0..MaxPayments
        BY PageAssumption
    <2> QED BY <1>1, <2>1, <2>2, <2>3, <2>4, <2>5 DEF TypeOK
<1>3. CartHoldsOnlyWonSeats
    BY DEF CartHoldsOnlyWonSeats
<1>4. OnlyWonSeatsAreMine
    BY DEF OnlyWonSeatsAreMine
<1> QED BY <1>2, <1>3, <1>4 DEF PageInv

\* Every step of the page and of the backend keeps the invariant.
LEMMA NextInv == PageInv /\ [Next]_vars => PageInv'
<1> SUFFICES ASSUME PageInv, [Next]_vars PROVE PageInv'
    OBVIOUS
<1> USE PageAssumption
<1>1. ASSUME NEW s \in Sessions, SeatsChange(s) PROVE PageInv'
    <2>1. PICK m \in Shows(s) : status' = [status EXCEPT ![s] = m]
        BY <1>1 DEF SeatsChange
    <2>2. /\ m \in SeatMaps
          /\ \A r : Shows(r)' = Shows(r)
          /\ EverLocked' = EverLocked
        BY <1>1 DEF SeatsChange, Shows, EverLocked
    <2>3. TypeOK'
        BY <1>1, <2>1, <2>2 DEF SeatsChange, held, PageInv, TypeOK
    <2>4. CartHoldsOnlyWonSeats'
        BY <1>1, <2>2 DEF SeatsChange, held, PageInv, CartHoldsOnlyWonSeats
    <2>5. \A r \in Sessions : status'[r] \in Shows(r)'
        BY <2>1, <2>2 DEF PageInv, TypeOK, OnlyWonSeatsAreMine
    <2>6. OnlyWonSeatsAreMine'
        BY <1>1, <2>2, <2>5 DEF SeatsChange, PageInv, OnlyWonSeatsAreMine
    <2> QED BY <2>3, <2>4, <2>6 DEF PageInv
<1>2. ASSUME NEW s \in Sessions, NEW x \in Seats, LockedElsewhere(s, x) PROVE PageInv'
    <2>1. won \subseteq won' /\ won' \in SUBSET (Sessions \X Seats) /\ UNCHANGED status
        BY <1>2 DEF LockedElsewhere, PageInv, TypeOK
    <2>2. TypeOK'
        BY <1>2, <2>1 DEF LockedElsewhere, held, PageInv, TypeOK
    <2>3. CartHoldsOnlyWonSeats'
        BY <1>2, <2>1, EverLockedGrows DEF LockedElsewhere, held, PageInv, CartHoldsOnlyWonSeats
    <2>4. OnlyWonSeatsAreMine'
        BY <1>2, <2>1, EverLockedGrows, ShowsGrows DEF LockedElsewhere, PageInv, OnlyWonSeatsAreMine
    <2> QED BY <2>2, <2>3, <2>4 DEF PageInv
<1>3. ASSUME Poll PROVE PageInv'
    <2>1. session \in Sessions /\ maps' = maps \cup {SeatMap(session)}
        BY <1>3 DEF Poll
    <2>2. UNCHANGED <<backend, session, cart, found, locking>>
        BY <1>3 DEF Poll, held
    <2>3. TypeOK'
        BY <1>3, <2>1, SeatMapIsMine DEF Poll, backend, held, PageInv, TypeOK
    <2> QED BY <2>1, <2>2, <2>3, PageStep DEF PageInv, CartHoldsOnlyWonSeats
<1>4. ASSUME NEW m \in maps, MapArrives(m) PROVE PageInv'
    <2>1. /\ cart' = Reconciled(m) /\ found' = {} /\ maps' \subseteq maps
          /\ UNCHANGED <<backend, locking>>
        BY <1>4 DEF MapArrives
    <2>2. TypeOK'
        BY <1>4, ReconciledIsMine DEF MapArrives, backend, PageInv, TypeOK
    <2> QED BY <2>1, <2>2, ReconciledIsMine, PageStep
<1>5. ASSUME NEW m \in maps, MapShown(m) \/ MapLost(m) PROVE PageInv'
    <2>1. maps' \subseteq maps /\ UNCHANGED <<backend, cart, found, locking>>
        BY <1>5 DEF MapShown, MapLost, held
    <2>2. TypeOK'
        BY <1>5 DEF MapShown, MapLost, backend, held, PageInv, TypeOK
    <2> QED BY <2>1, <2>2, PageStep DEF PageInv, CartHoldsOnlyWonSeats
<1>6. ASSUME NEW x \in Seats, LockSeat(x) PROVE PageInv'
    <2>1. PICK granted \in BOOLEAN, heard \in BOOLEAN :
             /\ heard => granted
             /\ locking' = locking \cup
                   {[seat |-> x, session |-> session, granted |-> heard,
                     quiet |-> checkoutInProgress]}
             /\ won' = IF granted THEN won \cup {<<session, x>>} ELSE won
        BY <1>6 DEF LockSeat
    <2>2. /\ session \in Sessions
          /\ UNCHANGED <<status, session, held, offered, maps, loads, paying, orders,
                         checkoutInProgress>>
        BY <1>6 DEF LockSeat
    <2>3. won' \in SUBSET (Sessions \X Seats) /\ won \subseteq won'
        BY <2>1, <2>2 DEF PageInv, TypeOK
    <2>4. locking' \in SUBSET LockCall
        BY <2>1, <2>2 DEF PageInv, TypeOK, LockCall
    <2>5. TypeOK'
        BY <2>2, <2>3, <2>4 DEF held, PageInv, TypeOK
    <2>6. CartHoldsOnlyWonSeats'
        BY <2>2, <2>3, EverLockedGrows DEF held, PageInv, CartHoldsOnlyWonSeats
    <2>7. ASSUME NEW c \in locking', c.granted PROVE c.seat \in EverLocked'
        <3>1. CASE c \in locking
            BY <3>1, <2>3, <2>7, EverLockedGrows DEF PageInv, OnlyWonSeatsAreMine
        <3>2. CASE c \notin locking
            <4>1. c = [seat |-> x, session |-> session, granted |-> heard,
                       quiet |-> checkoutInProgress]
                BY <3>2, <2>1, <2>7
            <4>2. c.seat = x
                BY <4>1
            <4>3. heard
                BY <4>1, <2>7
            <4>4. <<session, x>> \in won'
                BY <4>3, <2>1
            <4> QED BY <4>2, <4>4, <2>2 DEF EverLocked
        <3> QED BY <3>1, <3>2
    <2>8. OnlyWonSeatsAreMine'
        BY <2>2, <2>3, <2>7, EverLockedGrows, ShowsGrows DEF PageInv, OnlyWonSeatsAreMine
    <2> QED BY <2>5, <2>6, <2>8 DEF PageInv
<1>7. ASSUME NEW c \in locking, LockAnswered(c) PROVE PageInv'
    <2>1. c \in LockCall
        BY DEF PageInv, TypeOK
    <2>2. /\ cart' = Added(c)
          /\ maps' = maps \/ maps' = maps \cup {SeatMap(c.session)}
          /\ locking' = locking \ {c}
          /\ UNCHANGED <<backend, session, found, offered, loads, paying, orders,
                         checkoutInProgress>>
        BY <1>7 DEF LockAnswered
    <2>3. c.session \in Sessions /\ c.seat \in Seats
        BY <2>1 DEF LockCall
    <2>4. \A m \in maps' : m \in SeatMaps
        BY <2>2, <2>3, SeatMapIsMine DEF PageInv, TypeOK
    <2>5. Added(c) \in SUBSET Seats /\ Added(c) \subseteq found \cup EverLocked
        BY <2>3 DEF Added, PageInv, TypeOK, OnlyWonSeatsAreMine, CartHoldsOnlyWonSeats
    <2>6. TypeOK'
        BY <2>2, <2>4, <2>5 DEF backend, PageInv, TypeOK
    <2>7. locking' \subseteq locking
        BY <2>2
    <2>8. \A m \in maps' : m \in maps \/ \E s \in Sessions : m = SeatMap(s)
        BY <2>2, <2>3
    <2> QED BY <2>2, <2>5, <2>6, <2>7, <2>8, PageStep
<1>8. ASSUME NEW x \in Seats, RemoveSeat(x) PROVE PageInv'
    <2>1. /\ cart' = cart \ {x} /\ found' = found \ {x}
          /\ UNCHANGED <<backend, maps, locking>>
        BY <1>8 DEF RemoveSeat
    <2>2. TypeOK'
        BY <1>8 DEF RemoveSeat, backend, PageInv, TypeOK
    <2> QED BY <2>1, <2>2, PageStep DEF PageInv, CartHoldsOnlyWonSeats
<1>9. ASSUME NEW s \in Sessions, ChooseSession(s) PROVE PageInv'
    <2>1. (cart' = {} /\ found' = {}) \/ UNCHANGED <<cart, found>>
        BY <1>9 DEF ChooseSession, SetSession, held
    <2>2. UNCHANGED <<backend, maps, locking>>
        BY <1>9 DEF ChooseSession
    <2>3. TypeOK'
        BY <1>9, <2>1 DEF ChooseSession, SetSession, backend, PageInv, TypeOK
    <2> QED BY <2>1, <2>2, <2>3, PageStep DEF PageInv, CartHoldsOnlyWonSeats
<1>10. ASSUME LoadAgain PROVE PageInv'
    <2>1. UNCHANGED <<backend, cart, found, maps, locking>>
        BY <1>10 DEF LoadAgain, held
    <2>2. TypeOK'
        BY <1>10 DEF LoadAgain, backend, held, PageInv, TypeOK
    <2> QED BY <2>1, <2>2, PageStep DEF PageInv, CartHoldsOnlyWonSeats
<1>11. ASSUME EventLoaded PROVE PageInv'
    <2>1. (cart' = {} /\ found' = {}) \/ UNCHANGED <<cart, found>>
        BY <1>11 DEF EventLoaded, SetSession, held
    <2>2. UNCHANGED <<backend, maps, locking>>
        BY <1>11 DEF EventLoaded
    <2>3. TypeOK'
        BY <1>11, <2>1 DEF EventLoaded, SetSession, backend, PageInv, TypeOK
    <2> QED BY <2>1, <2>2, <2>3, PageStep DEF PageInv, CartHoldsOnlyWonSeats
<1>12. ASSUME Pay PROVE PageInv'
    <2>1. paying' \in 0..MaxPayments
        <3>1. Cardinality(orders) \in Nat
            <4>1. IsFiniteSet({TRUE, FALSE})
                <5>1. IsFiniteSet({} \cup {TRUE})
                    BY FS_EmptySet, FS_AddElement
                <5>2. IsFiniteSet(({} \cup {TRUE}) \cup {FALSE})
                    BY <5>1, FS_AddElement
                <5>3. {TRUE, FALSE} = ({} \cup {TRUE}) \cup {FALSE}
                    BY Zenon
                <5> QED BY <5>2, <5>3
            <4>2. orders \subseteq {TRUE, FALSE}
                BY Zenon DEF PageInv, TypeOK
            <4>3. IsFiniteSet(orders)
                BY <4>1, <4>2, FS_Subset
            <4> QED BY <4>3, FS_CardinalityType
        <3> QED BY <3>1, <1>12 DEF Pay, PageInv, TypeOK
    <2>2. UNCHANGED <<backend, cart, found, maps, locking>>
        BY <1>12 DEF Pay, held
    <2>3. TypeOK'
        BY <1>12, <2>1 DEF Pay, backend, held, PageInv, TypeOK
    <2> QED BY <2>2, <2>3, PageStep DEF PageInv, CartHoldsOnlyWonSeats
<1>13. ASSUME Checkout PROVE PageInv'
    <2>1. /\ paying' \in 0..MaxPayments
          /\ UNCHANGED <<backend, session, held, offered, maps, locking, loads>>
        BY <1>13 DEF Checkout, PageInv, TypeOK
    <2>2. orders' \in SUBSET BOOLEAN /\ checkoutInProgress' \in BOOLEAN
        BY <1>13 DEF Checkout, PageInv, TypeOK
    <2>3. TypeOK'
        BY <2>1, <2>2 DEF backend, held, PageInv, TypeOK
    <2>4. UNCHANGED <<backend, cart, found, maps, locking>>
        BY <2>1 DEF held
    <2> QED BY <2>3, <2>4, PageStep DEF PageInv, CartHoldsOnlyWonSeats
<1>14. ASSUME NEW ok \in orders, OrderAnswered(ok) PROVE PageInv'
    <2>1. (cart' = {} /\ found' = {}) \/ UNCHANGED <<cart, found>>
        BY <1>14 DEF OrderAnswered, held
    <2>2. UNCHANGED <<backend, maps, locking>>
        BY <1>14 DEF OrderAnswered
    <2>3. TypeOK'
        BY <1>14, <2>1 DEF OrderAnswered, InProgress, backend, PageInv, TypeOK
    <2> QED BY <2>1, <2>2, <2>3, PageStep DEF PageInv, CartHoldsOnlyWonSeats
<1>15. CASE UNCHANGED vars
    <2>1. UNCHANGED <<backend, cart, found, maps, locking>>
        BY <1>15 DEF vars, held
    <2>2. TypeOK'
        BY <1>15 DEF vars, backend, held, PageInv, TypeOK
    <2> QED BY <2>1, <2>2, PageStep DEF PageInv, CartHoldsOnlyWonSeats
<1> QED
    BY <1>1, <1>2, <1>3, <1>4, <1>5, <1>6, <1>7, <1>8, <1>9, <1>10, <1>11, <1>12, <1>13, <1>14,
       <1>15 DEF Next, Backend, SeatStep

-----------------------------------------------------------------------------
\* The inductive invariant holds in every reachable state.
THEOREM Invariance == Spec => []PageInv
BY InitInv, NextInv, PTL DEF Spec

\* Every variable stays in its domain.
THEOREM TypeCorrectness == Spec => []TypeOK
<1>1. PageInv => TypeOK
    BY DEF PageInv
<1> QED BY <1>1, Invariance, PTL

\* Whatever arrives in whatever order, the cart holds only seats this user has locked, or
\* what an earlier visit left in it.
THEOREM OnlyWonSeats == Spec => []CartHoldsOnlyWonSeats
<1>1. PageInv => CartHoldsOnlyWonSeats
    BY DEF PageInv
<1> QED BY <1>1, Invariance, PTL

-----------------------------------------------------------------------------
(* The backend the page relies on *)

\* The seat maps a SeatView allows are those the page expects.
LEMMA ShowsHonest ==
    \A s \in Sessions : View(s)!Honest({x \in Seats : <<s, x>> \in won}) = Shows(s)
BY DEF View!Honest, View!SeatStatus, Shows, SeatMaps, SeatStatus

LEMMA ViewInit == ASSUME Init, NEW s \in Sessions PROVE View(s)!Init
BY ShowsHonest DEF Init, View!Init

LEMMA ViewStep ==
    ASSUME PageInv, [Next]_vars, NEW s \in Sessions
    PROVE  [View(s)!Next]_(View(s)!vars)
<1>1. ASSUME UNCHANGED backend PROVE UNCHANGED View(s)!vars
    BY <1>1 DEF backend, View!vars
<1>2. ASSUME NEW r \in Sessions, SeatsChange(r) PROVE [View(s)!Next]_(View(s)!vars)
    <2>1. PICK m \in Shows(r) : status' = [status EXCEPT ![r] = m]
        BY <1>2 DEF SeatsChange
    <2>2. won' = won
        BY <1>2 DEF SeatsChange
    <2>3. status'[s] \in Shows(s)
        BY <2>1 DEF PageInv, TypeOK, OnlyWonSeatsAreMine
    <2>4. View(s)!Change
        BY <2>2, <2>3, ShowsHonest DEF View!Change
    <2> QED BY <2>4 DEF View!Next
<1>3. ASSUME NEW r \in Sessions, NEW x \in Seats,
             won' \in {won, won \cup {<<r, x>>}}, UNCHANGED status
      PROVE  [View(s)!Next]_(View(s)!vars)
    <2>1. CASE r = s /\ won' = won \cup {<<r, x>>}
        <3>1. {y \in Seats : <<s, y>> \in won'} = {y \in Seats : <<s, y>> \in won} \cup {x}
            BY <2>1
        <3>2. View(s)!Lock(x)
            BY <1>3, <3>1 DEF View!Lock
        <3> QED BY <3>2 DEF View!Next
    <2>2. CASE r # s \/ won' = won
        <3>1. \A y \in Seats : <<s, y>> \in won' <=> <<s, y>> \in won
            BY <1>3, <2>2
        <3> QED BY <1>3, <3>1 DEF View!vars
    <2> QED BY <1>3, <2>1, <2>2
<1>4. ASSUME NEW r \in Sessions, NEW x \in Seats, LockedElsewhere(r, x)
      PROVE  [View(s)!Next]_(View(s)!vars)
    BY <1>3, <1>4 DEF LockedElsewhere
<1>5. ASSUME NEW x \in Seats, LockSeat(x) PROVE [View(s)!Next]_(View(s)!vars)
    <2>1. session \in Sessions /\ UNCHANGED status /\ won' \in {won, won \cup {<<session, x>>}}
        BY <1>5 DEF LockSeat
    <2> QED BY <1>3, <2>1
<1>6. ASSUME NEW x \in Seats, RemoveSeat(x) PROVE UNCHANGED backend
    BY <1>6 DEF RemoveSeat
<1>7. ASSUME NEW m \in maps, MapArrives(m) \/ MapShown(m) \/ MapLost(m)
      PROVE  UNCHANGED backend
    BY <1>7 DEF MapArrives, MapShown, MapLost
<1>8. ASSUME \/ Poll \/ LoadAgain \/ EventLoaded \/ Pay \/ Checkout
             \/ \E r \in Sessions : ChooseSession(r)
             \/ \E c \in locking : LockAnswered(c)
             \/ \E ok \in orders : OrderAnswered(ok)
             \/ UNCHANGED vars
      PROVE  UNCHANGED backend
    BY <1>8 DEF Poll, LoadAgain, EventLoaded, Pay, Checkout, ChooseSession, LockAnswered,
                OrderAnswered, vars
<1> QED BY <1>1, <1>2, <1>4, <1>5, <1>6, <1>7, <1>8 DEF Next, Backend, SeatStep

\* What the page can see of each session, from now on and from its other requests, is a
\* SeatView: the page assumes of the backend nothing that SeatHistory does not show.
THEOREM BackendIsASeatView == ASSUME NEW s \in Sessions PROVE Spec => View(s)!Spec
<1>1. Init => View(s)!Init
    BY ViewInit
<1>2. PageInv /\ [Next]_vars => [View(s)!Next]_(View(s)!vars)
    BY ViewStep
<1> QED BY <1>1, <1>2, Invariance, PTL DEF Spec, View!Spec

\* Conversely the page puts up with every SeatView: whatever step the seat map of one
\* session takes is a step the page is specified against.
THEOREM AnySeatViewWillDo ==
    ASSUME PageInv, TypeOK', NEW s \in Sessions, View(s)!Next,
           \A r \in Sessions \ {s} : UNCHANGED View(r)!vars,
           UNCHANGED <<session, held, offered, maps, locking, loads, paying, orders,
                       checkoutInProgress>>
    PROVE  Next
<1>1. \A r \in Sessions \ {s} : status'[r] = status[r]
    BY DEF View!vars
<1>2. \A r \in Sessions \ {s}, y \in Seats : <<r, y>> \in won' <=> <<r, y>> \in won
    BY DEF View!vars
<1>3. CASE View(s)!Change
    <2>1. status'[s] \in Shows(s)
        BY <1>3, ShowsHonest DEF View!Change
    <2>2. status' = [status EXCEPT ![s] = status'[s]]
        BY <1>1 DEF PageInv, TypeOK
    <2>3. \A y \in Seats : <<s, y>> \in won' <=> <<s, y>> \in won
        BY <1>3 DEF View!Change
    <2>4. won' = won
        BY <1>2, <2>3 DEF PageInv, TypeOK
    <2>5. SeatsChange(s)
        BY <2>1, <2>2, <2>4 DEF SeatsChange
    <2> QED BY <2>5 DEF Next, Backend
<1>4. ASSUME NEW x \in Seats, View(s)!Lock(x) PROVE Next
    <2>1. status' = status
        BY <1>1, <1>4 DEF View!Lock, PageInv, TypeOK
    <2>2. \A y \in Seats : <<s, y>> \in won' <=> <<s, y>> \in won \/ y = x
        BY <1>4 DEF View!Lock
    <2>3. won' = won \cup {<<s, x>>}
        BY <1>2, <2>2 DEF PageInv, TypeOK
    <2>4. LockedElsewhere(s, x)
        BY <2>1, <2>3 DEF LockedElsewhere
    <2> QED BY <2>4 DEF Next, Backend
<1> QED BY <1>3, <1>4 DEF View!Next
=============================================================================
